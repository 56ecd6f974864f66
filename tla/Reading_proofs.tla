---------------------------- MODULE Reading_proofs ----------------------------
(***************************************************************************)
(* Proofs about those who read the table: for every number of memories,     *)
(* every page size and any writes in between, a walk over the pages misses  *)
(* nothing that stayed and repeats nothing; and what the merged answer of a *)
(* search promises, for every RRF_K, every limit and any writes between its *)
(* two statements.                                                          *)
(***************************************************************************)
EXTENDS Listing, HybridSearch, FiniteSetTheorems, TLAPS

------------------------------------------------------------------------------
(* The order of the pages is a strict total order: this is where the id in   *)
(* the cursor is needed.                                                    *)

LEMMA OlderIrreflexive ==
  ASSUME NEW a \in Instants, NEW i \in Ids
  PROVE  ~Older(a, i, a, i)
BY RowsAssumption DEF Older

LEMMA OlderTransitive ==
  ASSUME NEW a \in Instants, NEW i \in Ids, NEW b \in Instants, NEW j \in Ids,
         NEW c \in Instants, NEW k \in Ids,
         Older(a, i, b, j), Older(b, j, c, k)
  PROVE  Older(a, i, c, k)
<1>1. Stamp[a] \in Nat /\ Stamp[b] \in Nat /\ Stamp[c] \in Nat
  BY RowsAssumption
<1>2. i \in Nat /\ j \in Nat /\ k \in Nat
  BY RowsAssumption
<1> QED
  BY <1>1, <1>2 DEF Older

LEMMA OlderAsymmetric ==
  ASSUME NEW a \in Instants, NEW i \in Ids, NEW b \in Instants, NEW j \in Ids,
         Older(a, i, b, j)
  PROVE  ~Older(b, j, a, i)
BY OlderTransitive, OlderIrreflexive

------------------------------------------------------------------------------
(* The invariant.                                                           *)

Typed ==
  /\ RowsTypeOK
  /\ st \in {"idle", "ready", "count", "select", "end", "panicked"}
  /\ filter \in Filter
  /\ cursor \in Cursor \cup {NoCursor}
  /\ page \in SUBSET Ids /\ seen \in SUBSET Ids /\ stayed \in SUBSET Ids

Walking == st \in {"ready", "count", "select"}
NotBelow(i) == ~Older(born[i], i, cursor.at, cursor.id)

(* What has been on a page was saved with a date that is not below the       *)
(* cursor; without a cursor nothing has been on a page.                     *)
Passed ==
  /\ st \in {"count", "select"} => page = {}
  /\ cursor = NoCursor => seen = {} /\ (st # "end" => page = {})
  /\ \A i \in seen \cup page : born[i] \in Instants
  /\ cursor # NoCursor => \A i \in seen : NotBelow(i)
  /\ cursor # NoCursor /\ Walking => \A i \in page : NotBelow(i)

(* What stayed has been on a page or is below the cursor; nothing counts as  *)
(* having stayed before the first page.                                     *)
Ahead ==
  /\ stayed \subseteq InScope(filter)
  /\ cursor = NoCursor /\ Walking => stayed = {}
  /\ cursor # NoCursor /\ Walking =>
       \A i \in stayed \ (seen \cup page) : Older(rows[i].at, i, cursor.at, cursor.id)

LInv == Typed /\ Passed /\ NoneRepeated /\ Ahead /\ NoneMissed

------------------------------------------------------------------------------
(* A write by anyone changes the date of no memory, not even of one that is  *)
(* deleted and restored.                                                    *)
LEMMA DatesLast ==
  ASSUME RowsTypeOK, OtherWrite
  PROVE  /\ RowsTypeOK'
         /\ \A i \in Ids : born[i] \in Instants => born'[i] = born[i]
         /\ \A i \in Ids : rows[i] # NoRow /\ rows'[i] # NoRow => rows'[i].at = rows[i].at
<1>1. PICK k \in Ids : (\E t \in Instants, tag \in Tags : SaveRow(k, t, tag)) \/ DeleteRow(k)
  BY DEF OtherWrite
<1>2. NoRow \notin Row /\ NoRow \notin Instants
  BY RowsAssumption
<1>3. CASE DeleteRow(k)
  BY <1>2, <1>3 DEF DeleteRow, RowsTypeOK
<1>4. ASSUME NEW t \in Instants, NEW tag \in Tags, SaveRow(k, t, tag)
      PROVE  /\ RowsTypeOK'
             /\ \A i \in Ids : born[i] \in Instants => born'[i] = born[i]
             /\ \A i \in Ids : rows[i] # NoRow /\ rows'[i] # NoRow => rows'[i].at = rows[i].at
  <2> DEFINE r == [at |-> t, tag |-> tag]
  <2>1. r \in Row /\ r.at = t
    BY DEF Row
  <2>2. /\ born[k] \in {NoRow, t}
        /\ rows' = [rows EXCEPT ![k] = r]
        /\ born' = [born EXCEPT ![k] = t]
    BY <1>4 DEF SaveRow
  <2> HIDE DEF r
  <2>3. /\ rows \in [Ids -> Row \cup {NoRow}]
        /\ born \in [Ids -> Instants \cup {NoRow}]
        /\ \A i \in Ids : rows[i] # NoRow => born[i] = rows[i].at
    BY DEF RowsTypeOK
  <2>4. \A i \in Ids : rows[i] # NoRow => rows[i].at \in Instants
    BY <2>3 DEF Row
  <2>5. RowsTypeOK'
    BY <2>1, <2>2, <2>3 DEF RowsTypeOK
  <2>6. \A i \in Ids : born[i] \in Instants => born'[i] = born[i]
    BY <1>2, <2>2, <2>3
  <2>7. ASSUME NEW i \in Ids, rows[i] # NoRow, rows'[i] # NoRow
        PROVE  rows'[i].at = rows[i].at
    <3>1. CASE i = k
      BY <3>1, <1>2, <2>1, <2>2, <2>3, <2>4, <2>7
    <3>2. CASE i # k
      BY <3>2, <2>2, <2>3
    <3> QED
      BY <3>1, <3>2
  <2> QED
    BY <2>5, <2>6, <2>7
<1> QED
  BY <1>1, <1>3, <1>4

LEMMA WriteKeeps ==
  ASSUME LInv, Write
  PROVE  LInv'
<1> USE DEF LInv
<1>1. /\ RowsTypeOK'
      /\ \A i \in Ids : born[i] \in Instants => born'[i] = born[i]
      /\ \A i \in Ids : rows[i] # NoRow /\ rows'[i] # NoRow => rows'[i].at = rows[i].at
  BY DatesLast DEF Write, Typed
<1>2. /\ stayed' = stayed \cap {i \in Ids : Matches(rows'[i], filter)}
      /\ UNCHANGED <<st, limit, filter, cursor, total, page, seen>>
  BY DEF Write, walk
<1>3. Typed'
  BY <1>1, <1>2 DEF Typed
<1>4. Passed'
  BY <1>1, <1>2 DEF Passed, Typed, Walking, NotBelow
<1>5. NoneRepeated' /\ NoneMissed'
  BY <1>2 DEF NoneRepeated, NoneMissed
<1>6. stayed' \subseteq stayed /\ stayed' \subseteq InScope(filter)'
  BY <1>2 DEF InScope
<1>7. ASSUME NEW i \in stayed'
      PROVE  rows'[i].at = rows[i].at
  BY <1>1, <1>6, <1>7 DEF Ahead, Typed, InScope, Matches
<1>8. Ahead'
  BY <1>2, <1>6, <1>7 DEF Ahead, Walking
<1> QED
  BY <1>3, <1>4, <1>5, <1>8

------------------------------------------------------------------------------
(* A page.                                                                  *)

LEMMA SelectKeeps ==
  ASSUME LInv, SelectPage
  PROVE  LInv'
<1> DEFINE S == Below(filter, cursor)
<1>1. /\ st = "select"
      /\ stayed' = IF cursor = NoCursor THEN InScope(filter) ELSE stayed
      /\ UNCHANGED <<rows, born, filter, total, seen, quiet>>
  BY DEF SelectPage, tablevars
<1>2. PICK W \in Pages(S, limit) :
        \/ /\ W = S
           /\ st' = "end"
           /\ page' = W
           /\ UNCHANGED cursor
        \/ /\ W # S
           /\ st' = "ready"
           /\ page' = W
           /\ cursor' \in NextCursors(S, W)
        \/ /\ st' = "panicked"
           /\ UNCHANGED <<page, cursor>>
  BY DEF SelectPage
<1>3. /\ W \subseteq S
      /\ W # S => \A i \in W, j \in S \ W : OlderRow(j, i)
  BY DEF Pages
<1>4. NoCursor \notin Cursor /\ NoRow \notin Row /\ NoRow \notin Instants
  BY RowsAssumption
<1>5. /\ RowsTypeOK /\ filter \in Filter /\ cursor \in Cursor \cup {NoCursor}
      /\ page \in SUBSET Ids /\ seen \in SUBSET Ids /\ stayed \in SUBSET Ids
  BY DEF LInv, Typed
<1>6. page = {} /\ (cursor = NoCursor => seen = {} /\ stayed = {})
  BY <1>1 DEF LInv, Passed, Ahead, Walking
<1>7. ASSUME NEW i \in Ids, rows[i] # NoRow
      PROVE  rows[i].at \in Instants /\ born[i] = rows[i].at
  BY <1>5, <1>7 DEF RowsTypeOK, Row
<1>8. ASSUME NEW i \in S
      PROVE  /\ i \in Ids /\ rows[i] # NoRow
             /\ cursor # NoCursor => Older(rows[i].at, i, cursor.at, cursor.id)
  BY <1>8 DEF Below, InScope, Matches
<1> HIDE DEF S
<1>9. ASSUME NEW i \in S
      PROVE  i \notin seen
  <2>1. CASE cursor = NoCursor
    BY <2>1, <1>6
  <2>2. CASE cursor # NoCursor
    BY <2>2, <1>7, <1>8, <1>9 DEF LInv, Passed, NotBelow
  <2> QED
    BY <2>1, <2>2
<1>10. stayed' \subseteq InScope(filter)
  BY <1>1 DEF LInv, Ahead
<1>11. stayed' \subseteq seen \cup S
  <2>1. CASE cursor = NoCursor
    BY <2>1, <1>1 DEF S, Below
  <2>2. CASE cursor # NoCursor
    BY <2>2, <1>1, <1>6 DEF S, Below, InScope, LInv, Ahead, Walking
  <2> QED
    BY <2>1, <2>2
<1>12. /\ stayed' \in SUBSET Ids
       /\ (stayed \subseteq InScope(filter))'
       /\ RowsTypeOK'
  BY <1>1, <1>5, <1>10 DEF InScope, RowsTypeOK
<1>13. CASE W = S /\ st' = "end" /\ page' = W /\ UNCHANGED cursor
  <2>1. Typed'
    BY <1>1, <1>5, <1>8, <1>12, <1>13 DEF Typed
  <2>2. Passed'
    <3>1. \A i \in seen' \cup page' : born'[i] \in Instants
      BY <1>1, <1>7, <1>8, <1>13 DEF LInv, Passed
    <3> QED
      BY <3>1, <1>1, <1>6, <1>13 DEF LInv, Passed, Walking, NotBelow
  <2>3. NoneRepeated' /\ NoneMissed'
    BY <1>1, <1>9, <1>11, <1>13 DEF NoneRepeated, NoneMissed
  <2>4. Ahead'
    BY <1>12, <1>13 DEF Ahead, Walking
  <2> QED
    BY <2>1, <2>2, <2>3, <2>4 DEF LInv
<1>14. CASE W # S /\ st' = "ready" /\ page' = W /\ cursor' \in NextCursors(S, W)
  <2>1. PICK k \in LastOf(W) : cursor' = [at |-> rows[k].at, id |-> k]
    BY <1>14 DEF NextCursors
  <2>2. k \in W /\ k \in Ids /\ rows[k] # NoRow /\ \A j \in W \ {k} : OlderRow(k, j)
    BY <1>3, <1>8 DEF LastOf
  <2>3. /\ cursor'.at = rows[k].at /\ cursor'.id = k
        /\ cursor' \in Cursor /\ cursor' # NoCursor
    BY <2>1, <2>2, <1>4, <1>7 DEF Cursor
  <2>4. ASSUME NEW i \in W
        PROVE  ~OlderRow(i, k)
    BY <2>2, <1>3, <1>7, <1>8, OlderAsymmetric, OlderIrreflexive DEF OlderRow
  <2>5. ASSUME NEW i \in S \ W
        PROVE  OlderRow(i, k)
    BY <2>2, <1>3, <1>14
  <2>6. ASSUME NEW i \in seen
        PROVE  NotBelow(i)'
    <3>1. cursor # NoCursor
      BY <1>6, <2>6
    <3>2. ~Older(born[i], i, cursor.at, cursor.id) /\ born[i] \in Instants /\ i \in Ids
      BY <3>1, <1>5, <2>6 DEF LInv, Passed, NotBelow
    <3>3. Older(rows[k].at, k, cursor.at, cursor.id)
      BY <3>1, <2>2, <1>3, <1>8
    <3>4. cursor.at \in Instants /\ cursor.id \in Ids
      BY <3>1, <1>5 DEF Cursor
    <3>5. ~Older(born[i], i, rows[k].at, k)
      BY <3>2, <3>3, <3>4, <2>2, <1>7, OlderTransitive
    <3> QED
      BY <3>5, <2>3, <1>1 DEF NotBelow
  <2>7. ASSUME NEW i \in W
        PROVE  NotBelow(i)'
    BY <2>3, <2>4, <2>7, <1>1, <1>3, <1>7, <1>8 DEF NotBelow, OlderRow
  <2>8. Typed'
    BY <2>3, <1>1, <1>3, <1>5, <1>8, <1>12, <1>14 DEF Typed
  <2>9. Passed'
    <3>1. \A i \in seen' \cup page' : born'[i] \in Instants
      BY <1>1, <1>3, <1>7, <1>8, <1>14 DEF LInv, Passed
    <3> QED
      BY <3>1, <2>3, <2>6, <2>7, <1>1, <1>14 DEF Passed
  <2>10. NoneRepeated' /\ NoneMissed'
    BY <1>1, <1>3, <1>9, <1>14 DEF NoneRepeated, NoneMissed
  <2>11. Ahead'
    <3>1. ASSUME NEW i \in stayed' \ (seen' \cup page')
          PROVE  Older(rows'[i].at, i, cursor'.at, cursor'.id)
      BY <3>1, <2>3, <2>5, <1>1, <1>11, <1>14 DEF OlderRow
    <3> QED
      BY <3>1, <2>3, <1>12 DEF Ahead
  <2> QED
    BY <2>8, <2>9, <2>10, <2>11 DEF LInv
<1>15. CASE st' = "panicked" /\ UNCHANGED <<page, cursor>>
  BY <1>1, <1>5, <1>6, <1>12, <1>15
     DEF LInv, Typed, Passed, NoneRepeated, Ahead, NoneMissed, Walking, NotBelow
<1> QED
  BY <1>2, <1>13, <1>14, <1>15

------------------------------------------------------------------------------

LEMMA InitHolds ==
  ASSUME Init
  PROVE  LInv
BY RowsAssumption
   DEF Init, RowsInit, ListInit, LInv, Typed, RowsTypeOK, Filter, Passed, NoneRepeated, Ahead,
       NoneMissed, Walking

LEMMA StepKeeps ==
  ASSUME LInv, [Next]_vars
  PROVE  LInv'
<1> USE DEF LInv, Typed, Passed, NoneRepeated, Ahead, NoneMissed, Walking, NotBelow, InScope
<1>1. ASSUME NEW f \in AskedFilters, Start(f)
      PROVE  LInv'
  BY <1>1, ListingAssumption DEF Start, tablevars, RowsTypeOK
<1>2. ASSUME NEW l \in AskedLimits, Ask(l)
      PROVE  LInv'
  BY <1>2 DEF Ask, tablevars, RowsTypeOK
<1>3. CASE CountTotal
  BY <1>3 DEF CountTotal, tablevars, RowsTypeOK
<1>4. CASE Fail
  BY <1>4 DEF Fail, tablevars, RowsTypeOK
<1>5. CASE UNCHANGED vars
  BY <1>5 DEF vars, tablevars, listvars, walk, RowsTypeOK
<1> QED
  BY <1>1, <1>2, <1>3, <1>4, <1>5, SelectKeeps, WriteKeeps DEF Next, Read

LEMMA Invariance == Spec => []LInv
BY InitHolds, StepKeeps, PTL DEF Spec

(* Whatever others save, change, delete and restore between two pages, a     *)
(* memory that was there from the first page to the last has been on one    *)
(* (the cursor condition and the order of list_memories).                   *)
THEOREM WalkMissesNothing == Spec => []NoneMissed
BY Invariance, PTL DEF LInv

(* No memory is on two pages of a walk: an upsert keeps created_at.         *)
THEOREM WalkRepeatsNothing == Spec => []NoneRepeated
BY Invariance, PTL DEF LInv

(* While nobody has written since the first count, what was on pages and     *)
(* what is below the cursor are all there is, and that is what was counted. *)
SumInv ==
  quiet =>
    /\ Walking => seen \cup page \cup Below(filter, cursor) = InScope(filter)
    /\ st = "end" => seen \cup page = InScope(filter)
    /\ st \in {"select", "end"} => total = Cardinality(InScope(filter))

LEMMA SelectSums ==
  ASSUME LInv, SumInv, SelectPage, quiet
  PROVE  SumInv'
<1> DEFINE S == Below(filter, cursor)
           R == InScope(filter)
<1>1. /\ st = "select" /\ UNCHANGED <<rows, born, filter, total, seen, quiet>>
      /\ page = {} /\ RowsTypeOK
  BY DEF SelectPage, tablevars, LInv, Typed, Passed
<1>2. seen \cup S = R /\ total = Cardinality(R)
  BY <1>1 DEF SumInv, Walking
<1>3. R' = R
  BY <1>1 DEF InScope
<1>4. PICK W \in Pages(S, limit) :
        \/ W = S /\ st' = "end" /\ page' = W
        \/ W # S /\ st' = "ready" /\ page' = W /\ cursor' \in NextCursors(S, W)
        \/ st' = "panicked"
  BY DEF SelectPage
<1>5. W \subseteq S /\ (W # S => \A i \in W, j \in S \ W : OlderRow(j, i))
  BY DEF Pages
<1>6. CASE W = S /\ st' = "end" /\ page' = W
  <2>1. (seen \cup page)' = R' /\ total' = Cardinality(R')
    BY <1>1, <1>2, <1>3, <1>6
  <2> QED BY <1>6, <2>1 DEF SumInv, Walking
<1>7. CASE W # S /\ st' = "ready" /\ page' = W /\ cursor' \in NextCursors(S, W)
  <2>1. PICK k \in LastOf(W) : cursor' = [at |-> rows[k].at, id |-> k]
    BY <1>7 DEF NextCursors
  <2>2. k \in W /\ cursor'.at = rows[k].at /\ cursor'.id = k
    BY <2>1 DEF LastOf
  <2>3. Below(filter, cursor)' \subseteq R
    BY <1>3 DEF Below
  <2>4. ASSUME NEW j \in S \ W
        PROVE  j \in Below(filter, cursor)'
    <3>1. Older(rows[j].at, j, rows[k].at, k)
      BY <1>5, <1>7, <2>2 DEF OlderRow
    <3>2. j \in InScope(filter)'
      BY <1>2, <1>3
    <3> QED BY <1>1, <2>2, <3>1, <3>2 DEF Below
  <2>5. (seen \cup page \cup Below(filter, cursor))' = R'
    <3> HIDE DEF S, R
    <3> QED BY <1>1, <1>2, <1>3, <1>5, <1>7, <2>3, <2>4
  <2> QED BY <1>7, <2>5 DEF SumInv, Walking
<1>8. CASE st' = "panicked"
  BY <1>8 DEF SumInv, Walking
<1> QED BY <1>4, <1>6, <1>7, <1>8

LEMMA SumsStep ==
  ASSUME LInv, SumInv, [Next]_vars
  PROVE  SumInv'
<1>1. CASE Write \/ \E f \in AskedFilters : Start(f)
  <2>1. quiet' = FALSE
    BY <1>1 DEF Write, Start
  <2> QED BY <2>1 DEF SumInv
<1>2. CASE SelectPage
  <2>1. quiet' = quiet
    BY <1>2 DEF SelectPage
  <2> QED BY <1>2, <2>1, SelectSums DEF SumInv
<1>3. ASSUME NEW l \in AskedLimits, Ask(l)
      PROVE  SumInv'
  <2>1. /\ st = "ready" /\ st' = "count" /\ page' = {} /\ seen' = seen \cup page
        /\ UNCHANGED <<rows, born, filter, cursor, quiet>>
    BY <1>3 DEF Ask, tablevars
  <2>2. InScope(filter)' = InScope(filter) /\ Below(filter, cursor)' = Below(filter, cursor)
    BY <2>1 DEF InScope, Below
  <2> QED BY <2>1, <2>2 DEF SumInv, Walking
<1>4. CASE CountTotal
  <2>1. /\ st = "count" /\ st' = "select" /\ total' = Cardinality(InScope(filter))
        /\ quiet' = IF cursor = NoCursor THEN TRUE ELSE quiet
        /\ UNCHANGED <<rows, born, filter, cursor, page, seen>>
    BY <1>4 DEF CountTotal, tablevars
  <2>2. InScope(filter)' = InScope(filter) /\ Below(filter, cursor)' = Below(filter, cursor)
    BY <2>1 DEF InScope, Below
  <2>3. CASE cursor = NoCursor
    <3>1. seen = {} /\ page = {} /\ Below(filter, cursor) = InScope(filter)
      BY <2>1, <2>3 DEF LInv, Passed, Below
    <3> QED BY <2>1, <2>2, <3>1 DEF SumInv, Walking
  <2>4. CASE cursor # NoCursor
    BY <2>1, <2>2, <2>4 DEF SumInv, Walking
  <2> QED BY <2>3, <2>4
<1>5. CASE Fail \/ UNCHANGED vars
  <2>1. /\ st' = st \/ (st' = "ready" /\ st \in {"count", "select"})
        /\ st' # "ready" => total' = total
        /\ UNCHANGED <<rows, born, filter, cursor, page, seen, quiet>>
    BY <1>5 DEF Fail, vars, tablevars, listvars, walk
  <2>2. InScope(filter)' = InScope(filter) /\ Below(filter, cursor)' = Below(filter, cursor)
    BY <2>1 DEF InScope, Below
  <2> QED BY <2>1, <2>2 DEF SumInv, Walking
<1> QED BY <1>1, <1>2, <1>3, <1>4, <1>5 DEF Next, Read

(* While nobody writes, the total that comes with each page is the number of *)
(* memories the pages hold, although no page knows what the others held.    *)
THEOREM TotalIsThePages == Spec => []TotalAddsUp
<1>1. Init => SumInv
  BY DEF Init, ListInit, SumInv
<1>2. LInv /\ SumInv /\ [Next]_vars => SumInv'
  BY SumsStep
<1>3. SumInv => TotalAddsUp
  BY DEF SumInv, TotalAddsUp
<1> QED BY <1>1, <1>2, <1>3, Invariance, PTL DEF Spec


------------------------------------------------------------------------------
(* How far a walk has come: the memories that none of its pages had yet.    *)
Unlisted == Ids \ (seen \cup page)
LeftToList == Cardinality(Unlisted)

(* One page more, or the walk begins anew.                                  *)
Turns == SelectPage /\ st' = "ready"
Begins == \E f \in AskedFilters : Start(f)

LEMMA PageAdvances ==
  ASSUME LInv, LInv', Turns
  PROVE  /\ page' # {} /\ page' \subseteq Unlisted /\ seen' = seen
         /\ cursor # NoCursor => Older(cursor'.at, cursor'.id, cursor.at, cursor.id)
<1>1. /\ st = "select" /\ st' = "ready" /\ seen' = seen /\ UNCHANGED rows
  BY DEF Turns, SelectPage, tablevars
<1>2. PICK W \in Pages(Below(filter, cursor), limit) :
        /\ W # Below(filter, cursor) /\ limit > 0
        /\ page' = W
        /\ cursor' \in NextCursors(Below(filter, cursor), W)
  BY <1>1 DEF Turns, SelectPage
<1>3. PICK k \in LastOf(W) : cursor' = [at |-> rows[k].at, id |-> k]
  BY <1>2 DEF NextCursors
<1>4. k \in page' /\ k \in Below(filter, cursor)
  BY <1>2, <1>3 DEF LastOf, Pages
<1>5. cursor'.at = rows[k].at /\ cursor'.id = k
  BY <1>3
<1>6. cursor # NoCursor => Older(cursor'.at, cursor'.id, cursor.at, cursor.id)
  BY <1>4, <1>5 DEF Below
<1>7. page = {} /\ page' \in SUBSET Ids /\ page' \cap seen' = {}
  BY <1>1 DEF LInv, Typed, Passed, NoneRepeated
<1>8. page' \subseteq Unlisted
  BY <1>1, <1>7 DEF Unlisted
<1> QED BY <1>1, <1>4, <1>6, <1>8

LEMMA OthersKeepUnlisted ==
  ASSUME LInv, [Next]_vars, ~Begins, ~SelectPage
  PROVE  Unlisted' = Unlisted
<1>1. ASSUME NEW l \in AskedLimits, Ask(l) PROVE Unlisted' = Unlisted
  BY <1>1 DEF Ask, Unlisted
<1>2. CASE CountTotal \/ Fail \/ Write \/ UNCHANGED vars
  BY <1>2 DEF CountTotal, Fail, Write, vars, listvars, walk, Unlisted
<1> QED BY <1>1, <1>2 DEF Next, Read, Begins

(* Every page but the last shows a memory that no page before it had, and    *)
(* its cursor is older; nothing but a new walk takes a page back, whatever  *)
(* others write and whichever statement fails.  So a walk has at most one   *)
(* page more than there are ids, which is why it ends (WalkEnds).           *)
THEOREM WalkAdvances ==
  ASSUME IsFiniteSet(Ids)
  PROVE  Spec => [][/\ ~Begins => LeftToList' <= LeftToList
                    /\ Turns => /\ LeftToList' < LeftToList
                                /\ cursor # NoCursor =>
                                     Older(cursor'.at, cursor'.id, cursor.at, cursor.id)]_vars
<1>1. ASSUME LInv, LInv', [Next]_vars
      PROVE  /\ ~Begins => LeftToList' <= LeftToList
             /\ Turns => /\ LeftToList' < LeftToList
                         /\ cursor # NoCursor =>
                              Older(cursor'.at, cursor'.id, cursor.at, cursor.id)
  <2>1. IsFiniteSet(Unlisted)
    BY FS_Subset DEF Unlisted
  <2>2. LeftToList \in Nat
    BY <2>1, FS_CardinalityType DEF LeftToList
  <2>3. ASSUME SelectPage
        PROVE  Unlisted' \in SUBSET Unlisted
    <3>1. page = {} /\ seen' = seen
      BY <1>1, <2>3 DEF SelectPage, LInv, Passed
    <3> QED BY <3>1 DEF Unlisted
  <2>4. ASSUME Turns
        PROVE  Unlisted' \in SUBSET Unlisted /\ Unlisted' # Unlisted
    <3>1. page' # {} /\ page' \subseteq Unlisted
      BY <1>1, <2>4, PageAdvances
    <3>2. PICK i \in page' : i \in Unlisted
      BY <3>1
    <3>3. i \notin Unlisted'
      BY <3>2 DEF Unlisted
    <3>4. Unlisted' \in SUBSET Unlisted
      BY <2>3, <2>4 DEF Turns
    <3> QED BY <3>2, <3>3, <3>4
  <2>5. ASSUME ~Begins
        PROVE  Unlisted' \in SUBSET Unlisted
    BY <1>1, <2>3, <2>5, OthersKeepUnlisted
  <2>6. ASSUME Unlisted' \in SUBSET Unlisted
        PROVE  /\ LeftToList' \in Nat /\ LeftToList' <= LeftToList
               /\ Unlisted' # Unlisted => LeftToList' # LeftToList
    <3>1. /\ IsFiniteSet(Unlisted')
          /\ Cardinality(Unlisted') <= Cardinality(Unlisted)
          /\ Cardinality(Unlisted) = Cardinality(Unlisted') => Unlisted = Unlisted'
      BY <2>1, <2>6, FS_Subset
    <3> QED BY <3>1, FS_CardinalityType DEF LeftToList
  <2>7. ~Begins => LeftToList' <= LeftToList
    BY <2>5, <2>6
  <2>8. Turns => LeftToList' < LeftToList
    BY <2>2, <2>4, <2>6
  <2> QED BY <1>1, <2>7, <2>8, PageAdvances
<1> QED BY <1>1, Invariance, PTL DEF Spec

------------------------------------------------------------------------------
(* Fractions.                                                               *)

LEMMA PositiveProduct ==
  ASSUME NEW a \in Nat, NEW b \in Nat, a > 0, b > 0
  PROVE  a * b \in Nat /\ a * b > 0
BY Z3

LEMMA MonotoneProduct ==
  ASSUME NEW a \in Nat, NEW b \in Nat, NEW c \in Nat, a >= b, c > 0
  PROVE  a * c >= b * c /\ (a > b => a * c > b * c)
BY Z3

(* A sum of two fractions grows when both do and one of them strictly.      *)
LEMMA FractionSum ==
  ASSUME NEW an \in Nat, NEW ad \in Nat, NEW bn \in Nat, NEW bd \in Nat,
         NEW cn \in Nat, NEW cd \in Nat, NEW dn \in Nat, NEW dd \in Nat,
         ad > 0, bd > 0, cd > 0, dd > 0,
         an * cd >= cn * ad, bn * dd >= dn * bd,
         an * cd > cn * ad \/ bn * dd > dn * bd
  PROVE  (an * bd + bn * ad) * (cd * dd) > (cn * dd + dn * cd) * (ad * bd)
<1> DEFINE x == an * cd  y == cn * ad  z == bn * dd  w == dn * bd
           p == bd * dd  q == ad * cd
<1>1. /\ x \in Nat /\ y \in Nat /\ z \in Nat /\ w \in Nat
      /\ p \in Nat /\ p > 0 /\ q \in Nat /\ q > 0
  BY PositiveProduct
<1>2. x >= y /\ z >= w /\ (x > y \/ z > w)
  OBVIOUS
<1>3. (an * bd + bn * ad) * (cd * dd) = x * p + z * q
  BY Z3
<1>4. (cn * dd + dn * cd) * (ad * bd) = y * p + w * q
  BY Z3
<1> HIDE DEF x, y, z, w, p, q
<1>5. x * p \in Nat /\ y * p \in Nat /\ z * q \in Nat /\ w * q \in Nat
  BY <1>1
<1>6. /\ x * p >= y * p /\ z * q >= w * q
      /\ x * p > y * p \/ z * q > w * q
  BY <1>1, <1>2, MonotoneProduct
<1>7. x * p + z * q > y * p + w * q
  BY <1>5, <1>6
<1> QED
  BY <1>3, <1>4, <1>7

(* Two parts of hits within the first K + 1 outweigh one of any hit.        *)
LEMMA TwoPartsOutweighOne ==
  ASSUME NEW K \in Nat, NEW a \in Nat, NEW b \in Nat, NEW c \in Nat,
         K < a, K < b, K < c, a <= 2 * K + 1, b <= 2 * K + 1
  PROVE  (a + b) * c > a * b
<1>1. 2 * c > a /\ 2 * c > b /\ a > 0 /\ b > 0
  OBVIOUS
<1>2. (2 * c) * a > b * a /\ (2 * c) * b > a * b
  BY <1>1, MonotoneProduct, 2 * c \in Nat
<1>3. (2 * c) * a + (2 * c) * b = 2 * ((a + b) * c)
  BY Z3
<1>4. b * a = a * b
  BY Z3
<1>5. /\ (2 * c) * a \in Nat /\ (2 * c) * b \in Nat /\ a * b \in Nat
      /\ (a + b) * c \in Nat
  BY Z3
<1> QED
  BY <1>2, <1>3, <1>4, <1>5

------------------------------------------------------------------------------
(* A list of hits: at most l, of different memories that matched f.         *)
Leg(leg, f, l) ==
  /\ \E n \in 0 .. l : leg \in [1 .. n -> Hit]
  /\ \A j, k \in DOMAIN leg : leg[j].id = leg[k].id => j = k
  /\ \A k \in DOMAIN leg : Matches(leg[k].row, f)

LEMMA RankingsAreLegs ==
  ASSUME RowsTypeOK, NEW f \in Filter, NEW l \in Nat, NEW leg \in Rankings(f, l)
  PROVE  Leg(leg, f, l)
<1>1. PICK n \in 0 .. l : \E s \in [1 .. n -> InScope(f)] :
                             /\ \A j, k \in 1 .. n : s[j] = s[k] => j = k
                             /\ leg = [k \in 1 .. n |-> [id |-> s[k], row |-> rows[s[k]]]]
  BY DEF Rankings
<1>2. PICK s \in [1 .. n -> InScope(f)] :
             /\ \A j, k \in 1 .. n : s[j] = s[k] => j = k
             /\ leg = [k \in 1 .. n |-> [id |-> s[k], row |-> rows[s[k]]]]
  BY <1>1
<1>3. ASSUME NEW k \in 1 .. n
      PROVE  /\ s[k] \in Ids /\ rows[s[k]] \in Row /\ Matches(rows[s[k]], f)
             /\ leg[k] \in Hit /\ leg[k].id = s[k] /\ leg[k].row = rows[s[k]]
  <2>1. s[k] \in InScope(f)
    BY <1>2, <1>3
  <2>2. s[k] \in Ids /\ Matches(rows[s[k]], f) /\ rows[s[k]] \in Row
    BY <2>1 DEF InScope, Matches, RowsTypeOK
  <2>3. leg[k] = [id |-> s[k], row |-> rows[s[k]]]
    BY <1>2, <1>3
  <2> QED
    BY <2>2, <2>3 DEF Hit
<1>4. leg \in [1 .. n -> Hit] /\ DOMAIN leg = 1 .. n
  BY <1>2, <1>3
<1> QED
  BY <1>2, <1>3, <1>4 DEF Leg

LEMMA RankInLeg ==
  ASSUME NEW f, NEW l \in Nat, NEW leg, Leg(leg, f, l), NEW i \in IdsOf(leg)
  PROVE  /\ Rank(leg, i) \in DOMAIN leg /\ leg[Rank(leg, i)].id = i
         /\ Rank(leg, i) \in 1 .. l
<1>1. \E k \in DOMAIN leg : leg[k].id = i
  BY DEF IdsOf
<1>2. Rank(leg, i) \in DOMAIN leg /\ leg[Rank(leg, i)].id = i
  BY <1>1 DEF Rank
<1>3. PICK n \in 0 .. l : DOMAIN leg = 1 .. n
  BY DEF Leg
<1> QED
  BY <1>2, <1>3

(* A leg has at most l ids.                                                 *)
LEMMA LegIsShort ==
  ASSUME NEW f, NEW l \in Nat, NEW leg, Leg(leg, f, l)
  PROVE  IsFiniteSet(IdsOf(leg)) /\ Cardinality(IdsOf(leg)) <= l
<1>1. PICK n \in 0 .. l : leg \in [1 .. n -> Hit]
  BY DEF Leg
<1> DEFINE g == [k \in 1 .. n |-> leg[k].id]
<1>2. g \in Surjection(1 .. n, IdsOf(leg))
  BY <1>1 DEF Surjection, IdsOf
<1>3. IsFiniteSet(1 .. n) /\ Cardinality(1 .. n) = n
  BY FS_Interval
<1>4. /\ IsFiniteSet(IdsOf(leg))
      /\ Cardinality(IdsOf(leg)) <= Cardinality(1 .. n)
  BY <1>2, <1>3, FS_Surjection
<1> QED
  BY <1>3, <1>4, FS_CardinalityType

------------------------------------------------------------------------------
(* The answer: n hits, of different memories of the two legs, none of them   *)
(* behind one of a smaller score, and none of a greater score left out.     *)
Merged(v, t, l, ans, n) ==
  LET U == IdsOf(v) \cup IdsOf(t) IN
  /\ IsFiniteSet(U) /\ Cardinality(U) \in Nat
  /\ n = IF Cardinality(U) < l THEN Cardinality(U) ELSE l
  /\ ans \in [1 .. n -> Hit]
  /\ \A k \in 1 .. n : ans[k].id \in U
  /\ \A j, k \in 1 .. n : j < k =>
       /\ ans[j].id # ans[k].id
       /\ ~Above(Score(v, t, ans[k].id), Score(v, t, ans[j].id))
  /\ \A i \in U : (\A k \in 1 .. n : ans[k].id # i) =>
       \A k \in 1 .. n : ~Above(Score(v, t, i), Score(v, t, ans[k].id))

LEMMA FuseMerges ==
  ASSUME NEW f, NEW l \in Nat, NEW v, NEW t, Leg(v, f, l), Leg(t, f, l),
         NEW ans \in Fuse(v, t, l)
  PROVE  /\ \E n \in 0 .. l : Merged(v, t, l, ans, n)
         /\ \A k \in DOMAIN ans : Matches(ans[k].row, f)
<1> DEFINE U == IdsOf(v) \cup IdsOf(t)
           n == IF Cardinality(U) < l THEN Cardinality(U) ELSE l
<1>1. PICK s \in FusedIds(v, t, l) : ans = [k \in DOMAIN s |-> Copy(v, t, s[k])]
  BY DEF Fuse
<1>2. IsFiniteSet(U) /\ Cardinality(U) \in Nat
  BY LegIsShort, FS_Union, FS_CardinalityType
<1>3. n \in 0 .. l
  BY <1>2
<1>4. /\ s \in [1 .. n -> U]
      /\ \A j, k \in 1 .. n : j < k => s[j] # s[k] /\ ~Above(Score(v, t, s[k]), Score(v, t, s[j]))
      /\ \A i \in U \ {s[k] : k \in 1 .. n}, k \in 1 .. n :
           ~Above(Score(v, t, i), Score(v, t, s[k]))
  BY <1>1 DEF FusedIds
<1>5. ASSUME NEW i \in U
      PROVE  Copy(v, t, i) \in Hit /\ Copy(v, t, i).id = i /\ Matches(Copy(v, t, i).row, f)
  <2>1. CASE i \in IdsOf(v)
    BY <2>1, RankInLeg DEF Copy, Leg
  <2>2. CASE i \notin IdsOf(v) /\ i \in IdsOf(t)
    BY <2>2, RankInLeg DEF Copy, Leg
  <2> QED
    BY <2>1, <2>2
<1> HIDE DEF n, U
<1>6. ans = [k \in 1 .. n |-> Copy(v, t, s[k])]
  BY <1>1, <1>4
<1>7. ASSUME NEW k \in 1 .. n
      PROVE  /\ ans[k] \in Hit /\ ans[k].id = s[k] /\ s[k] \in U
             /\ Matches(ans[k].row, f)
  BY <1>4, <1>5, <1>6, <1>7
<1>8. Merged(v, t, l, ans, n)
  <2>1. ans \in [1 .. n -> Hit] /\ \A k \in 1 .. n : ans[k].id \in U
    BY <1>6, <1>7
  <2>2. \A j, k \in 1 .. n : j < k =>
          /\ ans[j].id # ans[k].id
          /\ ~Above(Score(v, t, ans[k].id), Score(v, t, ans[j].id))
    BY <1>4, <1>7
  <2>3. ASSUME NEW i \in U, \A k \in 1 .. n : ans[k].id # i, NEW k \in 1 .. n
        PROVE  ~Above(Score(v, t, i), Score(v, t, ans[k].id))
    <3>1. i \notin {s[m] : m \in 1 .. n}
      BY <1>7, <2>3
    <3> QED
      BY <3>1, <1>4, <1>7, <2>3
  <2> QED
    BY <2>1, <2>2, <2>3, <1>2 DEF Merged, U, n
<1>9. \A k \in DOMAIN ans : Matches(ans[k].row, f)
  BY <1>6, <1>7
<1> QED
  BY <1>3, <1>8, <1>9

------------------------------------------------------------------------------
(* Scores.                                                                  *)

LEMMA PartType ==
  ASSUME NEW f, NEW l \in Nat, NEW leg, Leg(leg, f, l), NEW i
  PROVE  /\ Part(leg, i)[1] \in Nat /\ Part(leg, i)[2] \in Nat /\ Part(leg, i)[2] > 0
         /\ i \in IdsOf(leg) =>
              /\ Rank(leg, i) \in 1 .. l
              /\ Part(leg, i)[1] = 1 /\ Part(leg, i)[2] = RrfK + Rank(leg, i)
         /\ i \notin IdsOf(leg) => Part(leg, i)[1] = 0 /\ Part(leg, i)[2] = 1
<1>1. CASE i \in IdsOf(leg)
  BY <1>1, RankInLeg, SearchAssumption DEF Part
<1>2. CASE i \notin IdsOf(leg)
  BY <1>2 DEF Part
<1> QED
  BY <1>1, <1>2

LEMMA PartOfHit ==
  ASSUME NEW f, NEW l \in Nat, NEW leg, Leg(leg, f, l), NEW i \in IdsOf(leg)
  PROVE  Part(leg, i)[1] = 1 /\ Part(leg, i)[2] = RrfK + Rank(leg, i)
BY DEF Part

(* What ranks higher in a leg gets the greater part of it.                  *)
LEMMA PartMonotone ==
  ASSUME NEW f, NEW l \in 0 .. MaxPageSize, NEW leg, Leg(leg, f, l), NEW i, NEW j,
         RankIn(leg, i) <= RankIn(leg, j)
  PROVE  /\ Part(leg, i)[1] * Part(leg, j)[2] >= Part(leg, j)[1] * Part(leg, i)[2]
         /\ j \in IdsOf(leg) => i \in IdsOf(leg)
         /\ j \in IdsOf(leg) /\ i # j =>
              Part(leg, i)[1] * Part(leg, j)[2] > Part(leg, j)[1] * Part(leg, i)[2]
<1>0. l \in Nat /\ MaxPageSize \in Nat /\ l <= MaxPageSize /\ RrfK \in Nat
  BY RowsAssumption, SearchAssumption
<1>1. CASE j \in IdsOf(leg)
  <2>1. Rank(leg, j) \in 1 .. l /\ RankIn(leg, j) = Rank(leg, j)
    BY <1>0, <1>1, RankInLeg DEF RankIn
  <2>2. i \in IdsOf(leg)
    BY <1>0, <2>1 DEF RankIn
  <2>3. Rank(leg, i) \in 1 .. l /\ Rank(leg, i) <= Rank(leg, j)
    BY <1>0, <2>1, <2>2, RankInLeg DEF RankIn
  <2>4. i # j => Rank(leg, i) < Rank(leg, j)
    BY <1>0, <1>1, <2>1, <2>2, <2>3, RankInLeg
  <2>5. /\ Part(leg, i)[1] = 1 /\ Part(leg, i)[2] = RrfK + Rank(leg, i)
        /\ Part(leg, j)[1] = 1 /\ Part(leg, j)[2] = RrfK + Rank(leg, j)
    <3>1. Part(leg, i)[1] = 1 /\ Part(leg, i)[2] = RrfK + Rank(leg, i)
      BY <1>0, <2>2, PartOfHit
    <3>2. Part(leg, j)[1] = 1 /\ Part(leg, j)[2] = RrfK + Rank(leg, j)
      BY <1>0, <1>1, PartOfHit
    <3> QED
      BY <3>1, <3>2
  <2> DEFINE x == Rank(leg, i)
             y == Rank(leg, j)
  <2>6. /\ Part(leg, i)[1] * Part(leg, j)[2] = RrfK + y
        /\ Part(leg, j)[1] * Part(leg, i)[2] = RrfK + x
    BY <1>0, <2>1, <2>3, <2>5
  <2>7. x \in Nat /\ y \in Nat /\ x <= y /\ (i # j => x < y)
    BY <1>0, <2>1, <2>3, <2>4
  <2> HIDE DEF x, y
  <2> QED
    BY <1>0, <2>2, <2>6, <2>7
<1>2. CASE j \notin IdsOf(leg)
  <2>1. /\ Part(leg, j)[1] = 0 /\ Part(leg, j)[2] = 1
        /\ Part(leg, i)[1] \in Nat /\ Part(leg, i)[2] \in Nat
    BY <1>0, <1>2, PartType
  <2> QED
    BY <1>2, <2>1
<1> QED
  BY <1>1, <1>2

LEMMA HigherScoresMore ==
  ASSUME NEW f, NEW l \in 0 .. MaxPageSize, NEW v, NEW t, Leg(v, f, l), Leg(t, f, l),
         NEW i, NEW j \in IdsOf(v) \cup IdsOf(t), i # j,
         RankIn(v, i) <= RankIn(v, j), RankIn(t, i) <= RankIn(t, j)
  PROVE  Above(Score(v, t, i), Score(v, t, j))
<1>0. l \in Nat
  BY RowsAssumption
<1> DEFINE an == Part(v, i)[1]  ad == Part(v, i)[2]  bn == Part(t, i)[1]  bd == Part(t, i)[2]
           cn == Part(v, j)[1]  cd == Part(v, j)[2]  dn == Part(t, j)[1]  dd == Part(t, j)[2]
<1>1. /\ an \in Nat /\ ad \in Nat /\ ad > 0 /\ bn \in Nat /\ bd \in Nat /\ bd > 0
      /\ cn \in Nat /\ cd \in Nat /\ cd > 0 /\ dn \in Nat /\ dd \in Nat /\ dd > 0
  BY <1>0, PartType
<1>2. /\ an * cd >= cn * ad /\ bn * dd >= dn * bd
      /\ an * cd > cn * ad \/ bn * dd > dn * bd
  BY PartMonotone
<1>3. /\ Score(v, t, i)[1] = an * bd + bn * ad /\ Score(v, t, i)[2] = ad * bd
      /\ Score(v, t, j)[1] = cn * dd + dn * cd /\ Score(v, t, j)[2] = cd * dd
  BY DEF Score
<1> HIDE DEF an, ad, bn, bd, cn, cd, dn, dd
<1>4. (an * bd + bn * ad) * (cd * dd) > (cn * dd + dn * cd) * (ad * bd)
  BY <1>1, <1>2, FractionSum
<1> QED
  BY <1>3, <1>4 DEF Above

LEMMA AgreedScoresMore ==
  ASSUME NEW f, NEW l \in Nat, l <= RrfK + 1, NEW v, NEW t, Leg(v, f, l), Leg(t, f, l),
         NEW i \in IdsOf(v) \cap IdsOf(t),
         NEW j \in IdsOf(v) \cup IdsOf(t), j \notin IdsOf(v) \cap IdsOf(t)
  PROVE  Above(Score(v, t, i), Score(v, t, j))
<1> DEFINE a == RrfK + Rank(v, i)
           b == RrfK + Rank(t, i)
           c == IF j \in IdsOf(v) THEN RrfK + Rank(v, j) ELSE RrfK + Rank(t, j)
<1>1. /\ Part(v, i)[1] = 1 /\ Part(v, i)[2] = a /\ Rank(v, i) \in 1 .. l
      /\ Part(t, i)[1] = 1 /\ Part(t, i)[2] = b /\ Rank(t, i) \in 1 .. l
  BY PartType
<1>2. \/ /\ Part(v, j)[1] = 1 /\ Part(v, j)[2] = c /\ c > RrfK /\ c \in Nat
         /\ Part(t, j)[1] = 0 /\ Part(t, j)[2] = 1
      \/ /\ Part(t, j)[1] = 1 /\ Part(t, j)[2] = c /\ c > RrfK /\ c \in Nat
         /\ Part(v, j)[1] = 0 /\ Part(v, j)[2] = 1
  <2>1. CASE j \in IdsOf(v)
    <3>1. j \notin IdsOf(t)
      BY <2>1
    <3>2. /\ Part(v, j)[1] = 1 /\ Part(v, j)[2] = c /\ Rank(v, j) \in 1 .. l
          /\ Part(t, j)[1] = 0 /\ Part(t, j)[2] = 1
      BY <2>1, <3>1, PartType
    <3>3. c = RrfK + Rank(v, j)
      BY <2>1
    <3> QED
      BY <3>2, <3>3, SearchAssumption
  <2>2. CASE j \notin IdsOf(v)
    <3>1. j \in IdsOf(t)
      BY <2>2
    <3>2. /\ Part(t, j)[1] = 1 /\ Part(t, j)[2] = c /\ Rank(t, j) \in 1 .. l
          /\ Part(v, j)[1] = 0 /\ Part(v, j)[2] = 1
      BY <2>2, <3>1, PartType
    <3>3. c = RrfK + Rank(t, j)
      BY <2>2
    <3> QED
      BY <3>2, <3>3, SearchAssumption
  <2> QED
    BY <2>1, <2>2
<1>3. /\ RrfK \in Nat /\ a \in Nat /\ b \in Nat
      /\ RrfK < a /\ RrfK < b /\ a <= 2 * RrfK + 1 /\ b <= 2 * RrfK + 1
  BY <1>1, SearchAssumption
<1> HIDE DEF a, b, c
<1>4. Score(v, t, i)[1] = a + b /\ Score(v, t, i)[2] = a * b
  <2>1. Score(v, t, i)[1] = 1 * b + 1 * a /\ Score(v, t, i)[2] = a * b
    BY <1>1 DEF Score
  <2> QED
    BY <2>1, <1>3
<1>5. c \in Nat /\ RrfK < c /\ Score(v, t, j)[1] = 1 /\ Score(v, t, j)[2] = c
  <2>1. CASE /\ Part(v, j)[1] = 1 /\ Part(v, j)[2] = c /\ c > RrfK /\ c \in Nat
             /\ Part(t, j)[1] = 0 /\ Part(t, j)[2] = 1
    <3>1. Score(v, t, j)[1] = 1 * 1 + 0 * c /\ Score(v, t, j)[2] = c * 1
      BY <2>1 DEF Score
    <3> QED
      BY <2>1, <3>1, <1>3
  <2>2. CASE /\ Part(t, j)[1] = 1 /\ Part(t, j)[2] = c /\ c > RrfK /\ c \in Nat
             /\ Part(v, j)[1] = 0 /\ Part(v, j)[2] = 1
    <3>1. Score(v, t, j)[1] = 0 * c + 1 * 1 /\ Score(v, t, j)[2] = 1 * c
      BY <2>2 DEF Score
    <3> QED
      BY <2>2, <3>1, <1>3
  <2> QED
    BY <1>2, <2>1, <2>2
<1>6. (a + b) * c > a * b /\ a * b \in Nat
  BY <1>3, <1>5, TwoPartsOutweighOne
<1>7. 1 * (a * b) = a * b
  BY <1>6
<1> QED
  BY <1>4, <1>5, <1>6, <1>7 DEF Above

------------------------------------------------------------------------------
(* What an answer promises.                                                 *)

LEMMA AnswerRespectsRanks ==
  ASSUME NEW f, top \in 0 .. MaxPageSize, Leg(vectorHits, f, top), Leg(textHits, f, top),
         NEW n \in 0 .. top, Merged(vectorHits, textHits, top, fused, n)
  PROVE  FusionRespectsRanks
<1> DEFINE U == IdsOf(vectorHits) \cup IdsOf(textHits)
<1>0. top \in Nat /\ n \in Nat
  BY RowsAssumption
<1>1. fused \in [1 .. n -> Hit] /\ DOMAIN fused = 1 .. n /\ Len(fused) = n
  <2>1. fused \in [1 .. n -> Hit]
    BY DEF Merged
  <2>2. fused \in Seq(Hit)
    BY <1>0, <2>1
  <2> QED
    BY <1>0, <2>1, <2>2
<1>2. \A j, k \in 1 .. n : j # k => fused[j].id # fused[k].id
  <2>1. \A j, k \in 1 .. n : j < k => fused[j].id # fused[k].id
    BY DEF Merged
  <2> QED
    BY <1>0, <2>1
<1>3. Len(fused) = Cardinality(IdsOf(fused))
  <2> DEFINE g == [k \in 1 .. n |-> fused[k].id]
  <2>1. g \in Bijection(1 .. n, IdsOf(fused))
    BY <1>1, <1>2 DEF Bijection, Injection, IsInjective, Surjection, IdsOf
  <2>2. IsFiniteSet(1 .. n) /\ Cardinality(1 .. n) = n
    BY <1>0, FS_Interval
  <2> QED
    BY <1>1, <2>1, <2>2, FS_Bijection DEF ExistsBijection
<1>4. Len(fused) = (IF Cardinality(U) < top THEN Cardinality(U) ELSE top)
  BY <1>1 DEF Merged
<1>5. ASSUME NEW i \in U, NEW j \in U,
             RankIn(vectorHits, i) <= RankIn(vectorHits, j),
             RankIn(textHits, i) <= RankIn(textHits, j), i # j, j \in IdsOf(fused)
      PROVE  i \in IdsOf(fused) /\ Place(i) < Place(j)
  <2>1. Above(Score(vectorHits, textHits, i), Score(vectorHits, textHits, j))
    BY <1>5, HigherScoresMore
  <2>2. Place(j) \in 1 .. n /\ fused[Place(j)].id = j
    BY <1>1, <1>5 DEF Place, IdsOf
  <2>3. i \in IdsOf(fused)
    <3>1. \E k \in 1 .. n : fused[k].id = i
      BY <2>1, <2>2 DEF Merged
    <3> QED
      BY <3>1, <1>1 DEF IdsOf
  <2>4. Place(i) \in 1 .. n /\ fused[Place(i)].id = i
    BY <1>1, <2>3 DEF Place, IdsOf
  <2>5. ~(Place(j) < Place(i))
    BY <2>1, <2>2, <2>4 DEF Merged
  <2>6. Place(i) # Place(j)
    BY <1>5, <2>2, <2>4
  <2> QED
    BY <1>0, <2>2, <2>3, <2>4, <2>5, <2>6
<1> HIDE DEF U
<1> QED
  BY <1>3, <1>4, <1>5 DEF FusionRespectsRanks, U

LEMMA AnswerPutsAgreedFirst ==
  ASSUME NEW f, top \in Nat, top <= RrfK + 1,
         Leg(vectorHits, f, top), Leg(textHits, f, top),
         NEW n \in 0 .. top, Merged(vectorHits, textHits, top, fused, n),
         NEW i \in IdsOf(vectorHits) \cap IdsOf(textHits)
  PROVE  /\ i \in IdsOf(fused)
         /\ \A k \in 1 .. Place(i) : fused[k].id \in IdsOf(vectorHits) \cap IdsOf(textHits)
<1> DEFINE U == IdsOf(vectorHits) \cup IdsOf(textHits)
           Both == IdsOf(vectorHits) \cap IdsOf(textHits)
<1>1. fused \in [1 .. n -> Hit] /\ DOMAIN fused = 1 .. n /\ n \in Nat
  BY DEF Merged
<1>2. \A k \in 1 .. n : fused[k].id \in U
  BY DEF Merged
<1>3. ASSUME NEW j \in U, ~Above(Score(vectorHits, textHits, i), Score(vectorHits, textHits, j))
      PROVE  j \in Both
  BY <1>3, AgreedScoresMore
<1>4. i \in IdsOf(fused)
  <2> SUFFICES ASSUME i \notin IdsOf(fused)
               PROVE  FALSE
    OBVIOUS
  <2>1. \A k \in 1 .. n : fused[k].id # i
    BY <1>1 DEF IdsOf
  <2>2. \A k \in 1 .. n : ~Above(Score(vectorHits, textHits, i), Score(vectorHits, textHits, fused[k].id))
    BY <2>1 DEF Merged
  <2>3. \A k \in 1 .. n : fused[k].id \in Both \ {i}
    BY <1>2, <1>3, <2>1, <2>2
  <2>4. /\ IsFiniteSet(IdsOf(vectorHits)) /\ Cardinality(IdsOf(vectorHits)) <= top
        /\ IsFiniteSet(U)
    BY LegIsShort DEF Merged
  <2>5. /\ IsFiniteSet(Both) /\ Cardinality(Both) <= Cardinality(IdsOf(vectorHits))
        /\ Cardinality(Both) <= Cardinality(U)
    BY <2>4, FS_Subset
  <2>6. /\ Cardinality(Both) \in Nat /\ Cardinality(U) \in Nat
        /\ Cardinality(IdsOf(vectorHits)) \in Nat
    BY <2>4, <2>5, FS_CardinalityType
  <2>7. Cardinality(Both) <= n
    <3>1. n = IF Cardinality(U) < top THEN Cardinality(U) ELSE top
      BY DEF Merged
    <3> QED
      BY <3>1, <2>4, <2>5, <2>6
  <2>8. IsFiniteSet(Both \ {i}) /\ Cardinality(Both \ {i}) = Cardinality(Both) - 1
    BY <2>5, FS_RemoveElement
  <2>9. IsFiniteSet(1 .. n) /\ Cardinality(1 .. n) = n
    BY <1>1, FS_Interval
  <2>10. Cardinality(Both \ {i}) < Cardinality(1 .. n)
    BY <1>1, <2>6, <2>7, <2>8, <2>9
  <2> DEFINE g == [k \in 1 .. n |-> fused[k].id]
  <2>11. g \in [1 .. n -> Both \ {i}]
    BY <2>3
  <2> HIDE DEF g, Both
  <2>12. PICK x, y \in 1 .. n : x # y /\ g[x] = g[y]
    BY <2>8, <2>9, <2>10, <2>11, FS_PigeonHole
  <2>13. fused[x].id = fused[y].id
    BY <2>12 DEF g
  <2>14. x < y \/ y < x
    BY <1>1, <2>12
  <2> QED
    BY <2>12, <2>13, <2>14 DEF Merged
<1>5. Place(i) \in 1 .. n /\ fused[Place(i)].id = i
  BY <1>1, <1>4 DEF Place, IdsOf
<1>6. ASSUME NEW k \in 1 .. Place(i)
      PROVE  fused[k].id \in Both
  <2>1. k \in 1 .. n
    BY <1>1, <1>5
  <2>2. CASE k = Place(i)
    BY <2>2, <1>5
  <2>3. CASE k < Place(i)
    <3>1. ~Above(Score(vectorHits, textHits, i), Score(vectorHits, textHits, fused[k].id))
      BY <2>1, <2>3, <1>5 DEF Merged
    <3> QED
      BY <3>1, <2>1, <1>2, <1>3
  <2> QED
    BY <1>1, <1>5, <2>1, <2>2, <2>3
<1> QED
  BY <1>4, <1>6

------------------------------------------------------------------------------
(* The invariant: each list is what a statement may have returned, and the   *)
(* answer is a merge of the two.                                            *)
HInv ==
  /\ RowsTypeOK
  /\ phase \in {"idle", "vector", "text", "answered"}
  /\ scope \in Filter /\ top \in 0 .. MaxPageSize
  /\ phase \in {"text", "answered"} => Leg(vectorHits, scope, top)
  /\ phase = "answered" => Leg(textHits, scope, top) /\ fused \in Fuse(vectorHits, textHits, top)

LEMMA WritesKeepType ==
  ASSUME RowsTypeOK, OtherWrite
  PROVE  RowsTypeOK'
<1>1. CASE \E i \in Ids : DeleteRow(i)
  BY <1>1 DEF RowsTypeOK, DeleteRow
<1>2. ASSUME NEW i \in Ids, NEW t \in Instants, NEW tag \in Tags, SaveRow(i, t, tag)
      PROVE  RowsTypeOK'
  <2> DEFINE r == [at |-> t, tag |-> tag]
  <2>1. r \in Row /\ r.at = t
    BY DEF Row
  <2>2. rows' = [rows EXCEPT ![i] = r] /\ born' = [born EXCEPT ![i] = t]
    BY <1>2 DEF SaveRow
  <2> HIDE DEF r
  <2> QED
    BY <2>1, <2>2 DEF RowsTypeOK
<1> QED
  BY <1>1, <1>2 DEF OtherWrite

LEMMA SearchInvariance == SearchSpec => []HInv
<1>1. ASSUME RowsInit, SearchInit
      PROVE  HInv
  BY <1>1, RowsAssumption DEF RowsInit, SearchInit, HInv, RowsTypeOK, Filter
<1>2. ASSUME HInv, [SearchStep \/ (OtherWrite /\ UNCHANGED searchvars)]_<<tablevars, searchvars>>
      PROVE  HInv'
  <2>0. UNCHANGED tablevars => (RowsTypeOK' <=> RowsTypeOK)
    BY DEF tablevars, RowsTypeOK
  <2>1. ASSUME NEW l \in 0 .. MaxPageSize, NEW f \in Filter, Search(l, f)
        PROVE  HInv'
    BY <1>2, <2>0, <2>1 DEF Search, HInv
  <2>2. CASE VectorLeg
    <3>1. Leg(vectorHits', scope, top)
      BY <1>2, <2>2, RankingsAreLegs, RowsAssumption DEF VectorLeg, HInv
    <3> QED
      BY <1>2, <2>0, <2>2, <3>1 DEF VectorLeg, HInv
  <2>3. CASE TextLeg
    <3>1. Leg(textHits', scope, top)
      BY <1>2, <2>3, RankingsAreLegs, RowsAssumption DEF TextLeg, HInv
    <3> QED
      BY <1>2, <2>0, <2>3, <3>1 DEF TextLeg, HInv
  <2>4. CASE Finish
    BY <1>2, <2>0, <2>4, RowsAssumption DEF Finish, HInv, Filter
  <2>5. CASE OtherWrite /\ UNCHANGED searchvars
    BY <1>2, <2>5, WritesKeepType DEF HInv, searchvars
  <2>6. CASE UNCHANGED <<tablevars, searchvars>>
    BY <1>2, <2>0, <2>6 DEF HInv, searchvars
  <2> QED
    BY <1>2, <2>1, <2>2, <2>3, <2>4, <2>5, <2>6 DEF SearchStep
<1> QED
  BY <1>1, <1>2, PTL DEF SearchSpec

LEMMA AnswerMerged ==
  ASSUME HInv, phase = "answered"
  PROVE  /\ \E n \in 0 .. top : Merged(vectorHits, textHits, top, fused, n)
         /\ HitsMatchFilter
<1>1. top \in Nat
  BY RowsAssumption DEF HInv
<1> QED
  BY <1>1, FuseMerges DEF HInv, HitsMatchFilter

(* fuse: an answer holds each memory once, is as long as the limit and the   *)
(* hits allow, and has nothing behind what neither list ranked higher,      *)
(* also when the memory was written between the two statements.             *)
THEOREM FusionKeepsRanks == SearchSpec => []FusionRespectsRanks
<1>1. HInv => FusionRespectsRanks
  <2>1. CASE phase = "answered"
    BY <2>1, AnswerMerged, AnswerRespectsRanks DEF HInv
  <2>2. CASE phase # "answered"
    BY <2>2 DEF FusionRespectsRanks, Found
  <2> QED
    BY <2>1, <2>2
<1> QED
  BY <1>1, SearchInvariance, PTL

(* fuse with a limit of at most RRF_K + 1: what both searches found comes    *)
(* before what one of them found, and none of it is cut.                    *)
THEOREM AgreedComeFirst == SearchSpec => []AgreedFirst
<1>1. HInv => AgreedFirst
  <2> SUFFICES ASSUME HInv, phase = "answered", top <= RrfK + 1
               PROVE  AgreedFirst
    BY DEF AgreedFirst, Found
  <2>1. top \in Nat
    BY RowsAssumption DEF HInv
  <2> QED
    BY <2>1, AnswerMerged, AnswerPutsAgreedFirst DEF HInv, AgreedFirst
<1> QED
  BY <1>1, SearchInvariance, PTL

(* search_memory_filtered: every hit matched the filter when it was read.   *)
THEOREM HitsMatch == SearchSpec => []HitsMatchFilter
<1>1. HInv => HitsMatchFilter
  BY AnswerMerged DEF HitsMatchFilter, Found
<1> QED
  BY <1>1, SearchInvariance, PTL
=============================================================================
