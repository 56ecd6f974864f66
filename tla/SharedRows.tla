------------------------------ MODULE SharedRows -----------------------------
(***************************************************************************)
(* The rows of `memories` as the frontends that read them see them: one     *)
(* account's rows, while other processes save and delete.  Of a row only    *)
(* what the readers order and filter by is left: when it was created, and   *)
(* its metadata.                                                            *)
(***************************************************************************)
EXTENDS Naturals, FiniteSets

CONSTANTS
  Ids,          \* memory ids; ids compare like the numbers that stand for them
  Instants,     \* values of created_at
  Stamp,        \* what the store compares of an instant: on Postgres the
                \*   instant, on libsql its julianday(), which is coarser
  Tags,         \* metadata a filter can tell apart
  MaxPageSize,  \* MAX_PAGE_SIZE, 100 in the code
  NoRow, NoFilter, NoCursor

Row == [at : Instants, tag : Tags]
Filter == Tags \cup {NoFilter}
Cursor == [at : Instants, id : Ids]

ASSUME RowsAssumption ==
  /\ Ids \subseteq Nat
  /\ Stamp \in [Instants -> Nat]
  /\ MaxPageSize \in Nat
  /\ NoRow \notin Row \cup Instants /\ NoFilter \notin Tags /\ NoCursor \notin Cursor

VARIABLES
  rows,         \* id -> row or NoRow
  born          \* id -> the created_at it was first saved with, or NoRow

tablevars == <<rows, born>>

RowsTypeOK ==
  /\ rows \in [Ids -> Row \cup {NoRow}]
  /\ born \in [Ids -> Instants \cup {NoRow}]
  /\ \A i \in Ids : rows[i] # NoRow => born[i] = rows[i].at

RowsInit ==
  /\ rows = [i \in Ids |-> NoRow]
  /\ born = [i \in Ids |-> NoRow]

(* created_at changes with the rest of the row.                             *)
SaveRow_Redated(i, t, tag) ==
  /\ rows' = [rows EXCEPT ![i] = [at |-> t, tag |-> tag]]
  /\ born' = [born EXCEPT ![i] = t]

(* save_memory: a new memory is dated by the process that makes it, whose   *)
(* clock need not agree with that of another.  An upsert leaves created_at  *)
(* as it is, and one that waited until the row was deleted restores it with *)
(* the created_at it read.                                                  *)
SaveRow(i, t, tag) ==
  /\ born[i] \in {NoRow, t}
  /\ rows' = [rows EXCEPT ![i] = [at |-> t, tag |-> tag]]
  /\ born' = [born EXCEPT ![i] = t]

DeleteRow(i) ==
  /\ rows[i] # NoRow
  /\ rows' = [rows EXCEPT ![i] = NoRow]
  /\ UNCHANGED born

OtherWrite ==
  \E i \in Ids :
    \/ \E t \in Instants, tag \in Tags : SaveRow(i, t, tag)
    \/ DeleteRow(i)

------------------------------------------------------------------------------
(* What the statements of list_memories read.                               *)

Matches(r, f) == r # NoRow /\ (f = NoFilter \/ r.tag = f)

(* What is counted: user and filter, not the cursor.                        *)
InScope(f) == {i \in Ids : Matches(rows[i], f)}

(* ORDER BY created_at DESC, id DESC, and the comparison with the cursor.   *)
Older(a, i, b, j) == Stamp[a] < Stamp[b] \/ (Stamp[a] = Stamp[b] /\ i < j)

OlderRow(i, j) == Older(rows[i].at, i, rows[j].at, j)

Below_ByDate(f, c) ==
  {i \in InScope(f) : c # NoCursor => Stamp[rows[i].at] < Stamp[c.at]}
Below_OrSame(f, c) ==
  {i \in InScope(f) :
     c # NoCursor => i = c.id \/ Older(rows[i].at, i, c.at, c.id)}

(* The rows a page with cursor c is cut from.                               *)
Below(f, c) ==
  {i \in InScope(f) : c # NoCursor => Older(rows[i].at, i, c.at, c.id)}

(* The l newest rows of S, or all of them: the one page there is.  (The code *)
(* fetches a row more to see whether S has more.)                           *)
Pages(S, l) ==
  {W \in SUBSET S :
     /\ Cardinality(W) <= l
     /\ W # S => Cardinality(W) = l /\ \A i \in W, j \in S \ W : OlderRow(j, i)}

(* The last visible row of page W: the next cursor is made of it.           *)
LastOf(W) == {i \in W : \A j \in W \ {i} : OlderRow(i, j)}
=============================================================================
