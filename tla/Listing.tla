------------------------------- MODULE Listing -------------------------------
(***************************************************************************)
(* A client that lists all memories page by page (MemoryService::           *)
(* list_memories_paged, GET /api/memories/list, `memayu list --cursor`),    *)
(* while other processes write.  A page is two statements, and between two  *)
(* pages the server keeps nothing: the cursor carries the position.  Other  *)
(* readers do not matter to this one, so there is only one.                 *)
(***************************************************************************)
EXTENDS SharedRows

CONSTANTS
  AskedLimits,  \* the limits and the filters clients ask for
  AskedFilters

ASSUME ListingAssumption == AskedLimits \subseteq Nat /\ AskedFilters \subseteq Filter

VARIABLES
  st,           \* where the walk is
  limit,        \* of the page under way
  filter,       \* of the whole walk
  cursor,       \* next_cursor of the last page, or NoCursor before the first
  total,        \* the count that goes with it
  page,         \* ids on the last page, until the next is asked for
  (* History variables.                                                     *)
  seen,         \* ids on the pages before it
  stayed,       \* ids in scope without a break since the first page was read
  quiet         \* no row was written since the first count

walk == <<st, limit, filter, cursor, total, page>>
listvars == <<walk, seen, stayed, quiet>>
vars == <<tablevars, listvars>>

ListTypeOK ==
  /\ RowsTypeOK
  /\ st \in {"idle", "ready", "count", "select", "end", "panicked"}
  /\ limit \in Nat /\ total \in Nat
  /\ filter \in Filter
  /\ cursor \in Cursor \cup {NoCursor}
  /\ page \in SUBSET Ids /\ seen \in SUBSET Ids /\ stayed \in SUBSET Ids
  /\ quiet \in BOOLEAN

ListInit ==
  /\ st = "idle" /\ limit = 0 /\ filter = NoFilter /\ cursor = NoCursor /\ total = 0
  /\ page = {} /\ seen = {} /\ stayed = {}
  /\ quiet = FALSE

Init == RowsInit /\ ListInit

(* A client begins to list what matches f.                                  *)
Start(f) ==
  /\ st \in {"idle", "end"}
  /\ st' = "ready"
  /\ filter' = f
  /\ cursor' = NoCursor
  /\ page' = {} /\ seen' = {} /\ stayed' = {}
  /\ quiet' = FALSE
  /\ total' = 0
  /\ UNCHANGED <<tablevars, limit>>

(* It asks for a page, the first or the one after its cursor; validate_limit *)
(* refuses a limit above MAX_PAGE_SIZE before anything is read.             *)
Ask(l) ==
  /\ st = "ready"
  /\ l <= MaxPageSize
  /\ st' = "count"
  /\ limit' = l
  /\ page' = {} /\ seen' = seen \cup page
  /\ total' = 0
  /\ UNCHANGED <<tablevars, filter, cursor, stayed, quiet>>

CountTotal_OfWindow ==
  /\ st = "count"
  /\ st' = "select"
  /\ total' = Cardinality(Below(filter, cursor))
  /\ quiet' = IF cursor = NoCursor THEN TRUE ELSE quiet
  /\ UNCHANGED <<tablevars, limit, filter, cursor, page, seen, stayed>>

(* count_total.                                                             *)
CountTotal ==
  /\ st = "count"
  /\ st' = "select"
  /\ total' = Cardinality(InScope(filter))
  /\ quiet' = IF cursor = NoCursor THEN TRUE ELSE quiet
  /\ UNCHANGED <<tablevars, limit, filter, cursor, page, seen, stayed>>

NextCursors(S, W) == {[at |-> rows[i].at, id |-> i] : i \in LastOf(W)}

(* The SELECT, the cut and the next cursor.  With a limit of zero and a row *)
(* to return, the index of the last visible row underflows.                 *)
SelectPage ==
  /\ st = "select"
  /\ stayed' = IF cursor = NoCursor THEN InScope(filter) ELSE stayed
  /\ LET S == Below(filter, cursor) IN
     \E W \in Pages(S, limit) :
       \/ /\ W = S
          /\ st' = "end"
          /\ page' = W
          /\ limit' = 0
          /\ UNCHANGED cursor
       \/ /\ W # S /\ limit > 0
          /\ st' = "ready"
          /\ page' = W
          /\ limit' = 0
          /\ cursor' \in NextCursors(S, W)
       \/ /\ W # S /\ limit = 0
          /\ st' = "panicked"
          /\ UNCHANGED <<page, cursor, limit>>
  /\ UNCHANGED <<tablevars, filter, total, seen, quiet>>

(* A statement fails: the client may ask for the page again.                *)
Fail ==
  /\ st \in {"count", "select"}
  /\ st' = "ready"
  /\ limit' = 0 /\ total' = 0
  /\ UNCHANGED <<tablevars, filter, cursor, page, seen, stayed, quiet>>

(* A row is written by anyone.                                              *)
Write ==
  /\ OtherWrite
  /\ stayed' = stayed \cap {i \in Ids : Matches(rows'[i], filter)}
  /\ quiet' = FALSE
  /\ UNCHANGED <<walk, seen>>

Read ==
  \/ \E f \in AskedFilters : Start(f)
  \/ \E l \in AskedLimits : Ask(l)
  \/ CountTotal
  \/ SelectPage
  \/ Fail

Next == Read \/ Write

Spec == Init /\ [][Next]_vars

(* A client that goes on asking for pages, and tries again when a statement *)
(* fails; not every try of it fails.                                        *)
Follow == \E l \in AskedLimits : Ask(l)

FairSpec == Spec /\ WF_vars(Follow) /\ SF_vars(CountTotal) /\ SF_vars(SelectPage)

------------------------------------------------------------------------------
(* Properties.                                                              *)

(* Whatever is saved and deleted between the pages, a memory that was there  *)
(* and matched the filter from the first page to the last has been on one of *)
(* them when the last page (next_cursor is None) arrives.                   *)
NoneMissed == st = "end" => stayed \subseteq seen \cup page

(* No memory is on two pages of a walk, not even one that was deleted and   *)
(* restored by a late update, or whose metadata changed back and forth.     *)
NoneRepeated == page \cap seen = {}

(* While nobody writes, the total that comes with each page is the number   *)
(* of memories on all pages.                                                *)
TotalAddsUp == st = "end" /\ quiet => total = Cardinality(seen \cup page)

(* A client that follows the cursors gets to the last page, also while      *)
(* others write without end: what they add is older than its cursor only so *)
(* often.  Only a limit of zero ends it otherwise.                          *)
WalkEnds == st = "ready" ~> st \in {"end", "panicked"}
=============================================================================
