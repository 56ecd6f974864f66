---------------------------- MODULE DashboardPager ----------------------------
(***************************************************************************)
(* The memory list of the dashboard and the script that pages it: a stack   *)
(* of fetch-cursors, the list in the document, and the loads htmx has under *)
(* way.  htmx runs one load of the body at a time and keeps the last one    *)
(* asked for meanwhile; the target of a load is looked up when it is asked  *)
(* for, so it may have left the document when the answer arrives.           *)
(***************************************************************************)
EXTENDS SharedRows, Sequences

CONSTANTS
  ListPageSize, \* LIST_PAGE_SIZE, 10 in the code
  MaxHistory    \* bound: a longer stack is not explored

VARIABLES
  history,      \* the stack of the script, current page last
  list,         \* the document's list: the cursor it was fetched with, and its
                \*   data-next-cursor
  loads,        \* the load under way and the one that waits for it; `late` when
                \*   the list it was to replace is already replaced
  prevOn,       \* the Prev button is enabled
  calm          \* history variable: since the page was opened, no button was
                \*   clicked while a load was under way and no load failed

pagervars == <<history, list, loads, prevOn, calm>>

Fetch == Cursor \cup {NoCursor}

PagerInit ==
  /\ history = <<NoCursor>>
  /\ list = [from |-> NoCursor, next |-> NoCursor]
  /\ loads = <<>>
  /\ prevOn = FALSE
  /\ calm = FALSE

(* list_memories_paged and list_fragment: the list for cursor c.            *)
Fragment(c) ==
  LET S == Below(NoFilter, c) IN
  {[from |-> c, next |-> n] : n \in
     UNION {IF W = S THEN {NoCursor}
            ELSE {[at |-> rows[i].at, id |-> i] : i \in LastOf(W)} :
            W \in Pages(S, ListPageSize)}}

(* get_home: the whole page, in the state its script starts in.             *)
OpenHome ==
  /\ list' \in Fragment(NoCursor)
  /\ history' = <<NoCursor>>
  /\ loads' = <<>>
  /\ prevOn' = FALSE
  /\ calm' = TRUE
  /\ UNCHANGED tablevars

(* load: htmx.ajax.                                                         *)
Load(c) ==
  /\ loads' = LET new == [from |-> c, late |-> FALSE] IN
              IF loads = <<>> THEN <<new>> ELSE <<Head(loads), new>>
  /\ calm' = (calm /\ loads = <<>>)

ClickNext ==
  /\ list.next # NoCursor
  /\ Len(history) < MaxHistory
  /\ history' = Append(history, list.next)
  /\ Load(list.next)
  /\ UNCHANGED <<tablevars, list, prevOn>>

ClickPrev_Replay ==
  /\ prevOn /\ Len(history) >= 2
  /\ history' = SubSeq(history, 1, Len(history) - 1)
  /\ Load(history[Len(history)])
  /\ UNCHANGED <<tablevars, list, prevOn>>

ClickPrev ==
  /\ prevOn /\ Len(history) >= 2
  /\ history' = SubSeq(history, 1, Len(history) - 1)
  /\ Load(history'[Len(history')])
  /\ UNCHANGED <<tablevars, list, prevOn>>

(* update.                                                                  *)
Update == prevOn' = (Len(history) >= 2)

(* get_home_list answers, htmx swaps the list and the script looks again.   *)
(* A late load has nothing to replace: its swap fails.                      *)
Arrive ==
  /\ loads # <<>>
  /\ LET load == Head(loads) IN
     IF load.late
     THEN loads' = Tail(loads) /\ UNCHANGED <<list, prevOn>>
     ELSE /\ list' \in Fragment(load.from)
          /\ loads' = [k \in DOMAIN Tail(loads) |-> [Tail(loads)[k] EXCEPT !.late = TRUE]]
          /\ Update
  /\ UNCHANGED <<tablevars, history, calm>>

(* The request fails; htmx leaves the list and the script hears nothing.    *)
LoadFails ==
  /\ loads # <<>>
  /\ loads' = Tail(loads)
  /\ calm' = FALSE
  /\ UNCHANGED <<tablevars, history, list, prevOn>>

(* Another swap of the page (a memory's details, by a click on its row) runs *)
(* the same listener.                                                       *)
ShowDetail ==
  /\ Update
  /\ UNCHANGED <<tablevars, history, list, loads, calm>>

PagerStep == OpenHome \/ ClickNext \/ ClickPrev \/ Arrive \/ LoadFails \/ ShowDetail

PagerSpec ==
  RowsInit /\ PagerInit /\ [][PagerStep \/ (OtherWrite /\ UNCHANGED pagervars)]_<<tablevars, pagervars>>

------------------------------------------------------------------------------
(* Once the loads are done, the list is the page on top of the stack, Prev is *)
(* on exactly when there is a page to go back to, and each page of the stack  *)
(* is of older memories than the one under it, so that Prev retraces the way, *)
(* whatever was written meanwhile; unless a click overtook a load, or one     *)
(* failed.                                                                    *)
PagerInStep ==
  calm /\ loads = <<>> =>
    /\ list.from = history[Len(history)]
    /\ prevOn = (Len(history) >= 2)
    /\ \A j, k \in DOMAIN history :
         j < k /\ j > 1 =>
           Older(history[k].at, history[k].id, history[j].at, history[j].id)
    /\ \A k \in DOMAIN history : (history[k] = NoCursor) = (k = 1)
=============================================================================
