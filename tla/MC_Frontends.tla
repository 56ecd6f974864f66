----------------------------- MODULE MC_Frontends -----------------------------
(***************************************************************************)
(* The frontends over one table.  They share nothing but its rows, and a    *)
(* frontend cannot tell the writes of another from those of any process, so *)
(* a behaviour has one of them, `viewer`, and whoever else writes.          *)
(***************************************************************************)
EXTENDS Listing, HybridSearch, DashboardPager, TerminalApp, McpServer

VARIABLE viewer

(* julianday() as a double is coarser than the text of an instant.          *)
HalfTicks == [t \in Instants |-> t \div 2]

SmallBatches == {<<>>, <<"text", "text">>, <<"text", "blank", "text">>}

frontvars == <<tablevars, listvars, searchvars, pagervars, appvars, mcpvars, viewer>>

(* `cloud` matters only to a list of no rows, `raw` only to a batch: three of *)
(* the four backends show what both do.                                     *)
FrontInit ==
  /\ RowsInit /\ ListInit /\ SearchInit /\ PagerInit /\ AppInit /\ McpInit
  /\ viewer \in {"list", "search", "pager", "terminal", "mcp"}
  /\ cloud \/ raw => viewer = "mcp"
  /\ ~(cloud /\ raw)

Lister == viewer = "list" /\ UNCHANGED <<searchvars, pagervars, appvars, mcpvars, viewer>>
Server == viewer = "mcp" /\ UNCHANGED <<tablevars, listvars, searchvars, pagervars, appvars, viewer>>

(* A list that is never resumed, or a search, needs no dates, and one that is *)
(* not filtered no metadata.  A search for one hit merges nothing, and   *)
(* what is written after an answer changes nothing of it.                   *)
Undated == \A i \in Ids : born[i] \in {NoRow, 1}
Untagged == \A i \in Ids : rows[i] # NoRow => rows[i].tag = "a"

ListNext == Lister /\ Next
SearchNext ==
  /\ viewer = "search" /\ UNCHANGED <<listvars, pagervars, appvars, mcpvars, viewer>>
  /\ SearchStep \/ (phase # "answered" /\ OtherWrite /\ UNCHANGED searchvars)
  /\ Undated' /\ top' # 1
PagerNext ==
  /\ viewer = "pager" /\ UNCHANGED <<listvars, searchvars, appvars, mcpvars, viewer>>
  /\ PagerStep \/ (OtherWrite /\ UNCHANGED pagervars)
  /\ Untagged'
AppNext ==
  /\ viewer = "terminal" /\ UNCHANGED <<listvars, searchvars, pagervars, mcpvars, viewer>>
  /\ AppStep \/ (OtherWrite /\ UNCHANGED appvars)
  /\ Untagged' /\ Undated'
ServerNext == Server /\ McpNext

FrontSpec ==
  /\ FrontInit /\ [][ListNext \/ SearchNext \/ PagerNext \/ AppNext \/ ServerNext]_frontvars
  /\ WF_frontvars(Lister /\ Follow)
  /\ SF_frontvars(Lister /\ CountTotal)
  /\ SF_frontvars(Lister /\ SelectPage)
  /\ WF_frontvars(Server /\ McpStep)
=============================================================================
