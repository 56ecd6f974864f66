-------------------------- MODULE Frontends_proofs ---------------------------
(***************************************************************************)
(* The clients of the memories: the pager of the dashboard, the list of the *)
(* terminal and the MCP server, for every page size, any number of rows,    *)
(* loads, lines and batches, whatever other clients write in between.       *)
(***************************************************************************)
EXTENDS Reading_proofs, DashboardPager, TerminalApp, McpServer, SequenceTheorems

------------------------------------------------------------------------------
(* The dashboard's pager.                                                   *)

LoadOf == [from : Fetch, late : BOOLEAN]

PagerTyped ==
  /\ RowsTypeOK
  /\ history \in Seq(Fetch) /\ Len(history) >= 1
  /\ list \in [from : Fetch, next : Fetch]
  /\ loads \in Seq(LoadOf)
  /\ calm \in BOOLEAN

Top == history[Len(history)]

(* Only the bottom of the stack is the first page, and what follows the list *)
(* is older than where the list begins.                                     *)
StackInv ==
  /\ \A k \in DOMAIN history : (history[k] = NoCursor) = (k = 1)
  /\ list.from # NoCursor /\ list.next # NoCursor =>
       Older(list.next.at, list.next.id, list.from.at, list.from.id)

(* In a calm session the one load there may be is that of the page on top.   *)
CalmInv ==
  calm =>
    /\ \A j, k \in DOMAIN history :
         j < k /\ j > 1 =>
           Older(history[k].at, history[k].id, history[j].at, history[j].id)
    /\ IF loads = <<>> THEN list.from = Top /\ prevOn = (Len(history) >= 2)
       ELSE Len(loads) = 1 /\ loads[1] = [from |-> Top, late |-> FALSE]

PagerInv == PagerTyped /\ StackInv /\ CalmInv

(* What an answer of the server is.                                         *)
LEMMA FragmentIs ==
  ASSUME RowsTypeOK, NEW c \in Fetch, NEW x \in Fragment(c)
  PROVE  /\ x \in [from : Fetch, next : Fetch] /\ x.from = c
         /\ c # NoCursor /\ x.next # NoCursor => Older(x.next.at, x.next.id, c.at, c.id)
<1> DEFINE S == Below(NoFilter, c)
<1>1. PICK W \in Pages(S, ListPageSize) :
        \E n \in IF W = S THEN {NoCursor} ELSE {[at |-> rows[i].at, id |-> i] : i \in LastOf(W)} :
          x = [from |-> c, next |-> n]
  BY DEF Fragment
<1>2. PICK n : /\ n \in IF W = S THEN {NoCursor} ELSE {[at |-> rows[i].at, id |-> i] : i \in LastOf(W)}
               /\ x = [from |-> c, next |-> n]
  BY <1>1
<1>3. CASE n = NoCursor
  BY <1>2, <1>3 DEF Fetch
<1>4. CASE n # NoCursor
  <2>1. PICK i \in LastOf(W) : n = [at |-> rows[i].at, id |-> i]
    BY <1>2, <1>4
  <2>2. i \in S
    BY <2>1 DEF LastOf, Pages
  <2>3. i \in Ids /\ rows[i] # NoRow /\ (c # NoCursor => Older(rows[i].at, i, c.at, c.id))
    BY <2>2 DEF Below, InScope, Matches
  <2>4. rows[i] \in Row
    BY <2>3 DEF RowsTypeOK
  <2>5. rows[i].at \in Instants
    BY <2>4 DEF Row
  <2>6. n \in Cursor /\ n.at = rows[i].at /\ n.id = i
    BY <2>1, <2>3, <2>5 DEF Cursor
  <2>7. x.from = c /\ x.next = n
    BY <1>2
  <2> HIDE DEF S
  <2> QED BY <1>2, <2>3, <2>6, <2>7 DEF Fetch
<1> QED BY <1>3, <1>4

LEMMA OpenHomePager ==
  ASSUME PagerInv, OpenHome
  PROVE  PagerInv'
<1>1. /\ list' \in Fragment(NoCursor) /\ history' = <<NoCursor>> /\ loads' = <<>>
      /\ prevOn' = FALSE /\ calm' = TRUE /\ UNCHANGED tablevars /\ RowsTypeOK
  BY DEF OpenHome, PagerInv, PagerTyped
<1>2. NoCursor \in Fetch
  BY DEF Fetch
<1>3. list' \in [from : Fetch, next : Fetch] /\ list'.from = NoCursor
  BY <1>1, <1>2, FragmentIs
<1>4. history' \in Seq(Fetch) /\ Len(history') = 1 /\ DOMAIN history' = {1} /\ history'[1] = NoCursor
  BY <1>1, <1>2
<1>5. PagerTyped'
  BY <1>1, <1>3, <1>4 DEF PagerTyped, RowsTypeOK, tablevars
<1>6. StackInv'
  BY <1>3, <1>4 DEF StackInv
<1>7. CalmInv'
  <2>1. (prevOn = (Len(history) >= 2))'
    <3>1. prevOn' = FALSE
      BY <1>1
    <3>2. (Len(history') >= 2) = FALSE
      BY <1>4
    <3> QED BY <3>1, <3>2
  <2>2. (list.from = Top)' /\ loads' = <<>>
    BY <1>1, <1>3, <1>4 DEF Top
  <2>3. \A j, k \in DOMAIN history' : ~(j < k)
    BY <1>4
  <2> QED BY <2>1, <2>2, <2>3 DEF CalmInv
<1> QED BY <1>5, <1>6, <1>7 DEF PagerInv

(* A load that is asked for.                                                *)
LEMMA LoadTyped ==
  ASSUME PagerTyped, NEW c \in Fetch, Load(c)
  PROVE  /\ loads' \in Seq(LoadOf) /\ calm' \in BOOLEAN
         /\ calm' => calm /\ loads = <<>> /\ loads' # <<>>
                     /\ Len(loads') = 1 /\ loads'[1] = [from |-> c, late |-> FALSE]
<1> DEFINE new == [from |-> c, late |-> FALSE]
<1>1. new \in LoadOf
  BY DEF LoadOf
<1>2. /\ loads' = IF loads = <<>> THEN <<new>> ELSE <<Head(loads), new>>
      /\ calm' = (calm /\ loads = <<>>)
  BY DEF Load
<1> HIDE DEF new
<1>3. loads # <<>> => Head(loads) \in LoadOf
  BY HeadTailProperties DEF PagerTyped
<1>4. calm' \in BOOLEAN /\ (calm' => calm /\ loads = <<>>)
  BY <1>2 DEF PagerTyped
<1>5. loads' \in Seq(LoadOf) /\ (loads = <<>> => loads' # <<>> /\ Len(loads') = 1 /\ loads'[1] = new)
  BY <1>1, <1>2, <1>3
<1> QED BY <1>4, <1>5 DEF new

LEMMA ClickNextPager ==
  ASSUME PagerInv, ClickNext
  PROVE  PagerInv'
<1> DEFINE m == Len(history) + 1
<1>1. /\ list.next # NoCursor /\ history' = Append(history, list.next) /\ Load(list.next)
      /\ UNCHANGED <<tablevars, list, prevOn>>
      /\ PagerTyped /\ StackInv /\ CalmInv
  BY DEF ClickNext, PagerInv
<1>2. list.next \in Cursor /\ list.next \in Fetch /\ list.from \in Fetch
  BY <1>1 DEF PagerTyped, Fetch
<1>3. /\ history' \in Seq(Fetch) /\ Len(history') = m /\ m \in Nat /\ m > 1
      /\ DOMAIN history' = 1 .. m /\ DOMAIN history = 1 .. m - 1 /\ Len(history) = m - 1
      /\ \A k \in 1 .. m - 1 : history'[k] = history[k]
      /\ history'[m] = list.next
  BY <1>1, <1>2, AppendProperties, LenProperties DEF PagerTyped
<1> HIDE DEF m
<1>4. /\ loads' \in Seq(LoadOf) /\ calm' \in BOOLEAN
      /\ calm' => calm /\ loads = <<>> /\ loads' # <<>>
                  /\ Len(loads') = 1 /\ loads'[1] = [from |-> list.next, late |-> FALSE]
  BY <1>1, <1>2, LoadTyped
<1>5. PagerTyped'
  BY <1>1, <1>3, <1>4 DEF PagerTyped, RowsTypeOK, tablevars
<1>6. StackInv'
  <2>1. ASSUME NEW k \in 1 .. m PROVE (history'[k] = NoCursor) = (k = 1)
    <3>1. CASE k = m
      BY <1>1, <1>3, <3>1
    <3>2. CASE k # m
      BY <1>1, <1>3, <3>2 DEF StackInv
    <3> QED BY <3>1, <3>2
  <2> QED BY <1>1, <1>3, <2>1 DEF StackInv
<1>7. ASSUME calm' PROVE CalmInv'
  <2>1. list.from = history[m - 1] /\ calm /\ loads = <<>>
    BY <1>1, <1>3, <1>4, <1>7 DEF CalmInv, Top
  <2>2. \A j, k \in 1 .. m - 1 : j < k /\ j > 1 =>
           Older(history[k].at, history[k].id, history[j].at, history[j].id)
    BY <1>1, <1>3, <2>1 DEF CalmInv
  <2>3. ASSUME NEW j \in 1 .. m - 1, j > 1
        PROVE  Older(list.next.at, list.next.id, history[j].at, history[j].id)
    <3>1. history[j] \in Cursor /\ history[m - 1] \in Cursor
      <4>1. history[j] # NoCursor /\ history[m - 1] # NoCursor
        BY <1>1, <1>3, <2>3 DEF StackInv
      <4> QED BY <1>1, <1>3, <2>3, <4>1, ElementOfSeq DEF PagerTyped, Fetch
    <3>2. list.from # NoCursor
      BY <2>1, <3>1, RowsAssumption
    <3>3. Older(list.next.at, list.next.id, history[m - 1].at, history[m - 1].id)
      BY <1>1, <2>1, <3>2 DEF StackInv
    <3>4. CASE j = m - 1
      BY <3>3, <3>4
    <3>5. CASE j # m - 1
      <4>1. Older(history[m - 1].at, history[m - 1].id, history[j].at, history[j].id)
        BY <1>3, <2>2, <2>3, <3>5
      <4>2. /\ list.next.at \in Instants /\ list.next.id \in Ids
            /\ history[j].at \in Instants /\ history[j].id \in Ids
            /\ history[m - 1].at \in Instants /\ history[m - 1].id \in Ids
        BY <1>2, <3>1 DEF Cursor
      <4> QED BY <3>3, <4>1, <4>2, OlderTransitive
    <3> QED BY <3>4, <3>5
  <2>4. ASSUME NEW j \in 1 .. m, NEW k \in 1 .. m, j < k, j > 1
        PROVE  Older(history'[k].at, history'[k].id, history'[j].at, history'[j].id)
    <3>1. CASE k = m
      BY <1>3, <2>3, <2>4, <3>1
    <3>2. CASE k # m
      BY <1>3, <2>2, <2>4, <3>2
    <3> QED BY <3>1, <3>2
  <2>5. Top' = list.next
    BY <1>3 DEF Top
  <2> QED BY <1>3, <1>4, <1>7, <2>4, <2>5 DEF CalmInv
<1>8. CalmInv'
  BY <1>7 DEF CalmInv
<1> QED BY <1>5, <1>6, <1>8 DEF PagerInv

LEMMA ClickPrevPager ==
  ASSUME PagerInv, ClickPrev
  PROVE  PagerInv'
<1> DEFINE m == Len(history) - 1
<1>1. /\ Len(history) >= 2 /\ history' = SubSeq(history, 1, m)
      /\ Load(history'[Len(history')]) /\ UNCHANGED <<tablevars, list, prevOn>>
      /\ PagerTyped /\ StackInv /\ CalmInv
  BY DEF ClickPrev, PagerInv
<1>2. /\ history' \in Seq(Fetch) /\ Len(history') = m /\ m \in Nat /\ m >= 1
      /\ DOMAIN history' = 1 .. m /\ DOMAIN history = 1 .. m + 1
      /\ \A k \in 1 .. m : history'[k] = history[k]
  BY <1>1, SubSeqProperties, LenProperties DEF PagerTyped
<1> HIDE DEF m
<1>3. history'[m] \in Fetch
  BY <1>2, ElementOfSeq
<1>4. Top' = history'[m]
  BY <1>2 DEF Top
<1>5. /\ loads' \in Seq(LoadOf) /\ calm' \in BOOLEAN
      /\ calm' => calm /\ loads = <<>> /\ loads' # <<>>
                  /\ Len(loads') = 1 /\ loads'[1] = [from |-> history'[m], late |-> FALSE]
  BY <1>1, <1>2, <1>3, LoadTyped
<1>6. PagerTyped'
  BY <1>1, <1>2, <1>5 DEF PagerTyped, RowsTypeOK, tablevars
<1>7. StackInv'
  BY <1>1, <1>2 DEF StackInv
<1>8. CalmInv'
  BY <1>1, <1>2, <1>4, <1>5 DEF CalmInv
<1> QED BY <1>6, <1>7, <1>8 DEF PagerInv

LEMMA ArrivePager ==
  ASSUME PagerInv, Arrive
  PROVE  PagerInv'
<1> DEFINE load == Head(loads)
           late == load.late
           rest == [k \in DOMAIN Tail(loads) |-> [Tail(loads)[k] EXCEPT !.late = TRUE]]
<1>1. /\ loads # <<>> /\ UNCHANGED <<tablevars, history, calm>>
      /\ IF late THEN loads' = Tail(loads) /\ UNCHANGED <<list, prevOn>>
         ELSE /\ list' \in Fragment(load.from)
              /\ loads' = rest
              /\ prevOn' = (Len(history) >= 2)
      /\ PagerTyped /\ StackInv /\ CalmInv
  BY DEF Arrive, Update, PagerInv
<1>2. /\ load \in LoadOf /\ load = loads[1] /\ Tail(loads) \in Seq(LoadOf)
      /\ Len(Tail(loads)) = Len(loads) - 1 /\ Len(loads) \in Nat
  BY <1>1, HeadTailProperties, LenProperties DEF PagerTyped
<1>3. late \in BOOLEAN /\ load.from \in Fetch
  BY <1>2 DEF LoadOf
<1>4. rest \in Seq(LoadOf) /\ Len(rest) = Len(loads) - 1
  <2>1. DOMAIN Tail(loads) = 1 .. Len(loads) - 1
    BY <1>2, LenProperties
  <2>2. \A k \in 1 .. Len(loads) - 1 : [Tail(loads)[k] EXCEPT !.late = TRUE] \in LoadOf
    <3>1. ASSUME NEW r \in LoadOf PROVE [r EXCEPT !.late = TRUE] \in LoadOf
      BY <3>1 DEF LoadOf
    <3>2. \A k \in 1 .. Len(loads) - 1 : Tail(loads)[k] \in LoadOf
      BY <1>2, ElementOfSeq
    <3> QED BY <3>1, <3>2
  <2>3. rest \in [1 .. Len(loads) - 1 -> LoadOf]
    BY <2>1, <2>2
  <2>4. Len(loads) - 1 \in Nat
    BY <1>2, LenProperties
  <2> HIDE DEF rest
  <2> QED BY <2>3, <2>4
<1> HIDE DEF load, late, rest
<1>5. list' \in [from : Fetch, next : Fetch]
  BY <1>1, <1>3, FragmentIs DEF PagerTyped
<1>6. loads' \in Seq(LoadOf)
  BY <1>1, <1>2, <1>3, <1>4
<1>7. PagerTyped'
  BY <1>1, <1>5, <1>6 DEF PagerTyped, RowsTypeOK, tablevars
<1>8. StackInv'
  <2>1. CASE late
    BY <1>1, <2>1 DEF StackInv
  <2>2. CASE ~late
    <3>1. /\ list'.from = load.from
          /\ list'.from # NoCursor /\ list'.next # NoCursor =>
               Older(list'.next.at, list'.next.id, list'.from.at, list'.from.id)
      BY <1>1, <1>3, <2>2, FragmentIs DEF PagerTyped
    <3> QED BY <1>1, <3>1 DEF StackInv
  <2> QED BY <2>1, <2>2
<1>9. ASSUME calm' PROVE CalmInv'
  <2>1. calm /\ Len(loads) = 1 /\ load = [from |-> Top, late |-> FALSE]
    BY <1>1, <1>2, <1>9 DEF CalmInv
  <2>2. ~late /\ load.from = Top
    BY <2>1 DEF late
  <2>3. list'.from = Top /\ prevOn' = (Len(history) >= 2) /\ loads' = rest
    BY <1>1, <1>3, <2>2, FragmentIs DEF PagerTyped
  <2>4. loads' = <<>>
    BY <1>4, <2>1, <2>3, EmptySeq
  <2> QED BY <1>1, <2>1, <2>3, <2>4 DEF CalmInv, Top
<1>10. CalmInv'
  BY <1>9 DEF CalmInv
<1> QED BY <1>7, <1>8, <1>10 DEF PagerInv

LEMMA OtherPager ==
  ASSUME PagerInv, LoadFails \/ ShowDetail \/ (OtherWrite /\ UNCHANGED pagervars)
                   \/ UNCHANGED <<tablevars, pagervars>>
  PROVE  PagerInv'
<1>1. PagerTyped /\ StackInv /\ CalmInv
  BY DEF PagerInv
<1>2. CASE LoadFails
  <2>1. Tail(loads) \in Seq(LoadOf)
    BY <1>1, <1>2, HeadTailProperties DEF PagerTyped, LoadFails
  <2>2. loads' = Tail(loads) /\ calm' = FALSE /\ UNCHANGED <<rows, born, history, list>>
    BY <1>2 DEF LoadFails, tablevars
  <2>3. PagerTyped'
    BY <1>1, <2>1, <2>2 DEF PagerTyped, RowsTypeOK
  <2> QED BY <1>1, <2>2, <2>3 DEF PagerInv, StackInv, CalmInv
<1>3. CASE ShowDetail
  <2>1. prevOn' = (Len(history) >= 2) /\ UNCHANGED <<rows, born, history, list, loads, calm>>
    BY <1>3 DEF ShowDetail, Update, tablevars
  <2>2. PagerTyped' /\ StackInv'
    BY <1>1, <2>1 DEF PagerTyped, RowsTypeOK, StackInv
  <2>3. CalmInv'
    BY <1>1, <2>1 DEF CalmInv, Top
  <2> QED BY <2>2, <2>3 DEF PagerInv
<1>4. CASE (OtherWrite /\ UNCHANGED pagervars) \/ UNCHANGED <<tablevars, pagervars>>
  <2>1. UNCHANGED <<history, list, loads, prevOn, calm>>
    BY <1>4 DEF pagervars
  <2>2. RowsTypeOK'
    BY <1>1, <1>4, DatesLast DEF PagerTyped, RowsTypeOK, tablevars
  <2>3. PagerTyped' /\ StackInv'
    BY <1>1, <2>1, <2>2 DEF PagerTyped, StackInv
  <2>4. CalmInv'
    BY <1>1, <2>1 DEF CalmInv, Top
  <2> QED BY <2>3, <2>4 DEF PagerInv
<1> QED BY <1>2, <1>3, <1>4

LEMMA PagerInvariance == PagerSpec => []PagerInv
<1>1. RowsInit /\ PagerInit => PagerInv
  <2> SUFFICES ASSUME RowsInit, PagerInit PROVE PagerInv
    OBVIOUS
  <2>1. /\ history = <<NoCursor>> /\ list = [from |-> NoCursor, next |-> NoCursor]
        /\ loads = <<>> /\ calm = FALSE
    BY DEF PagerInit
  <2>2. RowsTypeOK
    BY DEF RowsInit, RowsTypeOK
  <2>3. history \in Seq(Fetch) /\ Len(history) = 1 /\ DOMAIN history = {1} /\ history[1] = NoCursor
    BY <2>1 DEF Fetch
  <2>4. list \in [from : Fetch, next : Fetch] /\ list.next = NoCursor
    BY <2>1 DEF Fetch
  <2>5. PagerTyped
    <3>1. loads \in Seq(LoadOf) /\ calm \in BOOLEAN
      BY <2>1, EmptySeq
    <3> QED BY <2>2, <2>3, <2>4, <3>1 DEF PagerTyped
  <2>6. StackInv
    BY <2>3, <2>4 DEF StackInv
  <2>7. CalmInv
    BY <2>1 DEF CalmInv
  <2> QED BY <2>5, <2>6, <2>7 DEF PagerInv
<1>2. PagerInv /\ [PagerStep \/ (OtherWrite /\ UNCHANGED pagervars)]_<<tablevars, pagervars>>
        => PagerInv'
  BY OpenHomePager, ClickNextPager, ClickPrevPager, ArrivePager, OtherPager DEF PagerStep
<1> QED BY <1>1, <1>2, PTL DEF PagerSpec

(* As long as no click overtakes a load and no load fails, the list, the     *)
(* stack and the Prev button agree after every load, for any page size, any  *)
(* number of pages and any writes in between.                               *)
THEOREM PagerStaysInStep == PagerSpec => []PagerInStep
<1>1. PagerInv => PagerInStep
  BY DEF PagerInv, StackInv, CalmInv, PagerInStep, Top
<1> QED BY <1>1, PagerInvariance, PTL

------------------------------------------------------------------------------
(* The terminal interface.                                                  *)

(* The frame shows rows of the list, each at its place, and the cursor.      *)
Shows ==
  /\ frame.sel = sel
  /\ DOMAIN frame.memories \subseteq DOMAIN memories
  /\ \A k \in DOMAIN frame.memories : frame.memories[k] = memories[k]

(* No memory is listed twice, a frame that is drawn shows what there is, and *)
(* while a delete waits for the service what is on the screen is what the   *)
(* key was pressed on.                                                      *)
ScreenInv ==
  /\ RowsTypeOK
  /\ \A j, k \in DOMAIN memories : j # k => memories[j] # memories[k]
  /\ drawn => calling = "none" /\ Shows
  /\ calling = "delete" => Shows /\ sel \in DOMAIN memories

LEMMA RowsOfApp ==
  ASSUME RowsTypeOK, AppStep
  PROVE  RowsTypeOK'
<1>1. CASE UNCHANGED tablevars
  BY <1>1 DEF RowsTypeOK, tablevars
<1>2. CASE Add /\ ~UNCHANGED tablevars
  BY <1>2, DatesLast DEF Add, OtherWrite
<1>3. CASE Delete /\ ~UNCHANGED tablevars
  <2>1. rows' = [rows EXCEPT ![memories[sel]] = NoRow] /\ UNCHANGED born
    BY <1>3 DEF Delete, DeleteRow
  <2> QED BY <2>1 DEF RowsTypeOK
<1> QED BY <1>1, <1>2, <1>3 DEF AppStep, Draw, Quit, PressDelete, Escape, Submit, RunCommand, Enter,
                              Scroll, Type, List, Find

LEMMA ListedOnce ==
  ASSUME NEW W, NEW s \in Ext!SetToSeqs(W)
  PROVE  \A j, k \in DOMAIN s : j # k => s[j] # s[k]
BY DEF Ext!SetToSeqs

LEMMA ScreenKept ==
  ASSUME ScreenInv, [AppStep \/ (OtherWrite /\ UNCHANGED appvars)]_<<tablevars, appvars>>
  PROVE  ScreenInv'
<1>1. RowsTypeOK'
  BY RowsOfApp, DatesLast DEF ScreenInv, RowsTypeOK, tablevars
<1>2. CASE UNCHANGED appvars
  BY <1>1, <1>2 DEF ScreenInv, Shows, appvars
<1>3. CASE Draw
  <2>1. PICK h \in ScreenRows :
          frame' = [memories |-> [k \in DOMAIN memories \cap 1 .. h |-> memories[k]], sel |-> sel]
    BY <1>3 DEF Draw
  <2>2. calling' = "none" /\ UNCHANGED <<memories, sel>>
    BY <1>3 DEF Draw
  <2>3. Shows'
    BY <2>1, <2>2 DEF Shows
  <2> QED BY <1>1, <2>2, <2>3 DEF ScreenInv
<1>4. CASE Quit \/ Escape \/ (\E m \in {"Search", "Add", "Command"} : Enter(m))
            \/ (\E w \in Words : Type(w)) \/ (\E d \in {-1, 1} : Scroll(d))
  BY <1>1, <1>4 DEF ScreenInv, Quit, Escape, Enter, Type, Scroll, Pressed
<1>5. CASE PressDelete \/ Submit \/ RunCommand
  BY <1>1, <1>5 DEF ScreenInv, Shows, PressDelete, Submit, RunCommand, Pressed, Deletes
<1>6. CASE List \/ Find
  <2>1. /\ calling # "none" /\ calling' = "none" /\ UNCHANGED drawn
        /\ UNCHANGED memories \/ \E W : memories' \in Ext!SetToSeqs(W)
    BY <1>6 DEF List, Find, NewestFirst
  <2>2. \A j, k \in DOMAIN memories' : j # k => memories'[j] # memories'[k]
    BY <2>1, ListedOnce DEF ScreenInv
  <2> QED BY <1>1, <2>1, <2>2 DEF ScreenInv
<1>7. CASE Add \/ Delete
  BY <1>1, <1>7 DEF ScreenInv, Add, Delete
<1> QED BY <1>2, <1>3, <1>4, <1>5, <1>6, <1>7 DEF AppStep

(* Whatever others write and however small the screen is, the delete of the *)
(* terminal removes no memory that the frame the key was pressed on showed, *)
(* but for that of its highlighted row.                                     *)
THEOREM NoOtherShownIsDeleted == AppSpec => NoOtherShownDeleted
<1>1. RowsInit /\ AppInit => ScreenInv
  BY DEF RowsInit, RowsTypeOK, AppInit, ScreenInv
<1>2. ScreenInv /\ [AppStep \/ (OtherWrite /\ UNCHANGED appvars)]_<<tablevars, appvars>>
        => ScreenInv'
  BY ScreenKept
<1>3. ScreenInv /\ [AppStep \/ (OtherWrite /\ UNCHANGED appvars)]_<<tablevars, appvars>> =>
        [calling = "delete" /\ calling' = "list" =>
           \A i \in Ids : rows[i] # NoRow /\ rows'[i] = NoRow =>
             IF frame.sel \in DOMAIN frame.memories
             THEN i = frame.memories[frame.sel]
             ELSE \A k \in DOMAIN frame.memories : i # frame.memories[k]]_<<tablevars, appvars>>
  <2> SUFFICES ASSUME ScreenInv, AppStep \/ (OtherWrite /\ UNCHANGED appvars),
                      calling = "delete", calling' = "list",
                      NEW i \in Ids, rows[i] # NoRow, rows'[i] = NoRow
               PROVE  IF frame.sel \in DOMAIN frame.memories
                      THEN i = frame.memories[frame.sel]
                      ELSE \A k \in DOMAIN frame.memories : i # frame.memories[k]
    OBVIOUS
  <2>1. ~UNCHANGED appvars
    BY DEF appvars
  <2>2. Delete
    BY <2>1 DEF AppStep, Draw, Quit, PressDelete, Escape, Submit, RunCommand, Enter, Scroll, Type,
                List, Find, Add, Pressed
  <2>3. rows' # rows
    OBVIOUS
  <2>4. rows' = [rows EXCEPT ![memories[sel]] = NoRow]
    BY <2>2, <2>3 DEF Delete, DeleteRow, tablevars
  <2>5. i = memories[sel]
    BY <2>4 DEF ScreenInv, RowsTypeOK
  <2>6. Shows /\ sel \in DOMAIN memories
    BY DEF ScreenInv
  <2>7. \A k \in DOMAIN frame.memories : k # frame.sel => i # frame.memories[k]
    BY <2>5, <2>6 DEF ScreenInv, Shows
  <2> QED BY <2>5, <2>6, <2>7 DEF Shows
<1> QED BY <1>1, <1>2, <1>3, PTL DEF AppSpec, NoOtherShownDeleted

------------------------------------------------------------------------------
(* The MCP server.                                                          *)

Response ==
  [line : Nat, id : AnyId, error : BOOLEAN, added : Nat, failed : SUBSET Nat, applied : SUBSET Nat]

McpTyped ==
  /\ sent \in Seq(Line) /\ read \in Nat /\ read <= Len(sent)
  /\ initialized \in BOOLEAN
  /\ at \in {"loop", "tool", "batch"}
  /\ item \in Nat /\ added \in Nat /\ failed \in SUBSET Nat /\ applied \in SUBSET Nat
  /\ out \in Seq(Response)

(* Each response is to a line whose turn is over, later lines answered later, *)
(* and each line whose turn is over is answered.                            *)
OrderInv ==
  /\ \A j, k \in DOMAIN out : j < k => out[j].line < out[k].line
  /\ \A k \in DOMAIN out :
       /\ out[k].line \in 1 .. read /\ out[k].id = sent[out[k].line].id
       /\ at # "loop" => out[k].line # read
  /\ \A n \in 1 .. read :
       Over(n) /\ Answered(sent[n]) => \E k \in DOMAIN out : out[k].line = n

Handshake(m) == \E n \in 1 .. m : sent[n].method = "initialize"

(* The call under way came after the handshake.                             *)
CallInv ==
  /\ initialized => Handshake(read)
  /\ at # "loop" => read > 0 /\ Current.method = "tools/call" /\ initialized
  /\ at = "tool" => Current.tool # "batch"

(* What a summary says of the items given: those of f failed, and those of w *)
(* were written.                                                            *)
Tells(items, given, f, w) ==
  /\ f \subseteq given
  /\ w \subseteq {m \in given : items[m] # "blank"}
  /\ {m \in given : items[m] = "blank"} \subseteq f

(* The items before the next one are accounted for.                         *)
BatchInv ==
  at = "batch" =>
    /\ Current.tool = "batch"
    /\ item \in 1 .. Len(Current.items) + 1
    /\ added + Cardinality(failed) = item - 1
    /\ Tells(Current.items, 1 .. item - 1, failed, applied)
    /\ raw \/ (1 .. item - 1) \ failed \subseteq applied

(* BatchAccounted, of one response to the lines s.                          *)
Accounted(s, r) ==
  /\ r.applied # {} =>
       /\ s[r.line].tool \in {"write", "batch"}
       /\ \E n \in 1 .. r.line - 1 : s[n].method = "initialize"
  /\ s[r.line].tool = "batch" /\ ~r.error =>
       /\ r.added + Cardinality(r.failed) = Len(s[r.line].items)
       /\ Tells(s[r.line].items, DOMAIN s[r.line].items, r.failed, r.applied)
       /\ raw \/ DOMAIN s[r.line].items \ r.failed \subseteq r.applied

AllAccounted == \A k \in DOMAIN out : Accounted(sent, out[k])

McpInv == McpTyped /\ OrderInv /\ CallInv /\ BatchInv /\ AllAccounted

------------------------------------------------------------------------------
(* What a line may be.                                                      *)
LEMMA LineKinds ==
  ASSUME NEW l \in Line
  PROVE  /\ l.id \in AnyId
         /\ l.method \in Methods \cup {"tools/call", "blank line", "not JSON", "unreadable"}
         /\ l.method # "tools/call" => l.tool = ""
         /\ l.tool = "batch" => l.items \in Seq({"text", "blank"})
<1>1. CASE l \in [method : Methods, id : AnyId, tool : {""}, items : {<<>>}]
  BY <1>1
<1>2. CASE l \in [method : {"tools/call"}, id : AnyId, tool : Tools, items : {<<>>}]
  BY <1>2 DEF Tools
<1>3. CASE l \in [method : {"tools/call"}, id : AnyId, tool : {"batch"}, items : Batches]
  BY <1>3, McpAssumption
<1>4. CASE l \in [method : {"blank line", "not JSON", "unreadable"}, id : {NoId}, tool : {""}, items : {<<>>}]
  BY <1>4 DEF AnyId
<1> QED BY <1>1, <1>2, <1>3, <1>4 DEF Line, JsonRpcRequest

LEMMA SentLines ==
  ASSUME McpTyped
  PROVE  /\ DOMAIN sent = 1 .. Len(sent) /\ Len(sent) \in Nat
         /\ \A n \in 1 .. Len(sent) : sent[n] \in Line
BY LenProperties, ElementOfSeq DEF McpTyped

(* The counts of a response stay right when lines are written after its own. *)
LEMMA AccountedLines ==
  ASSUME NEW s, NEW z, NEW r, NEW m \in Nat, r.line \in 1 .. m,
         \A n \in 1 .. m : z[n] = s[n], Accounted(s, r)
  PROVE  Accounted(z, r)
<1>1. z[r.line] = s[r.line]
  OBVIOUS
<1>2. \A n \in 1 .. r.line - 1 : z[n] = s[n]
  OBVIOUS
<1> QED BY <1>1, <1>2 DEF Accounted

(* The invariant in the words of the property.                              *)
LEMMA AccountsAreRight == AllAccounted => BatchAccounted
BY DEF AllAccounted, Accounted, Tells, BatchAccounted

------------------------------------------------------------------------------
(* A line more on stdin.                                                    *)
LEMMA SendMcp ==
  ASSUME McpInv, NEW l \in Line, Send(l)
  PROVE  McpInv'
<1>1. /\ sent' = Append(sent, l)
      /\ UNCHANGED <<read, raw, initialized, at, item, added, failed, applied, out>>
      /\ McpTyped
  BY DEF Send, McpInv
<1>2. /\ sent' \in Seq(Line) /\ Len(sent') = Len(sent) + 1 /\ Len(sent) \in Nat
      /\ \A n \in 1 .. Len(sent) : sent'[n] = sent[n]
  BY <1>1, AppendProperties, LenProperties DEF McpTyped
<1>3. \A n \in 1 .. read : sent'[n] = sent[n]
  BY <1>1, <1>2 DEF McpTyped
<1>4. McpTyped'
  BY <1>1, <1>2 DEF McpTyped
<1>5. OrderInv'
  BY <1>1, <1>3 DEF McpInv, OrderInv, Over, Answered
<1>6. CallInv'
  BY <1>1, <1>3 DEF McpInv, McpTyped, CallInv, Handshake, Current
<1>7. BatchInv'
  <2>1. at # "loop" => Current' = Current
    BY <1>1, <1>3 DEF McpInv, McpTyped, CallInv, Current
  <2> QED BY <1>1, <2>1 DEF McpInv, BatchInv
<1>8. AllAccounted'
  <2>1. \A k \in DOMAIN out : out[k].line \in 1 .. read /\ Accounted(sent, out[k])
    BY DEF McpInv, OrderInv, AllAccounted
  <2>2. read \in Nat
    BY <1>1 DEF McpTyped
  <2> DEFINE s == sent
             z == sent'
             m == read
  <2>3. m \in Nat /\ \A n \in 1 .. m : z[n] = s[n]
    BY <1>3, <2>2
  <2>4. ASSUME NEW k \in DOMAIN out PROVE Accounted(z, out[k])
    <3> DEFINE x == out[k]
    <3>1. x.line \in 1 .. m /\ Accounted(s, x)
      BY <2>1
    <3> HIDE DEF s, z, m, x
    <3>2. Accounted(z, x)
      BY <2>3, <3>1, AccountedLines
    <3> QED BY <3>2 DEF x
  <2> QED BY <1>1, <2>4 DEF AllAccounted, Accounted
<1> QED BY <1>4, <1>5, <1>6, <1>7, <1>8 DEF McpInv

(* A line that is passed over.                                              *)
LEMMA PassedOver ==
  ASSUME McpInv, at = "loop", read < Len(sent), read' = read + 1, ~Answered(sent[read + 1]),
         UNCHANGED <<sent, raw, at, item, added, failed, applied, out, initialized>>
  PROVE  McpInv'
<1>1. McpTyped /\ OrderInv /\ CallInv /\ AllAccounted
  BY DEF McpInv
<1>2. read \in Nat /\ Len(sent) \in Nat
  BY <1>1, SentLines DEF McpTyped
<1>3. McpTyped'
  BY <1>1, <1>2 DEF McpTyped
<1>4. OrderInv'
  <2>1. \A k \in DOMAIN out : out[k].line \in 1 .. read + 1
    BY <1>1, <1>2 DEF OrderInv
  <2>2. ASSUME NEW m \in 1 .. read + 1, Answered(sent[m])
        PROVE  \E k \in DOMAIN out : out[k].line = m
    <3>1. m \in 1 .. read
      BY <1>2, <2>2
    <3>2. Over(m)
      BY <1>2, <3>1 DEF Over
    <3> QED BY <1>1, <2>2, <3>1, <3>2 DEF OrderInv
  <2> QED BY <1>1, <2>1, <2>2 DEF OrderInv, Over, Answered
<1>5. CallInv'
  <2>1. ASSUME initialized PROVE Handshake(read + 1)
    <3>1. PICK m \in 1 .. read : sent[m].method = "initialize"
      BY <1>1, <2>1 DEF CallInv, Handshake
    <3> QED BY <1>2, <3>1 DEF Handshake
  <2>2. Handshake(read + 1) => Handshake(read)'
    BY DEF Handshake
  <2> QED BY <2>1, <2>2 DEF CallInv
<1>6. BatchInv'
  BY DEF BatchInv
<1>7. AllAccounted'
  BY <1>1 DEF AllAccounted, Accounted
<1> QED BY <1>3, <1>4, <1>5, <1>6, <1>7 DEF McpInv

(* A response to the line that is read.                                     *)
LEMMA ReplyOrder ==
  ASSUME McpTyped, NEW n \in 1 .. Len(sent), NEW x \in Response,
         x.line = n, x.id = sent[n].id, out' = Append(out, x), UNCHANGED sent,
         read' = n, at' = "loop",
         \/ n = read /\ at # "loop"
         \/ n = read + 1 /\ at = "loop",
         OrderInv
  PROVE  /\ OrderInv' /\ out' \in Seq(Response)
         /\ DOMAIN out' = DOMAIN out \cup {Len(out) + 1} /\ Len(out) + 1 \notin DOMAIN out
         /\ out'[Len(out) + 1] = x /\ \A k \in DOMAIN out : out'[k] = out[k]
<1>1. /\ out' \in Seq(Response) /\ Len(out') = Len(out) + 1 /\ Len(out) \in Nat
      /\ \A k \in 1 .. Len(out) : out'[k] = out[k]
      /\ out'[Len(out) + 1] = x
      /\ DOMAIN out = 1 .. Len(out)
  BY AppendProperties, LenProperties DEF McpTyped
<1>2. DOMAIN out' = 1 .. Len(out) + 1
  BY <1>1, LenProperties
<1>3. \A k \in 1 .. Len(out) : out[k].line \in 1 .. n - 1
  BY <1>1, SentLines DEF McpTyped, OrderInv
<1>4. \A k \in 1 .. Len(out) + 1 : k \in 1 .. Len(out) \/ k = Len(out) + 1
  BY <1>1
<1>5. \A j, k \in DOMAIN out' : j < k => out'[j].line < out'[k].line
  BY <1>1, <1>2, <1>3, <1>4 DEF OrderInv
<1>6. \A k \in DOMAIN out' : out'[k].line \in 1 .. n /\ out'[k].id = sent[out'[k].line].id
  BY <1>1, <1>2, <1>3, <1>4 DEF OrderInv
<1>7. ASSUME NEW m \in 1 .. n, Answered(sent[m])
      PROVE  \E k \in DOMAIN out' : out'[k].line = m
  <2>1. CASE m = n
    BY <1>1, <1>2, <2>1
  <2>2. CASE m # n
    <3>1. m \in 1 .. read /\ Over(m)
      BY <2>2 DEF McpTyped, Over
    <3>2. PICK k \in DOMAIN out : out[k].line = m
      BY <1>7, <3>1 DEF OrderInv
    <3> QED BY <1>1, <1>2, <3>2
  <2> QED BY <2>1, <2>2
<1>8. OrderInv'
  BY <1>5, <1>6, <1>7 DEF OrderInv, Over, Answered
<1> QED BY <1>1, <1>2, <1>4, <1>8

LEMMA ReplyAccounts ==
  ASSUME McpTyped, NEW n \in 1 .. Len(sent), NEW x \in Response, x.line = n, AllAccounted,
         DOMAIN out' = DOMAIN out \cup {Len(out) + 1}, out'[Len(out) + 1] = x,
         \A k \in DOMAIN out : out'[k] = out[k],
         UNCHANGED <<sent, raw>>,
         Accounted(sent, x)
  PROVE  AllAccounted'
<1>1. \A k \in DOMAIN out : Accounted(sent, out[k])
  BY DEF AllAccounted
<1>2. \A k \in DOMAIN out' : Accounted(sent', out'[k])
  BY <1>1
<1> QED BY <1>2 DEF AllAccounted, Accounted

(* The lines that need no tool.                                             *)
LEMMA TakeMcp ==
  ASSUME McpInv, Take
  PROVE  McpInv'
<1> DEFINE n == read + 1
           l == sent[n]
           error == \/ l.method \notin {"initialize", "tools/list"}
                    \/ ~initialized /\ l.method # "initialize"
           x == [line |-> n, id |-> l.id, error |-> error, added |-> 0, failed |-> {}, applied |-> {}]
<1>1. /\ at = "loop" /\ read < Len(sent) /\ read' = n
      /\ UNCHANGED <<sent, raw, at, item, added, failed, applied>>
      /\ initialized' = (initialized \/ l.method = "initialize")
      /\ IF l.method = "blank line" \/ (initialized /\ ~Answered(l)) THEN UNCHANGED out
         ELSE out' = Append(out, x)
  BY DEF Take, TakeAny, Reply
<1>2. McpTyped /\ OrderInv /\ CallInv /\ AllAccounted
  BY DEF McpInv
<1>3. n = read + 1 /\ n \in 1 .. Len(sent) /\ read \in Nat /\ n \in Nat /\ l = sent[n]
  <2>1. read \in Nat /\ Len(sent) \in Nat /\ read < Len(sent)
    BY <1>1, <1>2, SentLines DEF McpTyped
  <2> HIDE DEF error, x
  <2> QED BY <2>1
<1>4. l \in Line
  BY <1>3, <1>2, SentLines
<1>5. l.tool = "batch" => error
  BY <1>4, LineKinds
<1>6. error \in BOOLEAN
  OBVIOUS
<1>7. l.id \in AnyId
  BY <1>4, LineKinds
<1> HIDE DEF error, l, n
<1>8. x \in Response /\ x.line = n /\ x.id = l.id /\ x.error = error /\ x.applied = {}
  BY <1>3, <1>6, <1>7 DEF Response
<1> HIDE DEF x
<1>9. CallInv'
  <2>1. ASSUME initialized PROVE Handshake(n)
    <3>1. PICK m \in 1 .. read : sent[m].method = "initialize"
      BY <1>2, <2>1 DEF CallInv, Handshake
    <3> QED BY <1>3, <3>1 DEF Handshake
  <2>2. ASSUME l.method = "initialize" PROVE Handshake(n)
    BY <1>3, <2>2 DEF Handshake
  <2>3. initialized' => Handshake(n)
    BY <1>1, <2>1, <2>2
  <2>4. Handshake(n) => Handshake(read)'
    BY <1>1 DEF Handshake
  <2> QED BY <1>1, <2>3, <2>4 DEF CallInv
<1>10. BatchInv'
  BY <1>1 DEF BatchInv
<1>11. out' \in Seq(Response) => McpTyped'
  <2>1. initialized' \in BOOLEAN
    BY <1>1, <1>2 DEF McpTyped
  <2>2. read' \in Nat /\ read' <= Len(sent')
    <3>1. read' = n /\ sent' = sent
      BY <1>1
    <3> QED BY <1>3, <3>1
  <2> QED BY <1>1, <1>2, <2>1, <2>2 DEF McpTyped
<1>12. CASE UNCHANGED out /\ ~Answered(l) /\ UNCHANGED initialized
  BY <1>1, <1>12, PassedOver DEF l, n
<1>13. CASE out' = Append(out, x)
  <2>1. /\ OrderInv' /\ out' \in Seq(Response)
        /\ DOMAIN out' = DOMAIN out \cup {Len(out) + 1}
        /\ out'[Len(out) + 1] = x /\ \A k \in DOMAIN out : out'[k] = out[k]
    BY <1>1, <1>2, <1>3, <1>8, <1>13, ReplyOrder
  <2>2. AllAccounted'
    <3>1. Accounted(sent, x)
      BY <1>3, <1>5, <1>8 DEF Accounted
    <3> QED BY <1>1, <1>2, <1>3, <1>8, <2>1, <3>1, ReplyAccounts
  <2> QED BY <1>9, <1>10, <1>11, <2>1, <2>2 DEF McpInv
<1>14. l.method = "blank line" \/ ~Answered(l) => l.method # "initialize" /\ ~Answered(l)
  BY DEF Answered
<1>15. initialized \in BOOLEAN
  BY <1>2 DEF McpTyped
<1> QED BY <1>1, <1>12, <1>13, <1>14, <1>15

(* The line that ends the loop.                                             *)
LEMMA BreakMcp ==
  ASSUME McpInv, Break
  PROVE  McpInv'
<1>1. ~Answered(sent[read + 1])
  BY DEF Break, Answered
<1> QED BY <1>1, PassedOver DEF Break

LEMMA DispatchMcp ==
  ASSUME McpInv, Dispatch
  PROVE  McpInv'
<1> DEFINE n == read + 1
           l == sent[n]
<1>1. /\ at = "loop" /\ read < Len(sent) /\ read' = read + 1 /\ initialized
      /\ l.method = "tools/call"
      /\ at' = IF l.tool = "batch" THEN "batch" ELSE "tool"
      /\ item' = 1 /\ added' = 0 /\ failed' = {} /\ applied' = {}
      /\ UNCHANGED <<sent, raw, initialized, out>>
  BY DEF Dispatch, TakeAny
<1>2. McpTyped /\ OrderInv /\ CallInv /\ AllAccounted
  BY DEF McpInv
<1>3. n \in 1 .. Len(sent) /\ l \in Line /\ read \in Nat
  BY <1>1, <1>2, SentLines DEF McpTyped
<1>4. McpTyped'
  BY <1>1, <1>2, <1>3 DEF McpTyped
<1>5. OrderInv'
  BY <1>1, <1>2, <1>3 DEF OrderInv, Over
<1>6. CallInv'
  BY <1>1, <1>2, <1>3 DEF CallInv, Handshake, Current
<1>7. BatchInv'
  <2>1. SUFFICES ASSUME l.tool = "batch" PROVE BatchInv'
    BY <1>1 DEF BatchInv
  <2>2. l.items \in Seq({"text", "blank"}) /\ Len(l.items) \in Nat
    BY <1>3, <2>1, LineKinds, LenProperties
  <2>3. Current' = l
    BY <1>1 DEF Current
  <2>4. Cardinality({}) = 0
    BY FS_EmptySet
  <2> HIDE DEF l
  <2>5. item' \in 1 .. Len(l.items) + 1 /\ added' + Cardinality(failed') = item' - 1
    BY <1>1, <2>2, <2>4
  <2>6. 1 .. item' - 1 = {} /\ Tells(l.items, {}, {}, {})
    BY <1>1 DEF Tells
  <2>7. Tells(l.items, 1 .. item' - 1, failed', applied')
    BY <1>1, <2>6
  <2>8. (1 .. item' - 1) \ failed' \subseteq applied'
    BY <2>6
  <2> QED BY <1>1, <2>1, <2>3, <2>5, <2>7, <2>8 DEF BatchInv
<1>8. AllAccounted'
  BY <1>1, <1>2 DEF AllAccounted, Accounted
<1> QED BY <1>4, <1>5, <1>6, <1>7, <1>8 DEF McpInv

(* What every end of a call has in common.                                  *)
LEMMA CallEnds ==
  ASSUME McpInv, at # "loop", at' = "loop", NEW error \in BOOLEAN, NEW a \in Nat,
         NEW f \in SUBSET Nat, NEW w \in SUBSET Nat,
         Reply(read, error, a, f, w), applied' \in SUBSET Nat,
         UNCHANGED <<sent, read, raw, initialized, item, added, failed>>,
         w # {} => Current.tool \in {"write", "batch"},
         Current.tool = "batch" /\ ~error =>
           /\ a + Cardinality(f) = Len(Current.items)
           /\ Tells(Current.items, DOMAIN Current.items, f, w)
           /\ raw \/ DOMAIN Current.items \ f \subseteq w
  PROVE  McpInv'
<1> DEFINE x == [line |-> read, id |-> sent[read].id, error |-> error, added |-> a, failed |-> f,
                 applied |-> w]
<1>1. out' = Append(out, x)
  BY DEF Reply
<1>2. McpTyped /\ OrderInv /\ CallInv /\ AllAccounted
  BY DEF McpInv
<1>3. /\ read \in 1 .. Len(sent) /\ sent[read] \in Line
      /\ Current.method = "tools/call" /\ initialized
  BY <1>2, SentLines DEF McpTyped, CallInv
<1>4. Handshake(read - 1)
  <2>1. PICK m \in 1 .. read : sent[m].method = "initialize"
    BY <1>2, <1>3 DEF CallInv, Handshake
  <2>2. m # read
    BY <1>3, <2>1 DEF Current
  <2> QED BY <1>3, <2>1, <2>2 DEF Handshake
<1>5. x \in Response /\ x.line = read /\ x.id = sent[read].id /\ x.error = error /\ x.added = a
      /\ x.failed = f /\ x.applied = w
  <2>1. sent[read].id \in AnyId /\ read \in Nat
    BY <1>2, <1>3, LineKinds DEF McpTyped
  <2> QED BY <2>1 DEF Response
<1> HIDE DEF x
<1>6. /\ OrderInv' /\ out' \in Seq(Response)
      /\ DOMAIN out' = DOMAIN out \cup {Len(out) + 1}
      /\ out'[Len(out) + 1] = x /\ \A k \in DOMAIN out : out'[k] = out[k]
  BY <1>1, <1>2, <1>3, <1>5, ReplyOrder
<1>7. McpTyped'
  BY <1>2, <1>6 DEF McpTyped
<1>8. AllAccounted'
  <2>1. Accounted(sent, x)
    BY <1>4, <1>5 DEF Accounted, Current, Handshake
  <2> QED BY <1>2, <1>3, <1>5, <1>6, <2>1, ReplyAccounts
<1>9. CallInv'
  BY <1>2 DEF CallInv, Handshake
<1>10. BatchInv'
  BY DEF BatchInv
<1> QED BY <1>6, <1>7, <1>8, <1>9, <1>10 DEF McpInv

LEMMA CallToolMcp ==
  ASSUME McpInv, CallTool
  PROVE  McpInv'
<1>1. /\ at = "tool" /\ at' = "loop" /\ UNCHANGED <<sent, read, raw, initialized, item, added, failed>>
      /\ Current.tool # "batch" /\ applied \in SUBSET Nat
  BY DEF CallTool, McpInv, CallInv, McpTyped
<1>2. ASSUME NEW error \in BOOLEAN, NEW w \in SUBSET Nat, w # {} => Current.tool = "write",
             Reply(read, error, 0, {}, w), applied' \in SUBSET Nat
      PROVE  McpInv'
  <2>1. 0 \in Nat /\ {} \in SUBSET Nat /\ (w # {} => Current.tool \in {"write", "batch"})
    BY <1>2
  <2> QED BY <1>1, <1>2, <2>1, CallEnds
<1>3. CASE Current.tool = "write"
  <2>1. PICK w \in WriteOutcome : /\ applied' = IF w.done THEN {1} ELSE {}
                                 /\ Reply(read, ~w.ok, 0, {}, applied')
    BY <1>3 DEF CallTool
  <2>2. applied' \in SUBSET Nat
    BY <2>1
  <2>3. (~w.ok) \in BOOLEAN
    OBVIOUS
  <2> QED BY <1>2, <1>3, <2>1, <2>2, <2>3
<1>4. CASE Current.tool # "write"
  <2>1. PICK error \in BOOLEAN : Reply(read, error, 0, {}, {}) /\ UNCHANGED applied
    BY <1>4 DEF CallTool
  <2>2. {} \in SUBSET Nat
    OBVIOUS
  <2> QED BY <1>1, <1>2, <2>1, <2>2
<1> QED BY <1>3, <1>4

LEMMA AddItemMcp ==
  ASSUME McpInv, AddItem
  PROVE  McpInv'
<1> DEFINE items == Current.items
<1>1. McpTyped /\ OrderInv /\ CallInv /\ BatchInv /\ AllAccounted
  BY DEF McpInv
<1>2. /\ at = "batch" /\ item <= Len(items) /\ item' = item + 1
      /\ UNCHANGED <<sent, read, raw, initialized, at, out>>
  BY DEF AddItem
<1>3. /\ added \in Nat /\ failed \in SUBSET Nat /\ applied \in SUBSET Nat /\ item \in Nat \ {0}
      /\ added + Cardinality(failed) = item - 1
      /\ Tells(items, 1 .. item - 1, failed, applied)
      /\ raw \/ (1 .. item - 1) \ failed \subseteq applied
      /\ Current.tool = "batch" /\ read \in Nat
  BY <1>1, <1>2 DEF McpTyped, BatchInv
<1>4. Current \in Line
  BY <1>1, <1>2, SentLines DEF McpTyped, CallInv, Current
<1>5. Len(items) \in Nat /\ items[item] \in {"text", "blank"}
  <2>1. items \in Seq({"text", "blank"})
    BY <1>3, <1>4, LineKinds
  <2>2. Len(items) \in Nat
    BY <2>1, LenProperties
  <2>3. item \in 1 .. Len(items)
    BY <1>2, <1>3, <2>2
  <2> QED BY <2>1, <2>2, <2>3, ElementOfSeq
<1>6. PICK w \in AddOutcome :
        /\ items[item] = "blank" => ~w.done /\ ~w.ok
        /\ added' = IF w.ok THEN added + 1 ELSE added
        /\ failed' = IF w.ok THEN failed ELSE failed \cup {item}
        /\ applied' = IF w.done THEN applied \cup {item} ELSE applied
  BY DEF AddItem
<1>7. w.ok => w.done \/ raw
  BY DEF AddOutcome
<1> HIDE DEF items
<1>8. added' \in Nat /\ failed' \in SUBSET Nat /\ applied' \in SUBSET Nat
  BY <1>3, <1>6
<1>9. added' + Cardinality(failed') = item' - 1
  <2>1. failed \subseteq 1 .. item - 1
    BY <1>3 DEF Tells
  <2>2. IsFiniteSet(1 .. item - 1)
    BY <1>3, FS_Interval
  <2>3. IsFiniteSet(failed)
    BY <2>1, <2>2, FS_Subset
  <2>4. item \notin failed
    BY <1>3, <2>1
  <2>5. Cardinality(failed) \in Nat /\ Cardinality(failed \cup {item}) = Cardinality(failed) + 1
    BY <2>3, <2>4, FS_CardinalityType, FS_AddElement
  <2> QED BY <1>2, <1>3, <1>6, <2>5
<1>10. /\ Tells(items, 1 .. item' - 1, failed', applied')
       /\ raw \/ (1 .. item' - 1) \ failed' \subseteq applied'
  <2>1. 1 .. item' - 1 = (1 .. item - 1) \cup {item}
    BY <1>2, <1>3
  <2> QED BY <1>3, <1>6, <1>7, <2>1 DEF Tells
<1>11. McpTyped'
  BY <1>1, <1>2, <1>3, <1>8 DEF McpTyped
<1>12. OrderInv' /\ CallInv'
  BY <1>1, <1>2 DEF OrderInv, CallInv, Over, Handshake, Current
<1>13. AllAccounted'
  BY <1>1, <1>2 DEF AllAccounted, Accounted
<1>14. Current' = Current /\ Current'.items = items
  BY <1>2 DEF Current, items
<1>15. BatchInv'
  <2>1. item' \in 1 .. Len(items) + 1
    BY <1>2, <1>3, <1>5
  <2> QED BY <1>2, <1>3, <1>9, <1>10, <1>14, <2>1 DEF BatchInv
<1> QED BY <1>11, <1>12, <1>13, <1>15 DEF McpInv

LEMMA EndBatchMcp ==
  ASSUME McpInv, EndBatch
  PROVE  McpInv'
<1>1. /\ at = "batch" /\ at' = "loop" /\ item > Len(Current.items)
      /\ Reply(read, FALSE, added, failed, applied)
      /\ UNCHANGED <<sent, read, raw, initialized, item, added, failed, applied>>
  BY DEF EndBatch
<1>2. /\ added \in Nat /\ failed \in SUBSET Nat /\ applied \in SUBSET Nat
      /\ Current.tool = "batch" /\ Current \in Line
      /\ item \in 1 .. Len(Current.items) + 1
      /\ added + Cardinality(failed) = item - 1
      /\ Tells(Current.items, 1 .. item - 1, failed, applied)
      /\ raw \/ (1 .. item - 1) \ failed \subseteq applied
  BY <1>1, SentLines DEF McpInv, McpTyped, BatchInv, CallInv, Current
<1>3. Len(Current.items) \in Nat /\ DOMAIN Current.items = 1 .. Len(Current.items)
  BY <1>2, LineKinds, LenProperties
<1>4. item - 1 = Len(Current.items)
  BY <1>1, <1>2, <1>3
<1> QED BY <1>1, <1>2, <1>3, <1>4, CallEnds

LEMMA McpInvariance == McpSpec => []McpInv
<1>1. McpInit => McpInv
  <2> SUFFICES ASSUME McpInit PROVE McpInv
    OBVIOUS
  <2>1. /\ sent = <<>> /\ out = <<>> /\ read = 0 /\ initialized = FALSE /\ at = "loop"
        /\ item = 1 /\ added = 0 /\ failed = {} /\ applied = {}
    BY DEF McpInit
  <2>2. DOMAIN out = {} /\ <<>> \in Seq(Line) /\ <<>> \in Seq(Response) /\ Len(sent) = 0
    BY <2>1, EmptySeq
  <2>3. McpTyped
    <3>1. sent \in Seq(Line) /\ out \in Seq(Response) /\ read <= Len(sent)
      BY <2>1, <2>2
    <3> QED BY <2>1, <3>1 DEF McpTyped
  <2>4. OrderInv /\ CallInv
    BY <2>1, <2>2 DEF OrderInv, CallInv
  <2>5. BatchInv /\ AllAccounted
    BY <2>1, <2>2 DEF BatchInv, AllAccounted
  <2> QED BY <2>3, <2>4, <2>5 DEF McpInv
<1>2. McpInv /\ [McpNext]_mcpvars => McpInv'
  <2> SUFFICES ASSUME McpInv, [McpNext]_mcpvars PROVE McpInv'
    OBVIOUS
  <2>1. CASE Panic \/ UNCHANGED mcpvars
    <3>1. UNCHANGED <<sent, read, raw, initialized, at, item, added, failed, applied, out>>
      BY <2>1 DEF Panic, mcpvars
    <3> QED BY <3>1 DEF McpInv, McpTyped, OrderInv, CallInv, BatchInv, AllAccounted, Accounted,
                        Over, Answered, Handshake, Current
  <2> QED BY <2>1, SendMcp, TakeMcp, BreakMcp, DispatchMcp, CallToolMcp, AddItemMcp, EndBatchMcp
          DEF McpNext, McpStep
<1> QED BY <1>1, <1>2, PTL DEF McpSpec

(* Responses come in the order of the lines, each request with an id gets    *)
(* exactly one, with its id, and no other line but a failing one gets any:  *)
(* for every sequence of lines, every backend and every failure of a tool.  *)
THEOREM RepliesKeepOrder == McpSpec => []RepliesInOrder
<1>1. McpInv => RepliesInOrder
  <2> SUFFICES ASSUME McpInv PROVE RepliesInOrder
    OBVIOUS
  <2>1. OrderInv /\ read \in Nat /\ at \in {"loop", "tool", "batch"}
    BY DEF McpInv, McpTyped
  <2> QED BY <2>1 DEF OrderInv, RepliesInOrder, Over
<1> QED BY <1>1, McpInvariance, PTL

(* No tool runs before the handshake, and each item of a batch is counted as *)
(* added or named as failed; with the LLM it is stored when it did not fail: *)
(* for batches of any length, whatever fails on the way.                    *)
THEOREM BatchesAddUp == McpSpec => []BatchAccounted
<1>1. McpInv => BatchAccounted
  BY AccountsAreRight DEF McpInv
<1> QED BY <1>1, McpInvariance, PTL
------------------------------------------------------------------------------
(* The steps that the line under way still needs: one for a tool, one for   *)
(* each item of a batch and one for its summary.                            *)
StepsInLine ==
  CASE at = "loop" -> 0
    [] at = "tool" -> 1
    [] at = "batch" -> Len(Current.items) + 2 - item

LEMMA StepsAreCounted ==
  ASSUME McpInv
  PROVE  /\ StepsInLine \in Nat
         /\ at # "loop" => read \in 1 .. Len(sent) /\ StepsInLine >= 1
         /\ at = "batch" => Len(Current.items) \in Nat /\ item \in Nat
<1>1. /\ at \in {"loop", "tool", "batch"} /\ item \in Nat
      /\ Len(sent) \in Nat /\ read \in 0 .. Len(sent) /\ (at # "loop" => read > 0)
  BY SentLines DEF McpInv, McpTyped, CallInv
<1>2. CASE at = "batch"
  <2>1. Current \in Line /\ Current.tool = "batch" /\ item \in 1 .. Len(Current.items) + 1
    BY <1>1, <1>2, SentLines DEF McpInv, BatchInv, Current
  <2>2. Current.items \in Seq({"text", "blank"})
    BY <2>1, LineKinds
  <2>3. Len(Current.items) \in Nat
    BY <2>2, LenProperties
  <2> QED BY <1>1, <1>2, <2>1, <2>3 DEF StepsInLine
<1>3. CASE at \in {"loop", "tool"}
  BY <1>1, <1>3 DEF StepsInLine
<1> QED BY <1>1, <1>2, <1>3

LEMMA StepInLine ==
  ASSUME McpInv, McpInv', McpStep
  PROVE  \/ ~alive'
         \/ at = "loop" /\ read' = read + 1
         \/ read' = read /\ StepsInLine' < StepsInLine
<1>1. CASE Take \/ Dispatch
  BY <1>1 DEF Take, Dispatch, TakeAny
<1>2. CASE Panic \/ Break
  BY <1>2 DEF Panic, Break
<1>3. CASE CallTool \/ EndBatch
  <2>1. at # "loop" /\ at' = "loop" /\ read' = read
    BY <1>3 DEF CallTool, EndBatch
  <2>2. StepsInLine' = 0
    BY <2>1 DEF StepsInLine
  <2> QED BY <2>1, <2>2, StepsAreCounted
<1>4. CASE AddItem
  <2>1. /\ at = "batch" /\ at' = "batch" /\ read' = read /\ sent' = sent
        /\ item' = item + 1
    BY <1>4 DEF AddItem
  <2>2. item \in Nat /\ Len(Current.items) \in Nat
    BY <2>1, StepsAreCounted
  <2>3. Current' = Current
    BY <2>1 DEF Current
  <2> DEFINE n == Len(Current.items)
  <2>4. n \in Nat /\ StepsInLine = n + 2 - item /\ StepsInLine' = n + 2 - item'
    BY <2>1, <2>2, <2>3 DEF StepsInLine
  <2> HIDE DEF n
  <2>5. StepsInLine' < StepsInLine
    BY <2>1, <2>2, <2>4
  <2> QED BY <2>1, <2>5
<1> QED BY <1>1, <1>2, <1>3, <1>4 DEF McpStep

(* Every step of the loop, unless it dies of it, takes the next line or      *)
(* brings the line under way nearer to its end, and a line has as many steps *)
(* as it has items and one more; lines that arrive meanwhile, and steps that *)
(* fail, delay it by none.                                                  *)
THEOREM LinesAdvance ==
  McpSpec => [][/\ McpStep => \/ ~alive'
                              \/ at = "loop" /\ read' = read + 1
                              \/ read' = read /\ StepsInLine' < StepsInLine
                /\ ~McpStep => read' = read /\ StepsInLine' = StepsInLine
                /\ StepsInLine \in Nat]_mcpvars
<1>1. ASSUME McpInv, McpInv', NEW l \in Line, Send(l)
      PROVE  read' = read /\ StepsInLine' = StepsInLine
  <2>1. /\ UNCHANGED <<read, at, item>> /\ sent' = Append(sent, l)
        /\ sent \in Seq(Line)
    BY <1>1 DEF Send, McpInv, McpTyped
  <2>2. at # "loop" => Current' = Current
    <3> SUFFICES ASSUME at # "loop" PROVE Current' = Current
      OBVIOUS
    <3>1. read \in 1 .. Len(sent)
      BY <1>1, StepsAreCounted
    <3>2. Append(sent, l)[read] = sent[read]
      BY <2>1, <3>1, AppendProperties
    <3> QED BY <2>1, <3>2 DEF Current
  <2>3. at \in {"loop", "tool", "batch"}
    BY <1>1 DEF McpInv, McpTyped
  <2> QED BY <2>1, <2>2, <2>3 DEF StepsInLine
<1>2. ASSUME McpInv, McpInv', McpNext
      PROVE  /\ McpStep => \/ ~alive'
                           \/ at = "loop" /\ read' = read + 1
                           \/ read' = read /\ StepsInLine' < StepsInLine
             /\ ~McpStep => read' = read /\ StepsInLine' = StepsInLine
             /\ StepsInLine \in Nat
  BY <1>1, <1>2, StepInLine, StepsAreCounted DEF McpNext
<1> QED BY <1>2, McpInvariance, PTL DEF McpSpec
===============================================================================
