----------------------------- MODULE TerminalApp ------------------------------
(***************************************************************************)
(* The terminal interface: one task that draws, waits for a key and runs    *)
(* the calls of the memory service that the key asks for, while other       *)
(* processes write.  Nothing it shows is refreshed by what they write.      *)
(***************************************************************************)
EXTENDS SharedRows, Integers, Sequences

Ext == INSTANCE SequencesExt

CONSTANTS
  DefaultLimit, \* 20 in the code
  ListLimits,   \* the limits a user sets
  ScreenRows    \* how many rows of the list fit on the screen, which is resized

ASSUME TerminalAssumption ==
  /\ DefaultLimit \in Nat \ {0}
  /\ ListLimits \subseteq Nat \ {0}
  /\ ScreenRows \subseteq Nat

VARIABLES
  memories,     \* the ids of the list, first row first
  sel,          \* App::cursor, counted from 1
  mode,         \* App::mode, and "quit" after the loop
  input,        \* what was typed, as far as it matters
  lim,          \* App::limit
  calling,      \* the call of the service under way, or "none"
  frame,        \* the last drawn frame: the rows on it, and App::cursor
  drawn         \* the frame is of now: the loop waits for a key

appvars == <<memories, sel, mode, input, lim, calling, frame, drawn>>

(* What is typed: the words a command is known by, or any other text.       *)
Words == [word : {"list", "delete", "other"}, limit : {0}] \cup [word : {"limit"}, limit : ListLimits]
Nothing == [word |-> "", limit |-> 0]

AppInit ==
  /\ memories = <<>> /\ sel = 1
  /\ mode = "Normal" /\ input = Nothing
  /\ lim = DefaultLimit
  /\ calling = "list"                   \* run loads before its loop
  /\ frame = [memories |-> <<>>, sel |-> 1]
  /\ drawn = FALSE

(* draw, again with every turn of the loop: the list is drawn from its first *)
(* row, as far as the screen goes; it does not follow the cursor, which may *)
(* be on a row below the screen, and then no row is highlighted.            *)
Draw ==
  /\ calling = "none" /\ mode # "quit"
  /\ \E h \in ScreenRows :
       frame' = [memories |-> [k \in DOMAIN memories \cap 1 .. h |-> memories[k]], sel |-> sel]
  /\ drawn' = TRUE
  /\ UNCHANGED <<tablevars, memories, sel, mode, input, lim, calling>>

Pressed == calling = "none" /\ drawn /\ drawn' = FALSE

(* q in Normal mode, Ctrl-C in any, and the command `quit`.                 *)
Quit ==
  /\ Pressed
  /\ mode' = "quit" /\ input' = Nothing
  /\ UNCHANGED <<tablevars, memories, sel, lim, calling, frame>>

(* `:`, s and a; only `:` clears the input.                                 *)
Enter(m) ==
  /\ Pressed /\ mode = "Normal"
  /\ mode' = m
  /\ input' = IF m = "Command" THEN Nothing ELSE input
  /\ UNCHANGED <<tablevars, memories, sel, lim, calling, frame>>

(* scroll: around the list as it is now, wherever the cursor was.           *)
Scroll(d) ==
  /\ Pressed /\ mode = "Normal"
  /\ sel' = IF memories = <<>> THEN sel
            ELSE ((sel - 1 + Len(memories) + d) % Len(memories)) + 1
  /\ UNCHANGED <<tablevars, memories, mode, input, lim, calling, frame>>

(* delete_selected, up to its first call.                                   *)
Deletes == IF sel \in DOMAIN memories THEN "delete" ELSE "none"

PressDelete ==
  /\ Pressed /\ mode = "Normal"
  /\ calling' = Deletes
  /\ UNCHANGED <<tablevars, memories, sel, mode, input, lim, frame>>

Type(w) ==
  /\ Pressed /\ mode \in {"Search", "Add", "Command"} /\ input = Nothing
  /\ input' = w
  /\ UNCHANGED <<tablevars, memories, sel, mode, lim, calling, frame>>

Escape ==
  /\ Pressed /\ mode \in {"Search", "Add", "Command"}
  /\ mode' = "Normal" /\ input' = Nothing
  /\ UNCHANGED <<tablevars, memories, sel, lim, calling, frame>>

(* Enter: do_search and do_add up to their first call.  A search for nothing *)
(* is a search, an addition of nothing is none.                             *)
Submit ==
  /\ Pressed
  /\ \/ mode = "Search" /\ calling' = "search"
     \/ mode = "Add" /\ calling' = (IF input = Nothing THEN "none" ELSE "add")
  /\ mode' = "Normal" /\ input' = Nothing
  /\ UNCHANGED <<tablevars, memories, sel, lim, frame>>

(* run_command, up to its first call.  Whatever mode it sets, handle_key    *)
(* goes back to Normal.                                                     *)
RunCommand ==
  /\ Pressed /\ mode = "Command"
  /\ calling' = CASE input.word \in {"list", "limit"} -> "list"
                  [] input.word = "delete" -> Deletes
                  [] OTHER -> "none"
  /\ lim' = IF input.word = "limit" THEN input.limit ELSE lim
  /\ mode' = "Normal" /\ input' = Nothing
  /\ UNCHANGED <<tablevars, memories, sel, frame>>

(* The rows W as the list shows them: one sequence, for no two rows are      *)
(* equally old.                                                             *)
NewestFirst(W) ==
  {s \in Ext!SetToSeqs(W) : \A j, k \in DOMAIN s : j < k => OlderRow(s[k], s[j])}

(* load.                                                                    *)

List ==
  /\ calling = "list"
  /\ calling' = "none"
  /\ \/ /\ lim <= MaxPageSize
        /\ \E W \in Pages(InScope(NoFilter), lim) : memories' \in NewestFirst(W)
     \/ UNCHANGED memories              \* it fails, as every limit above does
  /\ UNCHANGED <<tablevars, sel, mode, input, lim, frame, drawn>>

(* The answer of a search may be any rows, best first.                      *)
Find ==
  /\ calling = "search"
  /\ calling' = "none"
  /\ \/ /\ lim <= MaxPageSize
        /\ \E W \in SUBSET InScope(NoFilter) :
             Cardinality(W) <= lim /\ memories' \in Ext!SetToSeqs(W)
     \/ UNCHANGED memories
  /\ UNCHANGED <<tablevars, sel, mode, input, lim, frame, drawn>>

(* add_memory: a new row, an old one updated by the LLM, or nothing.        *)
Add ==
  /\ calling = "add"
  /\ calling' = "list"
  /\ \/ \E i \in Ids, t \in Instants, tag \in Tags : SaveRow(i, t, tag)
     \/ UNCHANGED tablevars
  /\ UNCHANGED <<memories, sel, mode, input, lim, frame, drawn>>

Delete_Reloaded ==
  /\ calling = "delete"
  /\ calling' = "list"
  /\ \E now \in NewestFirst(InScope(NoFilter)) :
       IF sel \in DOMAIN now THEN DeleteRow(now[sel]) ELSE UNCHANGED tablevars
  /\ UNCHANGED <<memories, sel, mode, input, lim, frame, drawn>>

(* delete_memory; it fails when another process was faster.                 *)
Delete ==
  /\ calling = "delete"
  /\ calling' = "list"
  /\ DeleteRow(memories[sel]) \/ UNCHANGED tablevars
  /\ UNCHANGED <<memories, sel, mode, input, lim, frame, drawn>>

AppStep ==
  \/ Draw \/ Quit \/ PressDelete \/ Escape \/ Submit \/ RunCommand
  \/ \E m \in {"Search", "Add", "Command"} : Enter(m)
  \/ \E d \in {-1, 1} : Scroll(d)
  \/ \E w \in Words : Type(w)
  \/ List \/ Find \/ Add \/ Delete

AppSpec ==
  RowsInit /\ AppInit /\ [][AppStep \/ (OtherWrite /\ UNCHANGED appvars)]_<<tablevars, appvars>>

------------------------------------------------------------------------------
(* No delete of the terminal removes a memory that the screen showed as one  *)
(* among others: if a row was highlighted when the key was pressed, it is    *)
(* the memory of that row that goes, and if the cursor was below the screen *)
(* (tui.rs:355 draws a List that does not scroll) it is none of those shown. *)
(* This holds whatever others wrote since the list was read, however often  *)
(* it was reloaded into a shorter one, and also when the reload after an    *)
(* earlier delete failed.                                                   *)
NoOtherShownDeleted ==
  [][calling = "delete" /\ calling' = "list" =>
       \A i \in Ids : rows[i] # NoRow /\ rows'[i] = NoRow =>
         IF frame.sel \in DOMAIN frame.memories
         THEN i = frame.memories[frame.sel]
         ELSE \A k \in DOMAIN frame.memories : i # frame.memories[k]]_<<tablevars, appvars>>
=============================================================================
