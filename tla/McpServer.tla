------------------------------ MODULE McpServer -------------------------------
(***************************************************************************)
(* `memayu mcp`: JSON-RPC lines from stdin, one at a time, the tools they   *)
(* call, and the lines written to stdout.  The backend is the service in    *)
(* this process or a server behind HTTP; what it does with its rows is left *)
(* to MemoryService, here it is whether a write took effect and what was    *)
(* heard of it.                                                             *)
(***************************************************************************)
EXTENDS Naturals, Sequences, FiniteSets

CONSTANTS
  ReqIds,       \* ids of requests
  NoId,         \* a line without an id, or whose id is null
  Batches,      \* the `memories` a client adds in one call, as sequences of
                \*   "text" and "blank"
  MaxLines      \* bound: lines a client writes

ASSUME McpAssumption ==
  /\ NoId \notin ReqIds
  /\ Batches \subseteq Seq({"text", "blank"})
  /\ MaxLines \in Nat

(* What a line is.  A call is one of a tool that writes or reads, of         *)
(* list_memories with a limit of zero, of add_memory with a batch, or one   *)
(* that fails before the backend is asked: no or wrong params, an unknown   *)
(* tool, a missing argument, empty content.                                 *)
Methods == {"initialize", "notifications/initialized", "tools/list", "unknown"}
Tools == {"invalid", "write", "read", "list 0"}
AnyId == ReqIds \cup {NoId}

JsonRpcRequest ==
       [method : Methods, id : AnyId, tool : {""}, items : {<<>>}]
  \cup [method : {"tools/call"}, id : AnyId, tool : Tools, items : {<<>>}]
  \cup [method : {"tools/call"}, id : AnyId, tool : {"batch"}, items : Batches]
(* A line that cannot be read is one that is not UTF-8, or an error of the   *)
(* pipe.                                                                    *)
Line == JsonRpcRequest
  \cup [method : {"blank line", "not JSON", "unreadable"}, id : {NoId}, tool : {""}, items : {<<>>}]

VARIABLES
  sent,         \* the lines written to stdin
  read,         \* how many of them the loop took
  cloud,        \* the backend is a server behind HTTP
  raw,          \* the service behind it stores what it is given, without the LLM
  initialized,
  at,           \* "loop", or the call under way: "tool" or "batch"
  item,         \* of the batch under way: the item that is next,
  added,        \*   how many were added,
  failed,       \*   and which failed
  applied,      \* history variable: the items of this call that were written
  out,          \* the lines written to stdout
  alive

mcpvars == <<sent, read, cloud, raw, initialized, at, item, added, failed, applied, out, alive>>

McpInit ==
  /\ sent = <<>> /\ read = 0
  /\ cloud \in BOOLEAN /\ raw \in BOOLEAN
  /\ initialized = FALSE
  /\ at = "loop"
  /\ item = 1 /\ added = 0 /\ failed = {} /\ applied = {}
  /\ out = <<>>
  /\ alive = TRUE

Current == sent[read]

(* A response to line n; `error` says which member it has.  What the tools   *)
(* count is its text.                                                       *)
Reply_ErrorsWithoutId(n, error, a, f, w) ==
  out' = Append(out, [line |-> n, id |-> IF error THEN NoId ELSE sent[n].id, error |-> error,
                      added |-> a, failed |-> f, applied |-> w])
Reply(n, error, a, f, w) ==
  out' = Append(out, [line |-> n, id |-> sent[n].id, error |-> error,
                      added |-> a, failed |-> f, applied |-> w])

(* The client writes a line.                                                *)
Send(l) ==
  /\ Len(sent) < MaxLines
  /\ sent' = Append(sent, l)
  /\ UNCHANGED <<read, cloud, raw, initialized, at, item, added, failed, applied, out, alive>>

(* The loop takes a line.                                                   *)
TakeAny ==
  /\ alive /\ at = "loop" /\ read < Len(sent)
  /\ sent[read + 1].method # "unreadable"
  /\ read' = read + 1
  /\ UNCHANGED <<sent, cloud, raw>>

Break_OnGarbage ==
  /\ alive /\ at = "loop" /\ read < Len(sent)
  /\ sent[read + 1].method \in {"unreadable", "not JSON"}
  /\ read' = read + 1
  /\ alive' = FALSE
  /\ UNCHANGED <<sent, cloud, raw, initialized, at, item, added, failed, applied, out>>

(* It ends at a line that cannot be read, and the process with it.          *)
Break ==
  /\ alive /\ at = "loop" /\ read < Len(sent)
  /\ sent[read + 1].method = "unreadable"
  /\ read' = read + 1
  /\ alive' = FALSE
  /\ UNCHANGED <<sent, cloud, raw, initialized, at, item, added, failed, applied, out>>

Answered(l) == l.method \notin {"blank line", "unreadable", "notifications/initialized"}

(* Blank lines and, once initialized, the notification that says so are     *)
(* passed over; what needs no tool is answered.                             *)
Take ==
  /\ TakeAny
  /\ LET l == sent[read + 1] IN
     /\ l.method = "tools/call" => ~initialized \/ l.tool = "invalid"
     /\ initialized' = (initialized \/ l.method = "initialize")
     /\ IF l.method = "blank line" \/ (initialized /\ ~Answered(l)) THEN UNCHANGED out
        ELSE Reply(read + 1,
                   \/ l.method \notin {"initialize", "tools/list"}
                   \/ ~initialized /\ l.method # "initialize", 0, {}, {})
  /\ UNCHANGED <<at, item, added, failed, applied, alive>>

(* tools::dispatch.                                                         *)
Dispatch ==
  /\ TakeAny
  /\ initialized
  /\ sent[read + 1].method = "tools/call" /\ sent[read + 1].tool # "invalid"
  /\ at' = IF sent[read + 1].tool = "batch" THEN "batch" ELSE "tool"
  /\ item' = 1 /\ added' = 0 /\ failed' = {} /\ applied' = {}
  /\ UNCHANGED <<initialized, out, alive>>

(* A write of the backend takes effect and says so, or it fails, which may   *)
(* be after it took effect: the answer of the server is lost or late, or    *)
(* the row is stored and its index is not.  And it may succeed without      *)
(* effect: a memory that is not there is deleted, or one is added that      *)
(* without the LLM is found to be stored already.                           *)
WriteOutcome == [done : BOOLEAN, ok : BOOLEAN]

AddOutcome == {w \in WriteOutcome : w.ok => w.done \/ raw}

(* A tool but for a batch; what it writes counts as its item 1.             *)
CallTool ==
  /\ alive /\ at = "tool"
  /\ at' = "loop"
  /\ \/ /\ Current.tool = "write"
        /\ \E w \in WriteOutcome :
             /\ applied' = IF w.done THEN {1} ELSE {}
             /\ Reply(read, ~w.ok, 0, {}, applied')
     \/ /\ Current.tool # "write"
        /\ \E error \in BOOLEAN : Reply(read, error, 0, {}, {})
        /\ UNCHANGED applied
  /\ UNCHANGED <<sent, read, cloud, raw, initialized, item, added, failed, alive>>

(* In this process a list of no rows panics, and the loop with it.          *)
Panic ==
  /\ alive /\ at = "tool"
  /\ Current.tool = "list 0" /\ ~cloud
  /\ alive' = FALSE
  /\ UNCHANGED <<sent, read, cloud, raw, initialized, at, item, added, failed, applied, out>>

AddItem_Aborts ==
  /\ alive /\ at = "batch" /\ item <= Len(Current.items)
  /\ \E w \in AddOutcome :
       /\ Current.items[item] = "blank" => ~w.done /\ ~w.ok
       /\ added' = IF w.ok THEN added + 1 ELSE added
       /\ failed' = IF w.ok THEN failed ELSE failed \cup {item}
       /\ applied' = IF w.done THEN applied \cup {item} ELSE applied
       /\ IF w.ok THEN UNCHANGED <<at, out>>
          ELSE at' = "loop" /\ Reply(read, FALSE, added, failed', applied')
  /\ item' = item + 1
  /\ UNCHANGED <<sent, read, cloud, raw, initialized, alive>>

(* The next item of a batch; one without content never gets to the backend. *)
AddItem ==
  /\ alive /\ at = "batch" /\ item <= Len(Current.items)
  /\ \E w \in AddOutcome :
       /\ Current.items[item] = "blank" => ~w.done /\ ~w.ok
       /\ added' = IF w.ok THEN added + 1 ELSE added
       /\ failed' = IF w.ok THEN failed ELSE failed \cup {item}
       /\ applied' = IF w.done THEN applied \cup {item} ELSE applied
  /\ item' = item + 1
  /\ UNCHANGED <<sent, read, cloud, raw, initialized, at, out, alive>>

(* The summary.                                                             *)
EndBatch ==
  /\ alive /\ at = "batch" /\ item > Len(Current.items)
  /\ at' = "loop"
  /\ Reply(read, FALSE, added, failed, applied)
  /\ UNCHANGED <<sent, read, cloud, raw, initialized, item, added, failed, applied, alive>>

McpStep == Take \/ Break \/ Dispatch \/ CallTool \/ Panic \/ AddItem \/ EndBatch

McpNext == McpStep \/ \E l \in Line : Send(l)

McpSpec == McpInit /\ [][McpNext]_mcpvars

------------------------------------------------------------------------------
(* A line whose turn is over.                                               *)
Over(n) == n < read \/ (n = read /\ at = "loop")

(* Responses come in the order of the lines, at most one to a line and with *)
(* its id, and every request that has one is answered, unless its method is *)
(* that of the notification.                                                *)
RepliesInOrder ==
  /\ \A j, k \in DOMAIN out : j < k => out[j].line < out[k].line
  /\ \A k \in DOMAIN out : out[k].id = sent[out[k].line].id /\ Over(out[k].line)
  /\ \A n \in 1 .. read :
       Over(n) /\ Answered(sent[n]) /\ sent[n].id # NoId => \E k \in DOMAIN out : out[k].line = n

(* No tool runs before the handshake.  The summary of a batch accounts for   *)
(* each of its items: it is counted as added or named as failed, what has no *)
(* content fails and is not written, and with the LLM all that did not fail *)
(* is written; without it an item that is counted as added may have been a  *)
(* near duplicate of which nothing was stored.  What failed may be written  *)
(* all the same.                                                            *)
BatchAccounted ==
  \A k \in DOMAIN out :
    LET l == sent[out[k].line]
        given == DOMAIN l.items
        blank == {m \in given : l.items[m] = "blank"}
    IN
    /\ out[k].applied # {} =>
         /\ l.tool \in {"write", "batch"}
         /\ \E n \in 1 .. out[k].line - 1 : sent[n].method = "initialize"
    /\ l.tool = "batch" /\ ~out[k].error =>
         /\ out[k].added + Cardinality(out[k].failed) = Len(l.items)
         /\ blank \subseteq out[k].failed /\ out[k].failed \subseteq given
         /\ out[k].applied \subseteq given \ blank
         /\ raw \/ given \ out[k].failed \subseteq out[k].applied

(* The server catches up with the lines it is sent, also with those that are *)
(* not JSON or come before the handshake, whatever fails.  The loop ends    *)
(* before that in two ways only: it takes a line that cannot be read, or it *)
(* dies of a list of no rows in this process.  For a call of the backend    *)
(* returns: the HTTP client has a timeout, and the service answers.         *)
CatchesUp ==
  read < Len(sent) ~>
    \/ read = Len(sent) /\ at = "loop"
    \/ ~alive /\ (Current.method = "unreadable" \/ (Current.tool = "list 0" /\ ~cloud))
=============================================================================
