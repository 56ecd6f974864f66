--------------------------- MODULE ProviderConfig ----------------------------
(***************************************************************************)
(* Where the provider settings live and how they travel: the config file,   *)
(* the rows of provider_config and runtime_settings, and in the process of  *)
(* `memayu serve` two ConfigRegistry values, one that build_web_service     *)
(* gives the service and one that cmd_serve gives the REST and dashboard    *)
(* handlers.  Settings are written by boot seeding, by the setup wizards    *)
(* and by the dashboard and the REST API, one SQL statement at a time.      *)
(***************************************************************************)
EXTENDS Naturals, Sequences

CONSTANTS
  Tasks,        \* writers that may run at once
  Boot,         \* the task that boot seeding is
  Urls,         \* base URLs (a model name goes the way of the URL)
  Keys,         \* API keys
  Files,        \* the settings a config file that loads may hold
  Jobs,         \* the saves the users ask for
  NoConfig,     \* no row, no settings
  MaxSaves      \* bound: saves begun by users

Provider == {"llm", "embedder"}
Mode == {"llm", "raw"}

Config == [backend : {"remote", "local"}, url : Urls \cup {""}, key : Keys \cup {""}]
Settings == [llm : Config, embedder : Config, mode : Mode]
Registry == [Provider -> Config \cup {NoConfig}]

(* A save.  kind: the dashboard form ("web"), POST /api/providers ("api"),  *)
(* boot seeding ("seed"), the web wizard ("setup") or the CLI and TUI ones   *)
(* ("wizard").  keep: what the form leaves to be filled in, a masked key, no *)
(* backend, an empty URL.  mode "" is none given, "other" is a string the    *)
(* REST API stores unread.                                                   *)
Job == [kind : {"web", "api", "seed", "setup", "wizard"},
        llm : Config \cup {NoConfig}, embedder : Config \cup {NoConfig},
        mode : Mode \cup {"", "other"}, keep : SUBSET {"key", "backend", "url"}]

ASSUME ConfigAssumption ==
  /\ Boot \notin Tasks
  /\ NoConfig \notin Config \cup Settings \cup Job
  /\ "" \notin Urls /\ "" \notin Keys
  /\ Files \subseteq {s \in Settings : s.llm.backend = "remote"}  \* Config::merge
  /\ Jobs \subseteq Job
  /\ \A j \in Jobs : "key" \in j.keep => j.kind = "web"  \* no other frontend masks keys
  /\ \A j \in Jobs : j.kind = "web" => NoConfig \in {j.llm, j.embedder}  \* one card a form
  /\ MaxSaves \in Nat

VARIABLES
  (* Persistent. *)
  file,         \* the config file, NoConfig when there is none that loads
  admin,        \* is there an account?
  table,        \* provider_config: provider -> row or NoConfig
  modeRow,      \* extraction_mode in runtime_settings, "" if there is none
  (* The server. *)
  server,       \* what it is doing, see ServerState
  conf,         \* the settings it loaded from the file when it started
  used,         \* the registry its MemoryService calls the providers with
  usedMode,     \* the extraction mode its MemoryService was built with
  live,         \* the registry its handlers read and write
  (* The writers. *)
  task,         \* writer -> the save it is in and the steps left of it
  (* History variables. *)
  agree,        \* providers whose last save through the handlers ran alone
  saves         \* how many saves the users have begun

tables == <<table, modeRow>>
process == <<server, conf, used, usedMode, live>>
vars == <<file, admin, tables, process, task, agree, saves>>

Writers == Tasks \cup {Boot}
ServerState == {"down", "setup", "check", "seed", "mode", "build", "registry", "serving"}
Steps == {"admin", "key", "fill", "row", "set", "mode"} \X (Provider \cup {""})

(* solo: nobody else has written a row since this save began.               *)
Idle == [job |-> NoConfig, todo |-> <<>>, solo |-> FALSE]
Off == [p \in Provider |-> NoConfig]

TypeOK ==
  /\ file \in Files \cup {NoConfig}
  /\ admin \in BOOLEAN
  /\ table \in Registry
  /\ modeRow \in Mode \cup {"", "other"}
  /\ server \in ServerState
  /\ conf \in Files \cup {NoConfig}
  /\ used \in Registry /\ usedMode \in Mode \cup {""}
  /\ live \in Registry
  /\ task \in [Writers -> [job : Job \cup {NoConfig}, todo : Seq(Steps), solo : BOOLEAN]]
  /\ agree \in SUBSET Provider
  /\ saves \in 0 .. MaxSaves

Init ==
  /\ file \in Files \cup {NoConfig}
  /\ admin = FALSE
  /\ table = Off /\ modeRow = ""
  /\ server = "down" /\ conf = NoConfig
  /\ used = Off /\ usedMode = "" /\ live = Off
  /\ task = [w \in Writers |-> Idle]
  /\ agree = {} /\ saves = 0

------------------------------------------------------------------------------
(* Pure helpers.                                                            *)

Normalize(c) == IF c.backend = "local" THEN [c EXCEPT !.url = "", !.key = ""] ELSE c

(* What upsert_provider_config stores; the row of the LLM is always remote. *)
RowOf(p, c) ==
  IF p = "embedder" THEN Normalize(c) ELSE [backend |-> "remote", url |-> c.url, key |-> c.key]

RegistryOf_Verbatim(p, c) == c

(* What the handlers put into the registry.                                 *)
RegistryOf(p, c) == IF p = "embedder" THEN Normalize(c) ELSE c

(* load_registry: the rows there are, else the file's.                      *)
Loaded(p) == IF table[p] = NoConfig THEN conf[p] ELSE table[p]

LoadedMode_Default == IF modeRow \in Mode THEN modeRow ELSE "llm"

(* load_extraction_mode: a value that does not parse counts as none.        *)
LoadedMode == IF modeRow \in Mode THEN modeRow ELSE conf.mode

Save(kind, s) ==
  [kind |-> kind, llm |-> s.llm, embedder |-> s.embedder, mode |-> s.mode, keep |-> {}]

(* The steps of a save, in the order of the code.                           *)
SaveOf(j, p) == IF j[p] = NoConfig THEN <<>> ELSE <<<<"row", p>>, <<"set", p>>>>
ModeOf(j) == IF j.mode = "" THEN <<>> ELSE <<<<"mode", "">>>>

(* persist_provider_config: raw mode has no row for the LLM.                *)
PersistOf(j) ==
  (IF j.mode = "raw" THEN <<>> ELSE <<<<"row", "llm">>>>)
    \o <<<<"row", "embedder">>, <<"mode", "">>>>

Plan(j) ==
  CASE j.kind = "seed" -> PersistOf(j)
    [] j.kind \in {"setup", "wizard"} -> <<<<"admin", "">>>> \o PersistOf(j)
    [] j.kind = "api" -> SaveOf(j, "llm") \o SaveOf(j, "embedder") \o ModeOf(j)
    [] j.kind = "web" /\ j.llm # NoConfig ->
         ModeOf(j) \o <<<<"key", "llm">>, <<"fill", "llm">>>> \o SaveOf(j, "llm")
    [] j.kind = "web" /\ j.embedder # NoConfig ->
         <<<<"key", "embedder">>, <<"fill", "embedder">>>> \o SaveOf(j, "embedder")
    [] OTHER -> ModeOf(j)

------------------------------------------------------------------------------
(* The steps of a save.                                                     *)

Started(j) == [job |-> j, todo |-> Plan(j), solo |-> TRUE]
At(w, what) == task[w].todo # <<>> /\ Head(task[w].todo)[1] = what
Aim(w) == Head(task[w].todo)[2]

(* w's task after its step, with j for its job.                             *)
Advanced(w, j) ==
  IF Len(task[w].todo) = 1 THEN Idle
  ELSE [job |-> j, todo |-> Tail(task[w].todo), solo |-> task[w].solo]
Advance(w) == task' = [task EXCEPT ![w] = Advanced(w, @.job)]

(* A request arrives at the server, or a wizard has asked its questions.    *)
(* finalize writes the config file first; post_setup writes none.           *)
BeginSave(w, j) ==
  /\ w \in Tasks /\ task[w] = Idle
  /\ CASE j.kind = "wizard" -> TRUE
       [] j.kind = "setup" -> server \in {"setup", "serving"}
       [] OTHER -> server = "serving"
  /\ task' = [task EXCEPT ![w] = Started(j)]
  /\ saves < MaxSaves /\ saves' = saves + 1
  /\ file' = IF j.kind = "wizard"
               THEN [llm |-> j.llm, embedder |-> j.embedder, mode |-> j.mode] ELSE file
  /\ UNCHANGED <<admin, tables, process, agree>>

(* The wizard finds the account or makes it; the web one makes it or stops. *)
MakeAdmin(w) ==
  /\ At(w, "admin")
  /\ IF task[w].job.kind = "setup" /\ admin
       THEN task' = [task EXCEPT ![w] = Idle]
       ELSE Advance(w)
  /\ admin' = TRUE
  /\ UNCHANGED <<file, tables, process, agree, saves>>

ReadKey_FromRegistry(w) ==
  LET p == Aim(w)
      j == task[w].job
  IN /\ At(w, "key")
     /\ task' = [task EXCEPT ![w] =
          Advanced(w, [j EXCEPT ![p].key = IF "key" \in j.keep THEN used[p].key ELSE @])]
     /\ UNCHANGED <<file, admin, tables, process, agree, saves>>

(* A masked key stands for the one in the row; if the row cannot be read,   *)
(* it is saved as no key, and kept no longer.                               *)
ReadKey(w) ==
  LET p == Aim(w)
      j == task[w].job
      stored == IF table[p] = NoConfig THEN "" ELSE table[p].key
      lost == [j EXCEPT !.keep = @ \ {"key"}]
      keyed == {[j EXCEPT ![p].key = stored], [lost EXCEPT ![p].key = ""]}
  IN /\ At(w, "key")
     /\ \E k \in IF "key" \in j.keep THEN keyed ELSE {j} :
          task' = [task EXCEPT ![w] = Advanced(w, k)]
     /\ UNCHANGED <<file, admin, tables, process, agree, saves>>

(* The registry fills in the backend of the embedder and the URL of the LLM. *)
(* The probe of the embedder that follows decides only the message.         *)
Fill(w) ==
  LET p == Aim(w)
      j == task[w].job
      fills(what, of) == what \in j.keep /\ p = of
      backed == [j EXCEPT ![p].backend = IF fills("backend", "embedder") THEN live[p].backend ELSE @]
  IN /\ At(w, "fill")
     /\ task' = [task EXCEPT ![w] =
          Advanced(w, [backed EXCEPT ![p].url = IF fills("url", "llm") THEN live[p].url ELSE @])]
     /\ UNCHANGED <<file, admin, tables, process, agree, saves>>

(* upsert_provider_config                                                   *)
WriteRow(w) ==
  LET p == Aim(w) IN
  /\ At(w, "row")
  /\ table' = [table EXCEPT ![p] = RowOf(p, task[w].job[p])]
  /\ task' = [x \in Writers |->
                IF x = w THEN Advanced(w, task[w].job) ELSE [task[x] EXCEPT !.solo = FALSE]]
  /\ agree' = agree \ {p}
  /\ UNCHANGED <<file, admin, modeRow, process, saves>>

(* set_llm, set_embedder                                                    *)
SetRegistry(w) ==
  LET p == Aim(w) IN
  /\ At(w, "set")
  /\ live' = [live EXCEPT ![p] = RegistryOf(p, task[w].job[p])]
  /\ agree' = IF task[w].solo THEN agree \cup {p} ELSE agree \ {p}
  /\ Advance(w)
  /\ UNCHANGED <<file, admin, tables, server, conf, used, usedMode, saves>>

(* set_extraction_mode                                                      *)
WriteMode(w) ==
  /\ At(w, "mode")
  /\ modeRow' = task[w].job.mode
  /\ Advance(w)
  /\ UNCHANGED <<file, admin, table, process, agree, saves>>

(* The write fails or its process dies (a wizard; a handler whose client    *)
(* went away): the rest of the save is not done.                            *)
Abandon(w) ==
  /\ w \in Tasks /\ task[w] # Idle
  /\ task' = [task EXCEPT ![w] = Idle]
  /\ UNCHANGED <<file, admin, tables, process, agree, saves>>

------------------------------------------------------------------------------
(* The server.                                                              *)

(* Without a config that loads, only the setup page is served.              *)
Start ==
  /\ server = "down"
  /\ server' = IF file = NoConfig THEN "setup" ELSE "check"
  /\ conf' = file
  /\ UNCHANGED <<file, admin, tables, used, usedMode, live, task, agree, saves>>

CheckTable_LlmRow ==
  /\ server = "check"
  /\ IF table["llm"] # NoConfig
       THEN server' = "mode" /\ UNCHANGED task
       ELSE server' = "seed" /\ task' = [task EXCEPT ![Boot] = Started(Save("seed", conf))]
  /\ UNCHANGED <<file, admin, tables, conf, used, usedMode, live, agree, saves>>

(* ensure_provider_config looks for rows; a valid file seeds an empty table. *)
CheckTable ==
  /\ server = "check"
  /\ IF \E p \in Provider : table[p] # NoConfig
       THEN server' = "mode" /\ UNCHANGED task
       ELSE server' = "seed" /\ task' = [task EXCEPT ![Boot] = Started(Save("seed", conf))]
  /\ UNCHANGED <<file, admin, tables, conf, used, usedMode, live, agree, saves>>

Seeded ==
  /\ server = "seed" /\ task[Boot] = Idle
  /\ server' = "mode"
  /\ UNCHANGED <<file, admin, tables, conf, used, usedMode, live, task, agree, saves>>

ReadMode ==
  /\ server = "mode"
  /\ usedMode' = LoadedMode
  /\ server' = "build"
  /\ UNCHANGED <<file, admin, tables, conf, used, live, task, agree, saves>>

(* build_web_service loads the registry of the service ...                  *)
BuildService ==
  /\ server = "build"
  /\ used' = [p \in Provider |-> Loaded(p)]
  /\ server' = "registry"
  /\ UNCHANGED <<file, admin, tables, conf, usedMode, live, task, agree, saves>>

(* ... and cmd_serve another one for the handlers.                          *)
LoadRegistry ==
  /\ server = "registry"
  /\ live' = [p \in Provider |-> Loaded(p)]
  /\ agree' = {p \in Provider : table[p] # NoConfig}
  /\ server' = "serving"
  /\ UNCHANGED <<file, admin, tables, conf, used, usedMode, task, saves>>

(* The server dies or is stopped, its handlers with it.                     *)
Halt ==
  /\ server # "down"
  /\ server' = "down" /\ conf' = NoConfig
  /\ used' = Off /\ usedMode' = "" /\ live' = Off /\ agree' = {}
  /\ task' = [w \in Writers |->
                IF task[w] # Idle /\ task[w].job.kind = "wizard" THEN task[w] ELSE Idle]
  /\ UNCHANGED <<file, admin, tables, saves>>

SaveStep(w) ==
  \/ MakeAdmin(w) \/ ReadKey(w) \/ Fill(w) \/ WriteRow(w) \/ SetRegistry(w)
  \/ WriteMode(w) \/ Abandon(w)

Next ==
  \/ \E w \in Tasks, j \in Jobs : BeginSave(w, j)
  \/ \E w \in Writers : SaveStep(w)
  \/ Start \/ CheckTable \/ Seeded \/ ReadMode \/ BuildService \/ LoadRegistry \/ Halt

Spec == Init /\ [][Next]_vars

------------------------------------------------------------------------------
(* Properties.                                                              *)

(* What the handlers show is what is stored: after a save that ran with no  *)
(* other beside it, and until someone writes the row again.                 *)
SettledRegistryMatches ==
  \A p \in agree : /\ table[p].url = live[p].url /\ table[p].key = live[p].key
                   /\ p = "embedder" => table[p].backend = live[p].backend

(* As long as nobody saves settings, a server runs with those of its config *)
(* file, in both its registries, however often a boot died while seeding.   *)
BootRunsFile ==
  saves = 0 /\ server = "serving" =>
    /\ usedMode = file.mode
    /\ \A p \in Provider : /\ Normalize(used[p]) = Normalize(file[p])
                           /\ Normalize(live[p]) = Normalize(file[p])

(* A form saved with its key masked leaves the stored key as it is, unless  *)
(* it makes the embedder local, someone else saves meanwhile, or the row     *)
(* could not be read (ReadKey takes "key" out of keep).                     *)
MaskedKeyKept ==
  [][\A w \in Tasks, p \in Provider :
       /\ task[w] # Idle /\ Head(task[w].todo) = <<"row", p>> /\ task'[w].todo # task[w].todo
       /\ task[w].solo /\ "key" \in task[w].job.keep
       /\ table[p] # NoConfig /\ table'[p].backend # "local"
       => table'[p].key = table[p].key]_vars

(* "Non-empty table: the DB is authoritative; nothing is overwritten": as    *)
(* long as nobody else has written a row since it looked, boot seeding       *)
(* leaves each row there is as it was, whichever rows a boot that died left. *)
SeedingOverwritesNothing ==
  [][At(Boot, "row") /\ task[Boot].solo /\ task'[Boot].todo # task[Boot].todo =>
       \A p \in Provider : table[p] # NoConfig => table'[p] = table[p]]_vars

(* "Written on dashboard save, read per call": once a save is through, the  *)
(* service's provider calls use it.                                         *)
SavedIsUsed ==
  server = "serving" /\ (\A w \in Writers : task[w] = Idle) =>
    \A p \in agree : used[p] = live[p]

(* "restart the server after setup to start the full dashboard": a restart  *)
(* after a setup that wrote all its settings does not end on the setup page. *)
SetUp == admin /\ table["embedder"] # NoConfig /\ modeRow # ""
RestartServes == [][server = "down" /\ server' = "setup" => ~SetUp]_vars
=============================================================================
