# Memayu in TLA+

A verification project for Memayu, a self-hosted memory service for AI agents: TLA+ modules
translated from the Rust sources, TLC runs that check them on small instances, and TLAPS proofs
for all instances. Source paths below are relative to `src/`; `core`, `libsql` and so on stand for
the crates `crates/memayu-core`, `crates/memayu-storage-libsql` and so on.

## 1. The system

A memory is a row of the table `memories`: id, user, content, embedding, metadata, timestamps. A
full-text index over the content stands beside it. Frontends (REST API, MCP server, web dashboard,
CLI, TUI) call `MemoryService`, which calls three ports: a storage provider (libsql or Postgres), an
embedder and an LLM. Processes do not talk to each other: what they share is the database and the
config file.

| Component | State | Operations | What is hard | What makes it correct |
|---|---|---|---|---|
| Memory service (`core/src/service.rs`) | none between calls; in a call: vector, candidates, target, row | add (LLM or raw extraction), update, delete, get | a call awaits the embedder and the LLM between reading and writing; calls overlap | a call changes the table at most once, as its request allows; owners never change; no near duplicates in raw mode |
| libsql storage (`libsql/src/provider.rs`) | `memories`, `memories_fts` | upsert, delete, vector search, full-text search, list | two to three autocommitted statements per write | the index says what the table says |
| Postgres storage (`postgres/src/provider.rs`) | `memories` with a generated `content_tsv` | the same | approximate vector index | the same |
| Opening a store (`libsql/src/schema.rs`, `postgres/src/schema.rs`) | table, column dimension, vector index, full-text index | create, check the dimension, migrate, backfill, change the dimension | every process opens the store by itself, also while others write, and may die half way | rows fit the column; an open store stays as it was checked; no row stays out of the index |
| Listing (`core/src/pagination.rs`, `list_memories` of both stores) | none; the cursor carries the position | count, page | rows come, go and return between pages; dates tie | each row that stays is listed once, walks end |
| Hybrid search (`core/src/fusion.rs`) | none | vector search, full-text search, fusion | the table changes between the two statements; ranks tie | one hit per memory, in an order both lists agree with |
| Provider configuration (`api/src/modules/providers`, `web/src/pages/providers.rs`) | `provider_config`, `runtime_settings`, config file, registries in memory | boot seeding, dashboard and API saves, wizards | the same setting lives in four places, written one after the other | what is shown is stored, what is stored is used, keys survive masked forms |
| Configuration file (`memayu-config`) | `config.toml`, environment | load, load the infrastructure alone, report issues | two functions read the same layers | they agree; setup's answers come back out of the file |
| Setup (`memayu-setup`, `bin/memayu/src/wizard.rs`, `tui_setup.rs`, `web/src/pages/setup.rs`) | answers, history of steps, device report, fields on the screen | ask, go back, probe, finalize | presenters, branches left and taken again, failures in the middle of `finalize` | every step asked, a finished setup leads to a working server, a rerun starts from the last answers |
| Identity (`memayu-identity`) | `users`, owner of memories | setup, login, user resolution, backfill of placeholder users | check-then-insert, two processes, backfill next to calls in flight | one admin; every session, key, memory and frontend is of that account |
| Sessions and API keys (`api/src/modules/auth`, `api_keys`, `web/src/pages/api_keys.rs`) | `sessions`, `api_keys`, the keys page and its dialog | login, logout, password and email change, reset; generate, resolve, touch, delete | every request is several statements, between which others change what it checked | what was answered stands; what was revoked stays out; only the confirmed key is deleted |
| Rate limiter (`api/src/transport/rate_limiter.rs`) | a window of instants per key | check | the time is read before the lock is taken | never more than the maximum in a window; waiting as told is enough |
| Dashboard list (`web/src/pages/home.rs`) | a stack of cursors in the browser, the list, the loads under way | next, previous, swap | the stack changes at the click, the list when the answer comes | the list is the page on top of the stack |
| TUI (`bin/memayu/src/tui.rs`) | list, cursor, mode, input, limit | keys and commands | the list is as old as its last load and may be longer than the screen | of what is shown only what is highlighted is deleted |
| MCP server (`memayu-mcp`) | handshake, the call under way | JSON-RPC lines, tools, batches | bad lines, lines that cannot be read, failing items, lost answers, adds that store nothing | replies in order, every item accounted for |
| LLM and embedding clients (`llm-client`) | none | embed, extract, with retries and timeouts | failures, timeouts | a call ends |
| REST routes, CLI, doctor, health, request log | none that the core depends on | decode, call, encode | | |

`PROJECT.json` lists every component with its status and, under `hazards`, every place in the code
where something can go wrong that a test would hardly reach, with the properties that would notice.

## 2. Modules

| Module | Models |
|---|---|
| `StorageTables` | the two tables both backends keep, the dimension check, vector search and the near-duplicate relation |
| `LibsqlStore`, `PostgresStore` | the SQL statements that write, one operator per statement |
| `MemoryService` | calls of add, update and delete over either store, one action per await |
| `OverlappingAdds` | `MemoryService` with a record of which rows each write was checked against |
| `AtomicStore` | what the service promises about the table: the abstract specification |
| `StoreOpen` | several processes that open, create, migrate, use and leave a store |
| `SharedRows` | the rows as readers see them, the order of the pages, and anyone who writes |
| `Listing` | a client that lists page by page |
| `HybridSearch` | a search of two statements and the fusion of their rankings |
| `DashboardPager` | the list of the home page, its stack of cursors and the loads of htmx |
| `TerminalApp` | the terminal interface, key by key |
| `McpServer` | the JSON-RPC loop, its handshake, its tools and batches |
| `ProviderConfig` | the provider settings: config file, rows, the two registries of `serve`, the four kinds of writer |
| `ConfigLayers` | what a process makes of file and environment |
| `SetupAnswers` | the steps and answers all presenters share, the file and rows they become |
| `SetupWizard` | one session of a presenter, and `finalize` |
| `RateLimiter` | requests of the REST API and the login page on their way through `check` |
| `Accounts` | users, sessions, API keys and whom the memories belong to, under setup, login, frontends that start, and calls |
| `Credentials` | what lets a request in: address and password, sessions, API keys; the keys page |
| `MC_MemoryService`, `MC_ServiceCalls`, `MC_StoreOpen`, `MC_ProviderConfig`, `MC_SetupWizard`, `MC_Requests`, `MC_Accounts`, `MC_Frontends` | instances for TLC |
| `MemoryService_proofs`, `StoreOpen_proofs`, `SetupWizard_proofs`, `ProviderConfig_proofs`, `Accounts_proofs` | proofs about the module of that name |
| `Reading_proofs` | proofs about `Listing` and `HybridSearch` |
| `Requests_proofs` | proofs about `RateLimiter` and `Credentials` |
| `Frontends_proofs` | proofs about `DashboardPager`, `TerminalApp` and `McpServer` |

How they fit together: `MemoryService` is built on the statements of `LibsqlStore` or
`PostgresStore`, which share `StorageTables`; `MemoryService_proofs` shows that it implements
`AtomicStore`. The readers (`Listing`, `HybridSearch`, `DashboardPager`, `TerminalApp`) share
`SharedRows`, whose `OtherWrite` is whatever `MemoryService` of another process does to a row.
`SetupWizard` is built on `SetupAnswers`, and that on `ConfigLayers`. `MC_Frontends`, `MC_Requests`
and `MC_ServiceCalls` check several specifications that share constants in one run, one of them in
each behaviour.

A definition named `X_Something` just before `X` is a faulty variant of `X`, the way a plausible bug
would change it. No specification uses them; `PROJECT.json` pairs each with the property that
notices when it takes the place of `X`.

### MemoryService

A task is one call of a frontend. `pc` is the await it is suspended at, and every other variable of
a task is a local of the Rust function: `vec` (the embedding), `cands` (the rows `search_memory` or
`get_memory` returned), `target` and `mem` (the row about to be saved).

| Action | Code |
|---|---|
| `Begin` | the handler calls the service; the id of a patch or delete is one the client once learned |
| `Get` | `get_memory` in `update_memory`, with its `NotFound` return |
| `Embed` | `embedder.embed`; a vector is the text and the dimension the model returned |
| `Search` | `storage.search_memory` with its dimension check |
| `ExtractAdd`, `ExtractUpdate` | `llm.extract` and what `add_memory_llm` does with its decision: any text and any id, which must be among the candidates |
| `Ingest` | `ingest_raw`: the near-duplicate test and the new row |
| `Upsert`, `FtsClear`, `FtsInsert` | the three statements of `save_memory` (libsql), or the one of Postgres |
| `DelRow`, `FtsDelete` | the statements of `delete_memory` |
| `Reply`, `Fails`, `Abort` | the answer; an error from any statement or provider; a process that dies, or a handler dropped because its client went away |

What is abstracted: a text is a model value, a vector is the text it came from, cosine similarity
above the threshold is the relation `Near`, and timestamps are left out. On Postgres the hnsw index
may miss rows, so a search returns any subset of the user's rows. The LLM is a free choice. A batch
add is a sequence of adds. `res` is the answer; `creator`, `solo` and `settled` are history
variables that the program does not have. `SequentialSpec` is the specification for one call after
the other, which the plain claim about deduplication (`NoNearDuplicates`) needs.

`OverlappingAdds` adds two history variables beside every step and changes none. `seen` is the set of ids
whose rows are still as the exact search of a raw add on libsql saw them; whoever stores a row takes it
out of the sets of the others. `unchecked` collects, at the step that stores a row, the pair with each id
that the writer had not seen so: for a patch, an LLM decision or an add on Postgres, whose search is
approximate, these are all of them.

### StoreOpen

A process starts (`Start`), runs the statements of `LibsqlProvider::open` (`ReadTable`,
`CreateTable`, `CreateAnn`, `ReadFts`, `SwapFts`, `CreateFts`, `Backfill`) or of
`PostgresProvider::connect` (`Migrate`, `ReadColumn`, `AlterColumn`, `DropAnn`, `RecreateAnn`), then
saves and deletes (`SaveRow`, `DeleteRow`, `Reindex`), and stops or dies anywhere (`Stop`). Its
configured dimension is any value: the configuration names one, or names none and the stored one is
read, which may change later. The initial states are a store nobody has opened and those an older
version may have left: rows with no full-text index, or with one without stemming. SQLite DDL
statements commit one by one and fail when another process was faster; the migration of an
unstemmed index is one transaction, its backfill another statement.

Here writes of one id do not overlap: that is the subject of `MemoryService`.

### Listing and HybridSearch

Both read `rows`, of which only the creation date and the metadata are left, for these are what
readers order and filter by. `OtherWrite` saves or deletes any row between any two statements. A
memory keeps its creation date for good (`born`): an upsert leaves it alone, and a late update that
restores a deleted row carries the date it read. `Stamp` is what the store compares of a date: the
instant on Postgres, its `julianday()` on libsql, in which neighbouring instants may coincide.

In `Listing`, a client starts a walk with a filter (`Start`), asks for a page (`Ask`, which refuses
limits above `MAX_PAGE_SIZE`), and the server counts (`CountTotal`) and selects (`SelectPage`). The
row more that the code fetches to learn whether there is another page is the test `W # S`. `Fail` is
an error of either statement, after which the client asks again. `seen`, `stayed` and `quiet` are
history variables.

In `HybridSearch`, `VectorLeg` and `TextLeg` each return a ranking of rows in scope; which rows and in
which order is free, as the words and an approximate index decide. `Fuse` is reciprocal rank fusion
with exact fractions (the code adds doubles and casts the sum to a 32-bit float before it sorts, so it
may tie what the model tells apart), ties in any order, since the code sorts what comes out
of a `HashMap`.

### DashboardPager, TerminalApp and McpServer

`DashboardPager` is the script of `home.rs`: `ClickNext` and `ClickPrev` change the stack and ask htmx
for a list; htmx has one load under way and keeps one more (`loads`); `Arrive` swaps the list in and
runs `update`. `late` says that the element a waiting load was aimed at is gone.

`TerminalApp` has one action per key and one per call the key leads to (`List`, `Find`, `Add`,
`Delete`), because the loop awaits the call before it draws again. `Draw` puts into `frame` what the
user sees, and deletion is about that frame: the first rows of the list, as many as fit on a screen
that may be resized from one frame to the next (`ScreenRows`). The list is drawn without an offset
(`tui.rs:355-362`), so the cursor, which goes around the whole list, may be on a row that is not drawn.

`McpServer` takes one line at a time: `Take` for those that need no tool, `Dispatch` for those that do,
then `CallTool`, or `AddItem` per item and `EndBatch`. A write takes effect or not, and succeeds or
fails, in every combination (`WriteOutcome`): the answer of a remote API is lost, an index statement
fails after the row was stored, a memory that is not there is deleted. An add that succeeds has stored,
but in raw mode (`raw`), which answers with a near duplicate and stores nothing (`AddOutcome`,
`service.rs:188-193`). `failed` and `applied` are the items that failed and those that were written.
`Break` is the end of the loop at a line that cannot be read (`transport.rs:22`: not UTF-8, or an error
of the pipe), `Panic` the local listing of limit zero. That stdin is closed ends the loop as well, with
nothing left to read, and is not modelled.

### ProviderConfig

A save is a job with the list of steps it still has to take, in the order of the code (`Plan`): key
lookup, filling of blanks from the registry, row, registry, mode. The writers are dashboard forms,
`POST /api/providers`, the wizards (`finalize`, `post_setup`) and boot seeding. The server goes
through the steps of `cmd_serve`: seed an empty table, read the mode, build the service with one
registry, load another one for the handlers. Without a config file that loads it serves only the
setup page. A model name goes the way of the URL and is not modelled apart from it; validity of a
config is `Files`, the set of settings that `Config::load` accepts. The embedding probe of a save
decides only the wording of the answer. `keep` is what a form leaves to be filled in; a masked key
whose row cannot be read is saved as no key (`ReadKey`).

`todo` lists are cut off by `Abandon` at every point, so every prefix of every save is explored.

### ConfigLayers, SetupAnswers and SetupWizard

A file and an environment map each field to a text or to `Unset`. `Loaded`, `Refuses` and `Issues` are
`Config::merge` and `check`; `Infrastructure` is `load_infrastructure`, which has code of its own for the
same layers. `Layered`, `NonEmpty` and `Parsed` are the three ways in which a variable goes before a
field. Texts are told apart by membership: `Urls` start with `http://` or `https://`, `Ports` are a
`u16`, `Dims` a dimension. Parsing TOML is outside.

`SetupAnswers` has `SETUP_STEPS`, `StepActive`, `preseed`, `config_file_from_answers` (`FileOf`),
`provider_configs_from_answers` (`LlmOf`, `EmbedderOf`) and `persist_provider_config` (`Persisted`).

`SetupWizard` is one session of one presenter:

| Action | Code |
|---|---|
| `CliStep` | one step of `wizard.rs`, all its prompts, up to the next step |
| `Edit`, `Move`, `NextField`, `Commit`, `Back`, `Cancel` | the keys of `tui_setup.rs`: edit a field, move among fields, `advance`, `commit`, Left, Esc |
| `Submit` | the form of the browser: `build_answers` and the refusals before it |
| `Probe`, `WriteFile`, `HaveAccount`, `MakeKey`, `Persist`, `Fail` | the statements of `finalize` (the browser takes the last three), each of which may fail |
| `Fill`, `Tab`, `Create` | the account form of `run_setup` |

The device report may change whenever its step is committed. `edits` counts the answers that differ
from the shown ones and is bounded by `MaxEdits`.

### RateLimiter

A request reads the clock (`ReadClock`) and then waits for the lock; what `check` does with the lock
held has no await and is one step, `Admit` or `Refuse`. So requests enter with instants that are out
of order, and the first entry of the `Vec` need not be the oldest. Time is counted in ticks, `Ticks`
of them a second, because `as_secs` rounds down. `Skew` bounds how long a request waits between the
clock and the lock: it is what both properties may be off by. An entry of the `Vec` is a record of
its place and its instant, so that two requests of one instant count twice. `admitted` and `due` are
history variables: every request let through, and when the clients refused since were told to come
back. The keys of the map are never dropped in the code, and neither are they here.

### Accounts

A task is a request of the dashboard or the API, or a frontend in a process of its own. `job[t].at`
is the statement it is about to run, the rest of the record its locals.

| Action | Code |
|---|---|
| `Start` | `post_setup` or `POST /api/auth/setup` (`web`), `finalize`, the starts of the TUI, the local MCP server and `serve` |
| `Resolve` | `resolve_self_hosted_account_id`: the oldest account, or none; the wizards then create one, MCP gives up, `serve` goes on |
| `Count`, `Insert` | the two statements of `setup` and of `create_admin_*`; `created_at` is taken between them, and a taken email fails the insert |
| `Find`, `CreateSession`, `Page`, `CreateKey` | what the dashboard does after the insert, and `finalize` from the key on |
| `Backfill` | `backfill_placeholder_memories` |
| `Login`, `Request` | a task that is let in, by its password, session or key |
| `Rename` | `change_email` |
| `EndSession`, `DeleteKey` | logout or expiry; `delete_key` |
| `AddMemory`, `CliAdd`, `DeleteMemory` | a memory of the task's account, one of the CLI's default user, a deleted row |
| `Read`, `Save` | a call that writes back a row with the user it read, however long ago |
| `Stop` | an error, the end of a frontend, or a process that dies |

Passwords are left out: here it only matters for whom a login or a change is let through, and
whether is the subject of `Credentials`. So are time (a session may expire at any moment) and the
placeholder ids, of which there is one. `clock` orders the `created_at` of accounts. `raced` is a
history variable: two setups were between their count and their insert at once.

### Credentials

Here there is one account, and the question is whether a request is let in. A request is a record of
the statement it is about to run and of what it presented.

| Action | Code |
|---|---|
| `LogIn`, `FindUser`, `OpenSession` | `login`: the lookup with the password check, and the session |
| `ChangeEmail`, `ChangePassword`, `CheckCurrent`, `EmailLetIn`, `Update`, `AnswerChange` | `change_email`, `change_password` |
| `ResetPassword` | `memayu reset-password` |
| `CallWithKey`, `FindKey`, `TouchKey` | `resolve_api_key` with `touch_api_key` |
| `CallWithCookie`, `ResolveSession`, `CloseSession` | the session middleware; logout and expiry |
| `Generate`, `DeleteById` | the key handlers of the API |
| `OpenPage`, `Choose`, `Type`, `CloseDialog`, `Confirm`, `DeleteChosen`, `ListKeys`, `Render` | the keys page: its dialog, with a key-up in its input (`Type`), and the deletion with the table that answers it |
| `Finish`, `Drop` | the end of a request; an error, or a client that leaves |

A hash with its salt is the password it was made from. `promised`, `revoked` and the fields `expect`,
`alone` and `late` of a request are history: what was answered, and what therefore must hold.

## 3. Runs

| Run | Properties | Instance |
|---|---|---|
| `service_calls` | `TypeOK`, `SettledIndexMatches`, `OwnerKept`, `DuplicatesUnchecked`, `ImplementsAtomicStore` | 2 tasks, 2 ids, 2 users, faults; libsql in LLM mode with 1 text and 2 dimensions, or Postgres in both modes with 2 texts, or raw adds of one user and deletes on libsql with 2 texts |
| `raw_sequential` | `NoNearDuplicates`, `QuietLockstep`, `SavedIsSearchable`, `Answered` | one call at a time, 3 ids, 2 users, 3 texts of which 2 are near duplicates, 2 dimensions, no faults, fair |
| `store_open` | `RowsFitColumn`, `OpenDimAgrees`, `ServingMeansReady`, `NoRowUnindexed` | 3 processes, 2 ids, 2 dimensions, both backends |
| `provider_config` | `SettledRegistryMatches`, `BootRunsFile`, `MaskedKeyKept`, `SeedingOverwritesNothing` | 2 writers and the boot, 3 saves out of 9 kinds, 2 config files or none |
| `setup_wizard` | `EveryStepAsked`, `LocalRunsHere`, `RestartFindsSetup`, `RerunStartsFromAnswers` | 4 presenters, 3 config files, 2 changed answers, 2 local models, environments of one variable |
| `requests` | `WindowBound`, `RetrySuffices`, `AnsweredChangesStand`, `RevokedStaysOut`, `DeletesConfirmed` | the limiter: 3 requests, 2 per window of 2 seconds of 3 ticks, `Skew` 1, 15 ticks; the credentials: 3 requests, 2 at a time, 2 addresses, 2 passwords, 1 session, 2 keys |
| `accounts` | `OneIdentity`, `IdentitySettles` | 3 tasks, 2 accounts, 2 emails, 1 session, 1 key, 1 memory, 2 setups that find no account |
| `frontends` | `NoneMissed`, `NoneRepeated`, `TotalAddsUp`, `WalkEnds`, `FusionRespectsRanks`, `AgreedFirst`, `HitsMatchFilter`, `PagerInStep`, `NoOtherShownDeleted`, `RepliesInOrder`, `BatchAccounted`, `CatchesUp` | 3 ids, 3 instants of which 2 coincide, 2 values of metadata, pages of 1, hits up to 3, `RRF_K` 1, a stack of 3, lists of 2 on screens of 1 or 2 rows and a limit that is too large, 3 lines, batches up to 3, with and without the LLM |
| `overlapping_writes` | violates `QuietLockstep` | 2 tasks on libsql, no faults |
| `saved_config_unused` | violates `SavedIsUsed` | 1 save |
| `setup_restart` | violates `RestartServes` | 1 web setup |
| `wizard_defaults` | violates `DefaultsArePresented` | no answer is changed |

Why the bounds are enough.

- `service_calls`, `raw_sequential`: the properties speak of one id or of two rows of one user, and a
  conflict needs two calls; a second id and user let a call reach a row it should not, and a second
  dimension lets the check of the store matter. Ids are used up by adds (`RoomForAdd` in the guard of
  `Begin`), which bounds the runs; deletes and patches go on for ever. `SearchLimit` 1 instead of 5
  makes the cut of the candidate list matter with few rows. `kind` in `MC_ServiceCalls` chooses at the
  start what a behaviour is about and never changes: each kind has the calls that matter to it, and all
  of them together would be a product of what does not interact. Two raw adds of one text and one of
  another are enough for every way in which a search, a store and a delete can overlap.
- `store_open`: the third process serves while two others migrate.
- `provider_config`: `MaxSaves` bounds the saves, and three are one to set a provider, one to change it
  and one that overlaps; every job kind, key source and file occurs.
- `setup_wizard`: `MaxEdits` 2 lets the user choose a branch and change something on it, or leave it
  again; the history of steps is bounded by the steps. One variable of the environment is enough to
  tell the two loaders apart field by field, since no field depends on two but the path on the backend.
- `requests`: the keys of the limiter never meet, so one is enough; 15 ticks are two windows and a
  half, in which entries leave, are refused and return; three requests overtake each other, and three
  ticks to the second make the rounding of the answer matter. Of the credentials, two requests at once
  are one change and whatever overlaps it; `alone` marks the changes that two of a column overlap. A
  behaviour changes the password and the address, or lets keys come and go: the two share no variable.
- `accounts`: two setups race while a third task resolves, backfills or holds a row it read;
  `MaxSetups` bounds the setups that find no account, and two are enough for a second account. A second
  session, key or memory would be independent of the first.
- `frontends`: with three memories a walk has a first, a middle and a last page while a row comes, goes
  or returns on either side of the cursor; `Stamp` is half the instant, so that dates are equal, equal
  for the store only, and different. `RRF_K` 1 instead of 60 makes the clause of `AgreedFirst` on the
  limit matter at limits of 2 and 3. `MaxHistory` and `MaxLines` bound the pager's stack and the lines
  sent. A list without cursor needs no dates and an unfiltered one no metadata (`Undated`, `Untagged`),
  and a search whose limit is 1 merges nothing; the proofs of section 4 have no such restriction.

Symmetry is used for ids, tasks, users, accounts, emails, keys and processes, in runs without liveness
only.

Deadlock is checked but where the program may really stop: `frontends` (a dead MCP server, a terminal
that was quit) and `setup_wizard` (a finished setup) switch it off.

Properties worth reading first:

- `ImplementsAtomicStore`: whatever overlaps, fails or dies, the table changes at most once per call,
  before its answer, as its request allows.
- `SettledIndexMatches`: the strongest claim about the libsql index that is true. `QuietLockstep`,
  which the code's comment claims, is not (`overlapping_writes`).
- `DuplicatesUnchecked`: near duplicates come only of writes that had not seen each other's row.
  `NoNearDuplicates` is what is left of it for raw adds one after the other.
- `NoRowUnindexed`: neither the migration nor a concurrent writer loses an entry, unless a process
  dies between the two (`torn`).
- `BootRunsFile`: a boot that died while seeding leaves a table that is not empty, which the next
  boot does not complete; the fallbacks of `load_registry` and `load_extraction_mode` still make it
  run the settings of the file.
- `SeedingOverwritesNothing`: seeding looks for rows once and writes in later statements; only a row that
  somebody writes in between can be lost to it, whatever an earlier boot left behind.
- `RestartFindsSetup`: what setup wrote into the file, the rows and the accounts is what a server reads
  out of them again, by three functions that nothing keeps in step.
- `OneIdentity`: sessions, keys, memories, values read long ago and running frontends are all of one
  account, unless two setups overlapped (`raced`). `IdentitySettles` holds even then.
- `AnsweredChangesStand`: an answered change of the password or the address stays in force whatever was
  in flight with it, logins included.
- `NoneMissed`, `NoneRepeated`, `WalkEnds`: keyset pagination among writers.
- `NoOtherShownDeleted`: no reload, failed or not, and no shrinking list makes the terminal delete a
  memory that is on the screen but for the one highlighted there. What it deletes with the cursor
  below the screen is highlighted nowhere, and is none of those shown.
- `BatchAccounted`: a summary tells for each item whether it was added or failed, and with the LLM
  whatever it counts as added is stored.

### What the violations show

- `overlapping_writes`: two successful writes of one id can leave duplicate, stale or orphaned
  entries in `memories_fts`.
- `saved_config_unused`: `serve` has two registries; the dashboard writes the one nobody reads
  providers from.
- `setup_restart`: setup in the browser writes no config file, so the restarted server is
  setup-only again, and its setup page answers that setup is done.
- `wizard_defaults`: choosing the local embedder sets the default model even when it was local
  before. A user who runs the wizard again and accepts what it shows changes the model, and with it
  the dimension.

### Divergences without a run

Met while modelling, and part of the models; no line of the repository promises otherwise plainly
enough to be refuted by a run.

- A listing with limit 0 panics when there is a row (`libsql/src/provider.rs:302`,
  `postgres/src/provider.rs:338`). Search refuses 0; the list handler and `list_memories` of MCP do
  not, and a local MCP server dies of it. `WalkEnds` and `CatchesUp` name it as an exception.
- An update that waits for its embedding writes its row back after a delete, and reverts a metadata
  change made in between. `AtomicStore` allows it.
- Two raw adds of one text at once both find no duplicate and both store it: `ingest_raw` holds nothing
  over its search and its save. The documentation promises deduplication, not under concurrency;
  `DuplicatesUnchecked` says that this is the only way for raw adds on libsql.
- A wizard that writes its rows while a first boot is seeding may lose them to the older file
  (`SeedingOverwritesNothing` leaves out exactly this case).
- A death between the creation of the full-text index and its backfill leaves the old rows
  unindexed for good: the exception `torn` of `NoRowUnindexed`. Two setups that count before either
  inserts both succeed under different emails: the exception `raced` of `OneIdentity`.
- TUI: the list does not scroll (`tui.rs:355-362`). The cursor may be below the screen, at once when `k`
  at the top wraps around to the last row, and `d` then deletes a memory that is highlighted nowhere:
  `NoOtherShownDeleted` claims no more than that it is none of those shown.
- TUI: the commands `:search` and `:add` set a mode that the key handler resets at once
  (`tui.rs:132-137` and `296`); a list that shrinks leaves the cursor past its end; a limit above 100
  makes every load fail.
- MCP: `notifications/initialized` with an id is not answered; before the handshake even
  notifications get an error; a batch drops the metadata of its items, which its schema offers
  (`tools/add_memory.rs:30-33`). "Stored N memories" counts in raw mode also the near duplicates of
  which nothing was stored (`tools/add_memory.rs:69-70`, `service.rs:188-193`): what is counted is written
  only with the LLM, which is what `BatchAccounted` says. A line that is not UTF-8 ends the server
  (`transport.rs:22`), where one that is not JSON is answered: the other exception of `CatchesUp`.
- Keys page: the button looks at the input on a key-up only (`api_keys.rs:64`), so text pasted or cleared
  with the mouse leaves it as it was: `DeletesConfirmed` is about what the input held at the last key-up.
- Dashboard: a click while a load is under way, or a load that fails, leaves the stack out of step with
  the list (`home.rs:202-204`), which is why `PagerInStep` speaks of calm use.
- Setup: the browser's form does not look at the device, does not go through `SETUP_STEPS`, and ignores
  the store, bind address and port it asked for; the wizards accept URLs and models that `Config::load`
  then refuses (`Usable`); an emptied path makes setup open `""` and the server `./memayu.db`; `finalize`
  writes the file before it looks at password and label, and ignores the environment; raw mode keeps
  the LLM row of an earlier setup; an API key cannot be cleared at a prompt.
- A form saved with its key masked reads the row for it; if that read fails it stores no key and
  answers that it saved (`web/src/pages/providers.rs:344-352`, `unwrap_or_default`): the exception of
  `MaskedKeyKept`.
- Sessions survive a change or reset of the password, and a logout whose `DELETE` failed is answered
  as done.

### Fairness

- `SequentialSpec` of `MemoryService` (`raw_sequential`) assumes weak fairness of each task's steps:
  tokio polls every task that is ready, and the HTTP clients give up after a bounded number of tries
  with a timeout each, so a provider call ends. It assumes nothing of clients: `Begin` is not fair.
  `SavedIsSearchable` needs a run without faults, since a failed index statement is not retried; with
  faults only the safety properties are claimed.
- `WalkEnds` is about a client that goes on: weak fairness of `Follow`, its next request. Strong
  fairness of `CountTotal` and `SelectPage` says that not every try of a statement fails (`Fail` takes
  the request back, so weak fairness would not do). The writers are not restricted: they may write for
  ever.
- `CatchesUp` assumes weak fairness of `McpStep`: the loop runs while its process lives, and a tool
  returns because its HTTP client has a timeout and the service answers. It names the two ways in which
  the loop ends before it has caught up, `Break` and `Panic`, by the line that ended it.

## 4. Proofs

All theorems are checked by TLAPS without assumptions besides the `ASSUME`s of the modules:
`TablesAssumption`, `ServiceAssumption`, `OpenAssumption`, `LimiterAssumption`, `AccountsAssumption`,
`CredentialsAssumption`, `RowsAssumption`, `ListingAssumption`, `SearchAssumption`,
`RawAssumption`, `TerminalAssumption`, `McpAssumption`, `CatalogAssumption`, `WizardAssumption`, `TextAssumption` and
both `ConfigAssumption`s, of `ProviderConfig` and of `ConfigLayers`. They say that model values differ
from real ones, that the store's dimension is one of the dimensions, that each text is a near
duplicate of itself and the relation symmetric, that a search returns at least one row, that the limit, the window and the ticks of a second are not zero, that ids and
dates are ordered like numbers, that the default model is in the catalog, that what is unset is no
text, that a config file that loads has a remote LLM, that only forms of the dashboard mask a key,
and that such a form is about one provider. TLC evaluates them in every run.

| Theorem | States | Inductive invariant |
|---|---|---|
| `TypeCorrect`, `OwnerIsKept` | `TypeOK`, `OwnerKept` | `CallInv` |
| `SettledIndexIsExact` | `SettledIndexMatches` | `CallInv` with `IndexInv` |
| `PostgresIndexIsExact` | `QuietLockstep`, on Postgres | `SettledIndexMatches` with `PgInv` |
| `RawAddsDeduplicate` | `NoNearDuplicates`, under `RawAdds` | `CallInv` with `RawInv` |
| `DuplicatesAreUnchecked` | `DuplicatesUnchecked` | `CallInv` with `OverlapInv` |
| `CallsAreAtomic` | `ImplementsAtomicStore` | every step maps to a step of `AtomicStore` or a stutter, given `CallInv` |
| `DimIsUniform` | all stored vectors have the dimension of the store | `CallInv` |
| `CallsAdvance` | each step of a task lowers `StepsLeft`, nothing raises it | `CallInv` |
| `RowsFit`, `OpenCheckLasts`, `ServingIsReady` | `RowsFitColumn`, `OpenDimAgrees`, `ServingMeansReady` | `DimInv` |
| `CallsInTurnAreIndexed` | `QuietLockstep`, for calls one after the other that do not fail | `CallInv`, `IndexInv` and `TurnInv` |
| `RowsAreIndexed` | `NoRowUnindexed` | `DimInv` with `IndexInv` of `StoreOpen_proofs` |
| `WalkMissesNothing`, `WalkRepeatsNothing` | `NoneMissed`, `NoneRepeated` | `LInv` |
| `TotalIsThePages` | `TotalAddsUp` | `LInv` with `SumInv` |
| `WalkAdvances` | each page lowers `LeftToList` and the cursor, nothing raises it | `LInv` |
| `FusionKeepsRanks`, `AgreedComeFirst`, `HitsMatch` | `FusionRespectsRanks`, `AgreedFirst`, `HitsMatchFilter` | `HInv` |
| `PagerStaysInStep` | `PagerInStep` | `PagerInv` |
| `NoOtherShownIsDeleted` | `NoOtherShownDeleted` | `ScreenInv` |
| `RepliesKeepOrder`, `BatchesAddUp` | `RepliesInOrder`, `BatchAccounted` | `McpInv` |
| `LinesAdvance` | each step of the loop takes a line, lowers `StepsInLine` or is the last | `McpInv` |
| `ShownIsStored` | `SettledRegistryMatches` | `SaveInv` |
| `BootFollowsFile` | `BootRunsFile` | `BootInv` |
| `MaskedKeyStands` | `MaskedKeyKept` | `SaveInv` with `MaskInv` |
| `SeedingKeepsRows` | `SeedingOverwritesNothing` | `SaveInv` with `SeedInv` |
| `StepsAreAsked`, `LocalIsAble` | `EveryStepAsked`, `LocalRunsHere` | `WInv` |
| `AnswersComeBack`, `SetupIsFound` | `RerunStartsFromAnswers`, `RestartFindsSetup` | `WInv` with `VInv` |
| `ReadersAgree` | `Config::load` and `load_infrastructure` find the same storage, address and port | none: it is about two functions |
| `LimitHolds`, `RetryIsLongEnough` | `WindowBound`, `RetrySuffices` | `LimitInv` |
| `ChangesStand`, `LateStaysOut`, `TypedIsDeleted` | `AnsweredChangesStand`, `RevokedStaysOut`, `DeletesConfirmed` | `CredInv` |
| `OneAccount`, `ResolutionSettles` | `OneIdentity`, `IdentitySettles` | `AcctInv` |

`OwnerKept` is not inductive: a call writes back a row it read long ago. `CallInv` says what each
task carries at each await: the row in `mem` belongs to the creator of `target` (`WriteOK`), each
candidate belongs to the creator of its id and, in the add path, to the caller (`CandsOK`), and a
fresh id is in the hands of one task only (`OneCreator`).

`SettledIndexMatches` needs to know what a task in the middle of its statements has already done:
`IndexInv` says that a task that is alone on its id has the row in place and the index empty after
its first index statement (`SoloOK`), and that a settled id has no writer (`SettledOK`). On Postgres no
write has a second statement, so every id is settled all the time (`PgInv`): this is what its
generated column buys. On libsql the index is exact at rest as well, if calls come one after the
other and none fails: `TurnInv` says that whoever is between its statements has been alone since its
first, that every other id is settled, and that all are when nobody is.

`NoNearDuplicates` is true of one call after the other only, and of raw adds and deletes: a patch is
not checked for duplicates (`RawAdds` says so). The difficulty is that `ingest_raw` looks at
`SEARCH_LIMIT` rows, of which none need be the near duplicate. But the search is exact and returns the
nearest, so a near duplicate that was cut left its place to one as near (`SeenOK`), and an add that
goes on to save has none (`AloneOK`). So a limit of 1 would do.

`DuplicatesUnchecked` is the same claim with nothing forbidden: any calls, overlapping, failing and dying,
on either backend. What an add knows between its search and its save is now about the rows as it saw them:
if one of those it still sees so is a near duplicate, it has a candidate that is one (`LookedOK`), and an
add that is about to save has none among them (`FoundOK`). A row stored meanwhile leaves `seen`, and so
ends up in `unchecked`; a row deleted meanwhile cannot be a duplicate.

The refinement maps `memories` to `table` and the place of a task to its phase. The first statement
that writes the table is the point where a call takes effect; the index statements are stutters.

For `StoreOpen`, `DimInv` carries the checks of `open` forward: past `ReadTable` a libsql process
has the dimension of the table, since `CREATE TABLE` fails instead of keeping another one's table.
`IndexInv` says that a stored row without an entry is on the list of some process under way:
a backfill, or the two index statements of a save, whose id no other process writes.

For the readers, `LInv` says that what has been on a page was saved with a date that is not below
the cursor (`Passed`), and that what stayed is on a page or below the cursor (`Ahead`). It rests on two
lemmas: the order of the pages is a strict total order, which is where the id in the cursor is needed,
and a date never changes (`DatesLast`), even by a restoring update. `HInv` says that each list is what
its statement may have returned and the answer a merge of the two; the rest is the arithmetic of
fractions: what both lists rank before something else has the higher score, and with a limit of at
most `RRF_K + 1` even the sum of the last two ranks is more than a first rank alone. `SumInv`
says that as long as nobody writes, what was seen and what is below the cursor make up the scope, so at the end the pages hold as many
rows as was counted for the last of them.

The frontends are sequential programs that meet a table that changes. `PagerInv` has two parts:
`StackInv` says that only the bottom of the stack is the first page and that what follows the list
is older than where the list begins; `CalmInv` says that without an overtaking click or a failed load
the cursors of the stack grow older, the one load there may be is that of the page on top, and with
none the list is that page and the button says whether there is a page before it. `ScreenInv` says
that no memory is listed twice, that what is drawn is a part of the list the terminal holds (`Shows`),
and that a delete under way was asked for on the screen still to be seen. `McpInv` says that the responses are to lines that were read, in their order,
and that every line whose turn is over is answered (`OrderInv`), that a tool runs after the handshake
only (`CallInv`), and that the items of a batch looked at so far are added up (`BatchInv`): those that
failed and those that were added are all of them, the blank ones failed and were not written, and with
the LLM the others were.

For `ProviderConfig`, the `todo` list of a save is what has to be known at each step. `SaveInv` says
that such a list is a sequence of steps in which a registry is set only right after its row is written
(`Paired`), and that a save that was alone since has in the row what it is about to set (`SetOK`).
`BootInv` says that until the first save begins all there is comes from the file (`Untouched`): rows
that are there are the file's, the rest is empty, and whatever runs was read from one or the other.
`MaskInv` says that what is left of a save that still keeps a masked key is the end of the steps of a
form for one provider (`Ends`), and that from its read to its write it holds the key of the row. That is
true only of a save that nobody else's row came in between of, and whoever writes one clears `solo`.
`SeedInv` says that what is left of a seeding is one of the four ends of its plan (`LlmSeed`, `RawSeed`,
`LastSeed`, nothing) and that, as long as it is alone, the rows of that end are empty.

For `SetupWizard`, an answer may be taken back and changed after later steps were asked on its account.
`WInv` says that the steps behind the current one are at every moment those that the answers at hand
call for up to it (`PathInv`): a step changes only answers that decide about later steps, and a step
back takes off the steps it leaves. `EntryInv` and `DeviceInv` say what a screen may offer of local
embedding and what was answered of it; a device that is checked again has lost the later answers from
its path. `FileInv` says that the file is the answers'. `VInv` is about what they are: the answers and the
fields on the screen hold texts, as the steps behind make them (`ValuesInv`), and `finalize` has left
the account and the rows of these answers (`OutcomeInv`). So a file that is written gives the answers
back when it is read as the start of a rerun, through `FileOf` and `preseed`, and a server that
starts afterwards finds what `Config::load` and the rows have of them.

For `RateLimiter`, the bound speaks of all requests ever let through and the code only looks at its
window, which it prunes with the instant of whoever holds the lock. `LimitInv` says that what left
the window is a window's length old by the clock (`WindowOK`), so an interval that a new entry
falls into holds nothing but kept entries. `DueOK` says that after a refusal either the window has
room or one of its entries leaves by the time the client was told; `RetryCovers` is the arithmetic
of the answer, with its rounding and its minimum of a second. `WindowBound` ranges over
`0 .. Horizon` so that TLC can evaluate it; the invariant is proved for every instant.

For `Accounts`, `AcctInv` says that whatever refers to an account refers to a row of `users`
(`Known`), which nothing deletes, that a task has the locals its place needs (`PlaceOK`), and that
without overlapping setups a task about to insert is alone and finds no account (`RaceOK`). Most
actions change neither `users` nor `raced`: `TaskStep` and `TableStep` show the invariant for all of
them, and only `Count`, `Insert` and `Rename` need arguments of their own. An insert is the only
step that changes the oldest account, since a rename keeps `created_at`.

For `Credentials`, every request knows something that was true when it looked. `CredInv` says which of it
still counts: a change in flight means that nothing is promised of its column, and one that stays
alone has stored what it will promise (`ChangeOK`, `AloneInv`); a login is certain of its answer only
while what was promised is what it is checked against (`LoginOK`); a request that came after its
session or key was revoked has not passed the check yet, and cannot (`LateOK`); the key that a page
deletes has the label that was typed, because a label stays with its key for good (`DeleteOK`,
`PageInv`); what is promised is in the row of the account and what is revoked is in no row (`TableInv`).
Changes of one column are the hard case: whoever begins one takes back what was promised and
tells the others and every login (`alone`, `expect`).

Only model-checked: the liveness properties (`Answered`, `SavedIsSearchable`, `WalkEnds`, `CatchesUp`),
which are out of the prover's reach, since fairness speaks of `ENABLED`. What they rest on besides
fairness is proved, for three of them: a measure that every step towards the end lowers and none on the
way raises. A call has at most eight steps left and is never taken back (`CallsAdvance`: a retry would
break it, and `Search_Reembeds` is one that does); each page has memories that no page had before,
also while others write (`WalkAdvances`, for finitely many ids); a line has a step for each item of a batch
and one more, and lines that arrive do not lengthen it (`LinesAdvance`). That such a step is possible
until the end is reached is what only TLC shows. `SavedIsSearchable` is the fourth: an index statement
may fail, so it holds without faults only.

The runs that expect a violation refute their properties as stated; of these, `QuietLockstep` is a
theorem under the two conditions above.

## 5. Not modelled

- Text processing: prompts, the repair of malformed JSON, TOML, HTML, SQL and HTTP encodings, the
  cursor's base64. What is parsed is modelled by which texts are accepted.
- SQL itself: a statement is atomic and commits on its own unless the code opens a transaction.
- Numbers: embeddings, cosine similarity and its threshold (the relation `Near`), and the doubles of
  the fusion (exact fractions instead).
- The retry schedule of the clients: a call answers, fails or its process dies. `Fails` is the failure
  that is left after the last retry; that a provider which never answers runs into a timeout is assumed.
- Drawing, prompting and the rendering of pages; `doctor`, which only reads.
- The health report (two reads and a comparison) and the request log (one best-effort insert per
  request, whose error is dropped): no state of the core depends on either.
- Routing, CORS, response headers and DTO shapes: wiring.
- `bin/memayu/src/setup_flow.rs`, which has no caller.
