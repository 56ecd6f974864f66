----------------------------- MODULE SetupWizard ------------------------------
(***************************************************************************)
(* One session of a presenter of the wizard, and finalize.  The presenters: *)
(* "cli" asks step after step; "tui" does too, and goes back; "web" is one  *)
(* form; "account" is the terminal's own first-run form, for the account    *)
(* alone.  The other processes of a setup are in ProviderConfig and         *)
(* Accounts.                                                                *)
(***************************************************************************)
EXTENDS SetupAnswers, Integers

CONSTANTS
  Typed,          \* what a user may type into a field
  Strong,         \* the passwords that the rules accept
  ExistingFiles,  \* the configuration files there may be
  Environments,   \* those that the processes of this host are started in
  MaxEdits        \* bound: answers other than the shown ones, but for the account's

ASSUME WizardAssumption == MaxEdits \in Nat /\ NoFile \in ExistingFiles /\ "" \notin Strong

(* What is unset is no text.                                                *)
ASSUME TextAssumption ==
  /\ Unset # "postgres://localhost/memayu"
  /\ Unset \notin DOMAIN Catalog \cup Stores \cup Modes \cup {"local", "remote"}
  /\ \A f \in DOMAIN Default : Default[f] # Unset
  /\ \A f \in {"libsqlPath", "databaseUrl", "embUrl", "embKey", "embModel", "llmUrl", "llmKey",
               "llmModel", "email", "password", "confirm", "bindAddr", "port", "label"} :
       Unset \notin Typed[f]

VARIABLES
  presenter,  \* which of them this is
  phase,      \* "asking", the step of finalize that is next, or how it ended
  device,     \* the last device report: local embedding is supported
  answers,    \* SetupAnswers
  asked,      \* the steps asked for, by position, the one on the screen last
  entry,      \* what the fields on the screen hold, not yet committed
  field,      \* the focused one
  edits,      \* history variable: how many answers the user changed
  probed,     \* the dimension finalize probed
  file,       \* the configuration file
  accounts,   \* the stores that hold an admin account
  rows        \* the provider rows of the store at hand

wizardvars == <<presenter, phase, device, answers, asked, entry, field, edits, probed, file, accounts, rows>>

Screen == <<asked, entry, field>>
Outcome == <<probed, file, accounts, rows>>

NoRows == [llm |-> Unset, embedder |-> Unset, mode |-> Unset]

Step == SETUP_STEPS[asked[Len(asked)]]

(* The options a select offers.                                             *)
Options_Ungated(f) ==
  CASE f = "store" -> Stores
    [] f = "embBackend" -> {"local", "remote"}
    [] f = "embModel" -> DOMAIN Catalog
    [] f = "mode" -> Modes

Options(f) ==
  CASE f = "store" -> Stores
    [] f = "embBackend" -> IF device THEN {"local", "remote"} ELSE {"remote"}
    [] f = "embModel" -> DOMAIN Catalog
    [] f = "mode" -> Modes

IsSelect(step) == step \in {"StorageBackend", "EmbedderBackend", "LocalModel", "ExtractionMode"}

Selectable(step, f) == IF IsSelect(step) THEN Options(f) ELSE Typed[f]

(* The database that the command line proposes when there is none.          *)
LocalPostgres == "postgres://localhost/memayu"

(* What a field holds when its step comes up.                               *)
Shown(step, f, a) ==
  CASE f = "confirm" -> ""
    [] f = "embBackend" -> IF ~device \/ a[f] = "remote" THEN "remote" ELSE "local"
    [] f = "mode" -> IF a[f] = "raw" THEN "raw" ELSE "llm"
    [] step = "LocalModel" -> IF a[f] \in DOMAIN Catalog THEN a[f] ELSE DefaultModel
    [] f = "password" /\ presenter = "cli" -> ""
    [] f = "databaseUrl" /\ presenter = "cli" /\ a[f] = "" -> LocalPostgres
    [] OTHER -> a[f]

Show(k, a) ==
  LET step == SETUP_STEPS[k] IN
  /\ entry' = [j \in DOMAIN FieldsOf(step, a) |-> Shown(step, FieldsOf(step, a)[j], a)]
  /\ field' = 1

(* The setter of a field.                                                   *)
Stored(f, x) == IF f = "port" /\ x \notin Ports THEN DefaultPort ELSE x

(* The answers after a step: choosing local chooses the default model, too. *)
Committed(step, v) ==
  LET F == FieldsOf(step, answers)
      a == [f \in DOMAIN answers |->
              IF \E j \in DOMAIN F : F[j] = f
              THEN Stored(f, v[CHOOSE j \in DOMAIN F : F[j] = f])
              ELSE answers[f]] IN
  IF step = "EmbedderBackend" /\ a.embBackend = "local"
  THEN [a EXCEPT !.embModel = DefaultModel] ELSE a

Followers_Stale(k, a) == {j \in ActiveSteps(answers) : j > k}

Followers(k, a) == {j \in ActiveSteps(a) : j > k}

(* The next step that is asked after the answers a, or finalize.            *)
Proceed(a) ==
  LET next == Followers(asked[Len(asked)], a) IN
  IF next = {}
  THEN phase' = "probe" /\ entry' = <<>> /\ field' = 1 /\ UNCHANGED asked
  ELSE LET k == CHOOSE j \in next : \A i \in next : j <= i IN
       asked' = Append(asked, k) /\ Show(k, a) /\ UNCHANGED phase

WizardInit ==
  /\ presenter \in {"cli", "tui", "web", "account"}
  /\ phase = "asking"
  /\ device \in BOOLEAN
  /\ file \in ExistingFiles
  /\ presenter = "account" => ~Refuses(file, NoEnv)
  /\ answers = Preseed(file)
  /\ accounts \in SUBSET {LoadedStorage(file, NoEnv)}
  /\ presenter = "account" => accounts = {}
  /\ rows = NoRows
  /\ edits = 0 /\ probed = Unset /\ field = 1
  /\ asked = IF presenter \in {"cli", "tui"} THEN <<1>> ELSE <<>>
  /\ entry = IF presenter = "account" THEN <<"", "", "">> ELSE <<>>

Asking(p) == phase = "asking" /\ presenter = p

Counts(f) == f \notin {"email", "password", "confirm"}

(* One prompt after the other; an empty line is the default.  The password  *)
(* is asked for until it is confirmed.                                      *)
CliStep ==
  /\ Asking("cli")
  /\ LET F == FieldsOf(Step, answers) IN
     \E v \in [DOMAIN F -> UNION {Selectable(Step, F[j]) \cup {entry[j]} : j \in DOMAIN F}] :
       /\ \A j \in DOMAIN F : v[j] = entry[j] \/ v[j] \in Selectable(Step, F[j]) \ {""}
       /\ edits' = edits + Cardinality({j \in DOMAIN F : Counts(F[j]) /\ v[j] # entry[j]})
       /\ edits' <= MaxEdits
       /\ Step = "AdminConfirm" => v[1] = answers.password
       /\ answers' = Committed(Step, v)
       /\ Proceed(answers')
  /\ UNCHANGED <<presenter, device, Outcome>>

(* The keys that fill a text, or move a select, in one step.                *)
Edit ==
  /\ Asking("tui") /\ entry # <<>>
  /\ LET f == FieldsOf(Step, answers)[field] IN
     \E x \in Selectable(Step, f) \ {entry[field]} :
       /\ entry' = [entry EXCEPT ![field] = x]
       /\ edits' = edits + (IF Counts(f) THEN 1 ELSE 0)
       /\ edits' <= MaxEdits
  /\ UNCHANGED <<presenter, phase, device, answers, asked, field, Outcome>>

(* Up and down in a step of several texts.                                  *)
Move ==
  /\ Asking("tui") /\ Len(entry) > 1
  /\ \E d \in {-1, 1} : field' = ((field - 1 + d + Len(entry)) % Len(entry)) + 1
  /\ UNCHANGED <<presenter, phase, device, answers, asked, entry, edits, Outcome>>

(* advance, within the step.                                                *)
NextField ==
  /\ Asking("tui") /\ field < Len(entry)
  /\ field' = field + 1
  /\ UNCHANGED <<presenter, phase, device, answers, asked, entry, edits, Outcome>>

(* commit: the device is looked at once more, a wrong confirmation is       *)
(* cleared, and everything else goes on to the next step.                   *)
Commit ==
  /\ Asking("tui") /\ field >= Len(entry)
  /\ device' \in IF Step = "DeviceCheck" THEN BOOLEAN ELSE {device}
  /\ answers' = Committed(Step, entry)
  /\ IF Step = "AdminConfirm" /\ entry[1] # answers.password
     THEN entry' = <<"">> /\ UNCHANGED <<phase, asked, field>>
     ELSE Proceed(answers')
  /\ UNCHANGED <<presenter, edits, Outcome>>

(* Left: to the field before, or to the step before, whose fields show what *)
(* was committed; what the fields of this one hold is lost.                 *)
Back ==
  /\ Asking("tui")
  /\ IF field > 1
     THEN field' = field - 1 /\ UNCHANGED <<asked, entry>>
     ELSE /\ Len(asked) > 1
          /\ asked' = SubSeq(asked, 1, Len(asked) - 1)
          /\ Show(asked[Len(asked) - 1], answers)
  /\ UNCHANGED <<presenter, phase, device, answers, edits, Outcome>>

Cancel ==
  /\ phase = "asking" /\ presenter \in {"tui", "account"}
  /\ phase' = "cancelled"
  /\ UNCHANGED <<presenter, device, answers, Screen, edits, Outcome>>

(* The form of the browser.  It is filled in from the file, and build_answers *)
(* takes what it is sent over the defaults, unless it is empty or belongs to  *)
(* a step that is not asked.                                                  *)
FromForm(form) ==
  LET chosen == [Default EXCEPT !.store = form.store, !.embBackend = form.embBackend,
                                !.mode = form.mode] IN
  [f \in DOMAIN Default |->
     CASE f \in {"store", "embBackend", "mode", "email", "password"} -> form[f]
       [] f = "port" -> IF form[f] \in Ports THEN form[f] ELSE Default[f]
       [] f \in {"libsqlPath", "databaseUrl", "bindAddr", "label"} \cup AskedFields(chosen)
            /\ form[f] # "" /\ f # "port" -> form[f]
       [] OTHER -> Default[f]]

(* The server's own store, whatever the form says of stores.                *)
Target == IF presenter = "web" THEN Infrastructure(file, NoEnv).storage ELSE StorageOf(answers)

Submit ==
  /\ Asking("web")
  /\ Target \notin accounts              \* or the page says it is set up
  /\ \E S \in SUBSET {f \in DOMAIN Default : Counts(f)}, email \in Typed["email"],
        password \in Typed["password"], confirm \in Typed["confirm"] :
       /\ Cardinality(S) <= MaxEdits
       /\ password = confirm             \* or the form is shown again
       /\ \E x \in [S -> UNION {IF f \in {"store", "embBackend", "mode"}
                                THEN CASE f = "store" -> Stores
                                       [] f = "embBackend" -> {"local", "remote"}
                                       [] f = "mode" -> Modes
                                ELSE Typed[f] \cup (IF f = "embModel" THEN DOMAIN Catalog ELSE {}) :
                                f \in S}] :
            answers' = FromForm([f \in DOMAIN Default |->
                                   CASE f \in S -> x[f] [] f = "email" -> email
                                     [] f = "password" -> password [] OTHER -> answers[f]])
       /\ edits' = Cardinality(S)
  /\ phase' = "account"
  /\ UNCHANGED <<presenter, device, Screen, Outcome>>

------------------------------------------------------------------------------
(* finalize.  It may fail at each of its statements.                        *)
At(p) == phase = p /\ UNCHANGED <<presenter, device, answers, Screen, edits>>

Probe ==
  /\ At("probe")
  /\ probed' \in IF answers.embBackend = "local" THEN {Unset} ELSE Dims \cup {Unset}
  /\ phase' = "write"
  /\ UNCHANGED <<file, accounts, rows>>

WriteFile ==
  /\ At("write")
  /\ file' = FileOf(answers, probed)
  /\ phase' = "account"
  /\ UNCHANGED <<probed, accounts, rows>>

(* The account is resolved, or created; the browser's is always created.    *)
HaveAccount ==
  /\ At("account")
  /\ \/ presenter # "web" /\ Target \in accounts /\ UNCHANGED accounts
     \/ /\ Target \notin accounts
        /\ ValidAccount(answers.email, answers.password, answers.password, Strong)
        /\ accounts' = accounts \cup {Target}
  /\ phase' = "key"
  /\ UNCHANGED <<probed, file, rows>>

(* A label that is empty is refused; the browser goes on without a key.     *)
MakeKey ==
  /\ At("key")
  /\ answers.label # "" \/ presenter = "web"
  /\ phase' = "rows"
  /\ UNCHANGED Outcome

Persist ==
  /\ At("rows")
  /\ rows' = Persisted(rows, answers)
  /\ phase' = "done"
  /\ UNCHANGED <<probed, file, accounts>>

(* A statement fails, or its answers are refused.  The browser shows the    *)
(* form again.                                                              *)
Fail ==
  /\ phase \in {"write", "account", "key", "rows"}
  /\ phase' = IF presenter = "web" THEN "asking" ELSE "failed"
  /\ answers' = IF presenter = "web" THEN Default ELSE answers
  /\ edits' = IF presenter = "web" THEN 0 ELSE edits
  /\ UNCHANGED <<presenter, device, Screen, Outcome>>

------------------------------------------------------------------------------
(* tui_setup::run_setup: email, password and its confirmation, in any order. *)
FormFields == <<"email", "password", "confirm">>

Fill ==
  /\ Asking("account")
  /\ \E x \in Typed[FormFields[field]] : entry' = [entry EXCEPT ![field] = x]
  /\ UNCHANGED <<presenter, phase, device, answers, asked, field, edits, Outcome>>

Tab ==
  /\ Asking("account")
  /\ \E d \in {-1, 1} : field' = ((field - 1 + d + 3) % 3) + 1
  /\ UNCHANGED <<presenter, phase, device, answers, asked, entry, edits, Outcome>>

(* Enter on the last field; what is refused stays on the screen.            *)
Create ==
  /\ Asking("account") /\ field = 3
  /\ ValidAccount(entry[1], entry[2], entry[3], Strong)
  /\ accounts' = accounts \cup {LoadedStorage(file, NoEnv)}
  /\ phase' = "done"
  /\ UNCHANGED <<presenter, device, answers, Screen, edits, probed, file, rows>>

WizardNext ==
  \/ CliStep
  \/ Edit \/ Move \/ NextField \/ Commit \/ Back \/ Cancel
  \/ Submit
  \/ Probe \/ WriteFile \/ HaveAccount \/ MakeKey \/ Persist \/ Fail
  \/ Fill \/ Tab \/ Create

WizardSpec == WizardInit /\ [][WizardNext]_wizardvars

------------------------------------------------------------------------------
Terminal == presenter \in {"cli", "tui"}
Written == Terminal /\ phase \in {"account", "key", "rows", "done", "failed"}
Asked == Terminal /\ phase \notin {"asking", "cancelled"}

(* "No presenter can silently add or drop a step": when the terminal's       *)
(* wizards stop asking, they have asked exactly the steps that the answers   *)
(* call for, in order, however often the user went back and chose another    *)
(* branch.                                                                   *)
EveryStepAsked ==
  Asked => /\ {asked[j] : j \in DOMAIN asked} = ActiveSteps(answers)
           /\ \A i, j \in DOMAIN asked : i < j => asked[i] < asked[j]

(* A file that says the embedder is local was answered on a device that the  *)
(* last report found able, and names a model of the catalog with the         *)
(* dimension the catalog knows, so that the server opens its store without a *)
(* probe.                                                                    *)
LocalRunsHere ==
  Asked /\ answers.embBackend = "local" =>
    /\ device
    /\ answers.embModel \in DOMAIN Catalog
    /\ Written /\ phase # "failed" => file["dim"] = Catalog[file["embModel"]]

(* What config.toml can be loaded with.                                      *)
Usable(a) ==
  /\ a.mode = "llm" => a.llmUrl \in Urls /\ a.llmModel # ""
  /\ a.embBackend # "local" => a.embUrl \in Urls
  /\ a.embModel # ""

(* After the terminal's setup the server finds what setup left: the file      *)
(* loads unless a URL or a model is not one, names the store that has the     *)
(* account, and says of the providers and the mode what the rows say; and the *)
(* setup-only server reads the same store and address out of it, in every     *)
(* environment.  A path that was emptied is the exception: setup opens it,    *)
(* the server the default one.                                                *)
RestartFindsSetup ==
  Terminal /\ phase = "done" /\ StorageOf(answers).at # "" =>
    /\ Refuses(file, NoEnv) = ~Usable(answers)
    /\ ~Refuses(file, NoEnv) =>
         LET c == Loaded(file, NoEnv) IN
         /\ c.storage \in accounts
         /\ c.mode = rows.mode
         /\ Normalize(c.embedder) = rows.embedder
         /\ c.mode = "llm" => c.llm = rows.llm
         /\ Issues(c) = {}
    /\ \A env \in Environments :
         ~Refuses(file, env) /\ ~Cloud(env) =>
           Infrastructure(file, env) =
             [storage |-> Loaded(file, env).storage, bindAddr |-> Loaded(file, env).bindAddr,
              port |-> Loaded(file, env).port]

(* A wizard that is run again starts from the answers of this one: every     *)
(* answer that was asked for and is not empty is its default.                *)
RerunStartsFromAnswers ==
  Written /\ phase # "failed" =>
    \A f \in AskedFields(answers) \cap (Fields \ {"dim"}) :
      answers[f] # "" => Preseed(file)[f] = answers[f]

(* "so the wizard presents the current values as the default answers": as     *)
(* long as the user has changed nothing, each field shows the file's value;   *)
(* on a device that is able to run what the file says.                        *)
DefaultsArePresented ==
  Terminal /\ device /\ phase = "asking" /\ edits = 0 =>
    \A j \in DOMAIN entry :
      LET f == FieldsOf(Step, answers)[j] IN
      f \in Fields /\ file[f] # Unset => entry[j] = file[f]
=============================================================================
