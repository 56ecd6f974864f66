----------------------------- MODULE SetupAnswers -----------------------------
(***************************************************************************)
(* What all presenters of the setup wizard share: the steps, the answers,   *)
(* the file and the provider rows that the answers become.                  *)
(***************************************************************************)
EXTENDS ConfigLayers, Sequences

CONSTANTS
  Catalog,       \* LOCAL_MODELS: their dimensions, by their ids
  DefaultModel   \* DEFAULT_MODEL_ID

ASSUME CatalogAssumption ==
  DefaultModel \in DOMAIN Catalog /\ DefaultModel # "" /\ \A m \in DOMAIN Catalog : Catalog[m] \in Dims

SETUP_STEPS ==
  <<"DeviceCheck", "StorageBackend", "StoragePath", "EmbedderBackend", "LocalModel",
    "EmbedderConfig", "ExtractionMode", "LlmConfig", "AdminEmail", "AdminPassword",
    "AdminConfirm", "BindAddr", "Port", "ApiKeyLabel">>

(* SetupAnswers::default.                                                   *)
Default ==
  [store |-> "libsql", libsqlPath |-> DefaultPath, databaseUrl |-> "",
   embBackend |-> "local", embUrl |-> DefaultUrl, embKey |-> "", embModel |-> DefaultModel,
   mode |-> "raw", llmUrl |-> DefaultUrl, llmKey |-> "", llmModel |-> "gpt-4",
   email |-> "", password |-> "", bindAddr |-> DefaultBind, port |-> DefaultPort,
   label |-> "default"]

(* Whether a step is asked after the answers a.                             *)
StepActive(step, a) ==
  CASE step = "LocalModel" -> a.embBackend = "local"
    [] step = "EmbedderConfig" -> a.embBackend = "remote"
    [] step = "LlmConfig" -> a.mode = "llm"
    [] OTHER -> TRUE

ActiveSteps(a) == {k \in DOMAIN SETUP_STEPS : StepActive(SETUP_STEPS[k], a)}

(* The answers that a step asks for.                                        *)
FieldsOf(step, a) ==
  CASE step = "DeviceCheck" -> <<>>
    [] step = "StorageBackend" -> <<"store">>
    [] step = "StoragePath" -> IF a.store = "libsql" THEN <<"libsqlPath">> ELSE <<"databaseUrl">>
    [] step = "EmbedderBackend" -> <<"embBackend">>
    [] step = "LocalModel" -> <<"embModel">>
    [] step = "EmbedderConfig" -> <<"embUrl", "embKey", "embModel">>
    [] step = "ExtractionMode" -> <<"mode">>
    [] step = "LlmConfig" -> <<"llmUrl", "llmKey", "llmModel">>
    [] step = "AdminEmail" -> <<"email">>
    [] step = "AdminPassword" -> <<"password">>
    [] step = "AdminConfirm" -> <<"confirm">>
    [] step = "BindAddr" -> <<"bindAddr">>
    [] step = "Port" -> <<"port">>
    [] step = "ApiKeyLabel" -> <<"label">>

AskedFields(a) ==
  UNION {{FieldsOf(SETUP_STEPS[k], a)[j] : j \in DOMAIN FieldsOf(SETUP_STEPS[k], a)} : k \in ActiveSteps(a)}

(* preseed: the fields the file has, over the defaults.                     *)
Preseed_ForgetsKeys(file) ==
  [f \in DOMAIN Default |->
     CASE f \notin Fields \ {"embKey", "llmKey"} -> Default[f]
       [] f = "store" -> IF file[f] \in Stores THEN file[f] ELSE Default[f]
       [] OTHER -> IF file[f] # Unset THEN file[f] ELSE Default[f]]

Preseed(file) ==
  [f \in DOMAIN Default |->
     CASE f \notin Fields -> Default[f]
       [] f = "store" -> IF file[f] \in Stores THEN file[f] ELSE Default[f]
       [] f \in Fields \ {"store"} -> IF file[f] # Unset THEN file[f] ELSE Default[f]]

(* effective_embedding_dimension: what was probed, or the catalog's.        *)
EffectiveDim(a, probed) ==
  CASE probed # Unset -> probed
    [] probed = Unset /\ a.embBackend = "local" /\ a.embModel \in DOMAIN Catalog -> Catalog[a.embModel]
    [] OTHER -> Unset

(* config_file_from_answers: raw mode writes no LLM, and what is empty is   *)
(* left out where the file allows it.                                       *)
FileOf(a, probed) ==
  [f \in Fields |->
     CASE f = "dim" -> EffectiveDim(a, probed)
       [] f \in {"llmUrl", "llmKey", "llmModel"} /\ a.mode = "raw" -> Unset
       [] f \in {"libsqlPath", "databaseUrl", "llmKey", "embUrl", "embKey"} /\ a[f] = "" -> Unset
       [] OTHER -> a[f]]

OrUnset(x) == IF x = "" THEN Unset ELSE x

(* provider_configs_from_answers.                                           *)
LlmOf(a) ==
  IF a.mode = "raw" THEN [backend |-> "remote", url |-> "", key |-> Unset, model |-> ""]
  ELSE [backend |-> "remote", url |-> a.llmUrl, key |-> OrUnset(a.llmKey), model |-> a.llmModel]

EmbedderOf(a) ==
  [backend |-> IF a.embBackend \in Backends THEN Backend(a.embBackend) ELSE "remote",
   url |-> a.embUrl, key |-> OrUnset(a.embKey), model |-> a.embModel]

(* persist_provider_config: raw mode leaves the LLM row as it is.           *)
Persisted(old, a) ==
  [llm |-> IF a.mode = "raw" THEN old.llm ELSE Normalize(LlmOf(a)),
   embedder |-> Normalize(EmbedderOf(a)),
   mode |-> IF a.mode \in Modes THEN a.mode ELSE "llm"]

(* storage_config: where finalize creates the account.                      *)
StorageOf(a) ==
  [backend |-> a.store, at |-> IF a.store = "postgres" THEN a.databaseUrl ELSE a.libsqlPath]

(* create_admin_account accepts them.                                       *)
ValidAccount(email, password, confirm, strong) ==
  email # "" /\ password \in strong /\ password = confirm
=============================================================================
