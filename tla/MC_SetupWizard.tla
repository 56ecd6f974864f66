---- MODULE MC_SetupWizard ----
(***************************************************************************)
(* Two models of other dimensions, three files to start from, and the       *)
(* texts that the code tells apart.                                         *)
(***************************************************************************)
EXTENDS SetupWizard

TwoModels == [minilm |-> "384", nomic |-> "768"]

Texts ==
  [libsqlPath |-> {"", "data.db"}, databaseUrl |-> {"postgres://db"},
   embUrl |-> {"", "http://emb", "emb"}, embKey |-> {"", "sk"}, embModel |-> {"", "ada"},
   llmUrl |-> {"http://llm", "llm"}, llmKey |-> {"sk"}, llmModel |-> {"", "gpt"},
   email |-> {"me"}, password |-> {"Strong1", "weak"}, confirm |-> {"Strong1", "weak"},
   bindAddr |-> {"0.0.0.0"}, port |-> {"9090", "no"}, label |-> {"", "laptop"}]

RemoteFile ==
  [Preseed(NoFile) EXCEPT !.embBackend = "remote", !.embUrl = "http://emb", !.embModel = "ada", !.mode = "llm"]
LocalFile ==
  [Preseed(NoFile) EXCEPT !.embModel = "nomic", !.store = "postgres", !.databaseUrl = "postgres://db"]
Files == {NoFile, FileOf(RemoteFile, "768"), FileOf(LocalFile, Unset)}

OneVariable == {[NoEnv EXCEPT ![f] = x] :
  f \in {"store", "libsqlPath", "databaseUrl", "bindAddr", "port", "mode", "embBackend", "dim", "apiUrl"},
  x \in {"", "postgres", "libsql", "9090", "data.db", "raw", "local", "768"}}
====
