----------------------------- MODULE ConfigLayers -----------------------------
(***************************************************************************)
(* The configuration file and what a process makes of it: a field of the    *)
(* file, a variable of the environment over it, a default under both.       *)
(* Every process loads it once; `memayu serve` falls back to the            *)
(* infrastructure slice of it, by code of its own, when the whole does not  *)
(* load.  The similarity threshold is left out.                             *)
(***************************************************************************)
EXTENDS FiniteSets

CONSTANTS
  Unset,   \* no such field or variable
  Urls,    \* the texts that start with http:// or https://
  Ports,   \* the texts that are a u16
  Dims     \* the texts that are a dimension

(* A file and an environment give each of these a text, or leave it unset.  *)
Fields == {"store", "libsqlPath", "databaseUrl", "llmUrl", "llmKey", "llmModel",
           "embBackend", "embUrl", "embKey", "embModel", "mode", "bindAddr", "port", "dim"}
Variables == Fields \cup {"apiUrl"}

NoFile == [f \in Fields |-> Unset]
NoEnv == [f \in Variables |-> Unset]

DefaultUrl == "https://api.openai.com/v1"
DefaultPath == "./memayu.db"
DefaultBind == "127.0.0.1"
DefaultPort == "18080"

ASSUME ConfigAssumption ==
  /\ DefaultUrl \in Urls /\ DefaultPort \in Ports
  /\ "" \notin Urls \cup Ports \cup Dims
  /\ Unset \notin Urls \cup Ports \cup Dims \cup {""}

Stores == {"libsql", "postgres"}
Backends == {"remote", "http", "local"}
Modes == {"llm", "raw"}

(* What the two embedder backends are called: http is remote's old name.    *)
Backend(b) == IF b = "http" THEN "remote" ELSE b

(* ProviderConfig::normalize.                                               *)
Normalize(p) == IF p.backend = "local" THEN [p EXCEPT !.url = "", !.key = Unset] ELSE p

(* A variable that is set wins, even when it is empty.                      *)
Layered(f, file, env, default) ==
  CASE env[f] # Unset -> env[f]
    [] env[f] = Unset /\ file[f] # Unset -> file[f]
    [] OTHER -> default

(* env_opt_or: what is empty is as good as unset.                           *)
NonEmpty(f, file, env) ==
  CASE env[f] \notin {Unset, ""} -> env[f]
    [] env[f] \in {Unset, ""} /\ file[f] \notin {Unset, ""} -> file[f]
    [] OTHER -> Unset

OrEmpty(x) == IF x = Unset THEN "" ELSE x

(* A variable that does not parse is an error, a field that does not parse  *)
(* is the default.                                                          *)
Parsed(f, file, env, valid, default) ==
  LET x == Layered(f, file, env, default) IN IF x \in valid THEN x ELSE default

Malformed(env) ==
  \/ env["store"] \notin Stores \cup {Unset}
  \/ env["port"] \notin Ports \cup {Unset}

Cloud(env) == env["apiUrl"] \notin {Unset, ""}

ModeOf(file, env) ==
  LET m == NonEmpty("mode", file, env) IN IF m = Unset THEN "llm" ELSE m

BackendOf(file, env) == Backend(Parsed("embBackend", file, env, Backends, "remote"))

(* Config::merge returns an error.                                          *)
Refuses(file, env) ==
  /\ ~Cloud(env)
  /\ \/ ModeOf(file, env) \notin Modes
     \/ Malformed(env)
     \/ env["embBackend"] \notin Backends \cup {Unset}
     \/ env["dim"] \notin Dims \cup {Unset}
     \/ /\ ModeOf(file, env) = "llm"
        /\ Unset \in {NonEmpty("llmUrl", file, env), NonEmpty("llmModel", file, env)}
     \/ NonEmpty("llmUrl", file, env) \notin Urls \cup {Unset}
     \/ BackendOf(file, env) = "remote" /\ NonEmpty("embUrl", file, env) \notin Urls
     \/ NonEmpty("embModel", file, env) = Unset

(* Where the memories are: the path or URL that the backend has no use for  *)
(* is left out.                                                             *)
LoadedStorage(file, env) ==
  LET b == Parsed("store", file, env, Stores, "libsql") IN
  [backend |-> b,
   at |-> IF b = "postgres" THEN Layered("databaseUrl", file, env, "")
          ELSE Layered("libsqlPath", file, env, DefaultPath)]

(* Config::merge.                                                           *)
Loaded(file, env) ==
  [storage |-> LoadedStorage(file, env),
   llm |-> [backend |-> "remote", url |-> OrEmpty(NonEmpty("llmUrl", file, env)),
            key |-> NonEmpty("llmKey", file, env),
            model |-> OrEmpty(NonEmpty("llmModel", file, env))],
   embedder |-> [backend |-> BackendOf(file, env),
                 url |-> OrEmpty(NonEmpty("embUrl", file, env)),
                 key |-> NonEmpty("embKey", file, env),
                 model |-> OrEmpty(NonEmpty("embModel", file, env))],
   mode |-> ModeOf(file, env),
   dim |-> IF env["dim"] # Unset THEN env["dim"] ELSE file["dim"],
   bindAddr |-> Layered("bindAddr", file, env, DefaultBind),
   port |-> Parsed("port", file, env, Ports, DefaultPort)]

(* load_infrastructure, which reads the same layers once more.              *)
Infrastructure_ByFile(file, env) ==
  LET b == IF file["store"] \in Stores THEN file["store"] ELSE "libsql" IN
  [storage |-> [backend |-> b,
                at |-> IF b = "postgres" THEN Layered("databaseUrl", file, env, "")
                       ELSE Layered("libsqlPath", file, env, DefaultPath)],
   bindAddr |-> Layered("bindAddr", file, env, DefaultBind),
   port |-> Parsed("port", file, env, Ports, DefaultPort)]

Infrastructure(file, env) ==
  LET b == CASE env["store"] # Unset -> env["store"]
             [] env["store"] = Unset /\ file["store"] \in Stores -> file["store"]
             [] OTHER -> "libsql" IN
  [storage |-> [backend |-> b,
                at |-> IF b = "postgres" THEN Layered("databaseUrl", file, env, "")
                       ELSE Layered("libsqlPath", file, env, DefaultPath)],
   bindAddr |-> Layered("bindAddr", file, env, DefaultBind),
   port |-> Parsed("port", file, env, Ports, DefaultPort)]

(* Config::check: what a configuration that loads still lacks.              *)
Issues(c) ==
  {f \in {"llmUrl", "llmModel", "embUrl", "embModel", "databaseUrl"} :
     \/ f = "llmUrl" /\ c.mode # "raw" /\ c.llm.url = ""
     \/ f = "llmModel" /\ c.mode # "raw" /\ c.llm.model = ""
     \/ f = "embUrl" /\ c.embedder.backend = "remote" /\ c.embedder.url = ""
     \/ f = "embModel" /\ c.embedder.model = ""
     \/ f = "databaseUrl" /\ c.storage.backend = "postgres" /\ c.storage.at = ""}
=============================================================================
