-------------------------- MODULE MC_ProviderConfig --------------------------
(***************************************************************************)
(* Instances of ProviderConfig for TLC.                                     *)
(***************************************************************************)
EXTENDS ProviderConfig, TLC

CONSTANTS t1, t2, boot

Remote(u, k) == [backend |-> "remote", url |-> u, key |-> k]
Local(u, k) == [backend |-> "local", url |-> u, key |-> k]

(* A remote setup with LLM extraction; a local raw one whose file still     *)
(* holds the URL and key of an earlier remote embedder.                     *)
RemoteFile == [llm |-> Remote("a", "k"), embedder |-> Remote("a", "k"), mode |-> "llm"]
LocalFile == [llm |-> Remote("", ""), embedder |-> Local("a", "k"), mode |-> "raw"]
TwoFiles == {RemoteFile, LocalFile}

Web(p, c, m, kept) ==
  [kind |-> "web", llm |-> IF p = "llm" THEN c ELSE NoConfig,
   embedder |-> IF p = "embedder" THEN c ELSE NoConfig, mode |-> m, keep |-> kept]
Api(l, e, m) ==
  [kind |-> "api", llm |-> l, embedder |-> e, mode |-> m, keep |-> {}]

(* Saves of the dashboard and the API, and both wizards.                    *)
SomeJobs ==
  {Web("", NoConfig, "raw", {}),
   Web("llm", Remote("", "h"), "llm", {"url"}),
   Web("llm", Remote("b", ""), "", {"key"}),
   Web("embedder", Remote("b", ""), "", {"key", "backend"}),
   Web("embedder", Local("b", "h"), "", {}),
   Api(Remote("b", "h"), Local("a", "h"), ""),
   Api(NoConfig, Remote("a", "h"), "other"),
   Save("wizard", LocalFile), Save("setup", RemoteFile)}

OneSave == {Web("llm", Remote("b", "h"), "", {})}
OneSetup == {Save("setup", LocalFile)}

Symmetry == Permutations(Tasks)
=============================================================================
