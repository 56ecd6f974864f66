--------------------------- MODULE MC_ServiceCalls ---------------------------
(***************************************************************************)
(* One instance for both storage backends and both extraction modes: a      *)
(* behaviour is one of MemoryService on libsql with LLM extraction, one on  *)
(* Postgres, or one of raw adds and deletes on libsql, each with the values *)
(* that matter to it.  `kind` says which, and never changes.                *)
(***************************************************************************)
EXTENDS MC_MemoryService, OverlappingAdds

VARIABLE kind

OneTextRequests == Adds(Users, {x1}, {m1}) \cup Patches(Ids, {x1}) \cup Deletes(Ids)
RawRequests == Adds({u1}, Texts, {m1}) \cup Deletes(Ids)
AllRequests == MixedRequests \cup RawRequests

Libsql == INSTANCE OverlappingAdds WITH
            Backend <- "libsql", Modes <- {"llm"}, Texts <- {x1}, Requests <- OneTextRequests
Postgres == INSTANCE OverlappingAdds WITH
              Backend <- "postgres", Dims <- {StoreDim}, Requests <- MixedRequests
Raw == INSTANCE OverlappingAdds WITH
         Backend <- "libsql", Modes <- {"raw"}, Dims <- {StoreDim}, Requests <- RawRequests

CallsNext ==
  /\ \/ kind = "libsql" /\ Libsql!OverlapNext
     \/ kind = "postgres" /\ Postgres!OverlapNext
     \/ kind = "raw" /\ Raw!OverlapNext
  /\ UNCHANGED kind

CallsInit == OverlapInit /\ kind \in {"libsql", "postgres", "raw"}
CallsSpec == CallsInit /\ [][CallsNext]_<<vars, overlap, kind>>
=============================================================================
