--------------------------- MODULE OverlappingAdds ---------------------------
(***************************************************************************)
(* MemoryService with a record of what each write was checked against.  A   *)
(* raw add looks for near duplicates in one statement and stores its memory *)
(* in a later one, and ingest_raw holds no lock and no transaction over the *)
(* two: another call may store in between.  Patches and LLM decisions look  *)
(* for none, and on Postgres the search is approximate.                     *)
(***************************************************************************)
EXTENDS MemoryService

ASSUME RawAssumption ==
  /\ SearchLimit \in Nat \ {0}
  /\ \A x, y \in Texts : <<x, y>> \in Near => <<y, x>> \in Near   \* a cosine is symmetric

VARIABLES
  (* History variables: the program has no such state.                      *)
  seen,         \* the ids whose rows are as the exact search of a raw add saw them
  unchecked     \* <<i, j>>: a write of i was not checked against the row of j

overlap == <<seen, unchecked>>

OverlapTypeOK ==
  /\ seen \in [Tasks -> SUBSET Ids]
  /\ unchecked \subseteq Ids \X Ids

OverlapInit ==
  /\ Init
  /\ seen = [t \in Tasks |-> {}]
  /\ unchecked = {}

(* The ids at which this step stores a row, and the task that does.         *)
Stored == {i \in Ids : memories'[i] \notin {memories[i], NoRow}}
Storing == {t \in Tasks : pc[t] = "upsert" /\ pc'[t] # "upsert"}

Searched(t) == Backend = "libsql" /\ pc[t] = "search" /\ pc'[t] = "ingest"
Holds(t) == pc[t] \in {"ingest", "upsert"}

Observe ==
  /\ seen' = [t \in Tasks |-> IF Searched(t) THEN Ids
                              ELSE IF Holds(t)' THEN seen[t] \ Stored ELSE {}]
  /\ unchecked' = unchecked \cup UNION {Stored \X (Ids \ seen[t]) : t \in Storing}

OverlapNext == Next /\ Observe

OverlapSpec == OverlapInit /\ [][OverlapNext]_<<vars, overlap>>

------------------------------------------------------------------------------
(* Two memories of a user that are near duplicates come of a write that was *)
(* not checked against the other: two raw adds overlapped, or one was       *)
(* written by a patch, by an LLM decision or on Postgres.  A raw add on     *)
(* libsql finds whatever is there when it searches, although it sees        *)
(* SEARCH_LIMIT rows only, in whatever company it runs, fails or dies.      *)
DuplicatesUnchecked ==
  \A i, j \in Ids :
    (/\ i # j /\ memories[i] # NoRow /\ memories[j] # NoRow
     /\ memories[i].user = memories[j].user
     /\ NearDuplicate(memories[i], memories[j].vec))
    => <<i, j>> \in unchecked \/ <<j, i>> \in unchecked
=============================================================================
