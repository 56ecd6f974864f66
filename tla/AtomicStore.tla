----------------------------- MODULE AtomicStore -----------------------------
(***************************************************************************)
(* What the service promises about the memories table, whatever calls run   *)
(* at the same time, fail or die: each call takes effect on the table at    *)
(* most once, in one step, between its acceptance and its answer, and only  *)
(* in the way its request allows.                                           *)
(*   - An add by a user stores one row of that user, at an id that is new   *)
(*     or already that user's, with the metadata of the request.            *)
(*   - A patch stores its text at the id it names and leaves the owner.     *)
(*   - A delete removes the row of the id it names.                         *)
(*   - A call answered "noop" or "not_found" has changed nothing.           *)
(* Every stored row has the dimension of the store.                         *)
(***************************************************************************)
CONSTANTS Ids, Users, Texts, Metas, StoreDim, Tasks, Requests, Row,
          NoRow, NoUser, NoRequest

VARIABLES
  table,        \* id -> row or NoRow
  owner,        \* id -> its user from the first time it was stored on
  want,         \* the request each task serves
  phase         \* how far it is

vars == <<table, owner, want, phase>>

Phases == {"idle", "open", "applied", "ok", "skipped", "failed"}

Init ==
  /\ table = [i \in Ids |-> NoRow]
  /\ owner = [i \in Ids |-> NoUser]
  /\ want = [t \in Tasks |-> NoRequest]
  /\ phase = [t \in Tasks |-> "idle"]

Move(t, from, to) ==
  /\ phase[t] \in from
  /\ \E p \in to : phase' = [phase EXCEPT ![t] = p]

Accept(t, r) ==
  /\ Move(t, {"idle"}, {"open"})
  /\ want' = [want EXCEPT ![t] = r]
  /\ UNCHANGED <<table, owner>>

Allows(q, i, r) ==
  /\ r.vec.dim = StoreDim
  /\ owner[i] \in {NoUser, r.user}
  /\ \/ q.op = "add" /\ r.user = q.user /\ r.meta = q.meta
     \/ q.op = "patch" /\ i = q.id /\ owner[i] = r.user /\ r.content = q.text

Put(t, i, r) ==
  /\ Move(t, {"open"}, {"applied", "ok"})
  /\ Allows(want[t], i, r)
  /\ table' = [table EXCEPT ![i] = r]
  /\ owner' = [owner EXCEPT ![i] = r.user]
  /\ UNCHANGED want

Remove(t) ==
  /\ Move(t, {"open"}, {"applied", "ok"})
  /\ want[t].op = "delete"
  /\ table' = [table EXCEPT ![want[t].id] = NoRow]
  /\ UNCHANGED <<owner, want>>

(* The answer, without a change of the table.                               *)
Conclude(t) ==
  /\ \/ Move(t, {"open"}, {"skipped", "failed"})
     \/ Move(t, {"applied"}, {"ok", "failed"})
  /\ UNCHANGED <<table, owner, want>>

(* The answer is delivered, or the call dies.                               *)
Leave(t) ==
  /\ Move(t, Phases \ {"idle"}, {"idle"})
  /\ want' = [want EXCEPT ![t] = NoRequest]
  /\ UNCHANGED <<table, owner>>

Next ==
  \E t \in Tasks :
    \/ \E r \in Requests : Accept(t, r)
    \/ \E i \in Ids, r \in Row : Put(t, i, r)
    \/ Remove(t)
    \/ Conclude(t)
    \/ Leave(t)

Spec == Init /\ [][Next]_vars
=============================================================================
