------------------------------- MODULE Accounts -------------------------------
(***************************************************************************)
(* Accounts of a self-hosted instance: the tables users, sessions and       *)
(* api_keys, and whom the rows of memories belong to.  A task is a request  *)
(* of the dashboard or the API, or a frontend in a process of its own; an   *)
(* action is a statement, or the part of a call between two statements that *)
(* other tasks can come in between.  Passwords are left out: they decide    *)
(* whether a login or a change is let through, never for whom.              *)
(***************************************************************************)
EXTENDS Naturals, FiniteSets

CONSTANTS
  Tasks, AccountIds, Emails, Tokens, Keys, Memories,
  MaxSetups,      \* bound: setups that find no account
  Placeholder,    \* the user of legacy rows and of the CLI
  None

ASSUME AccountsAssumption ==
  /\ MaxSetups \in Nat
  /\ None \notin AccountIds \cup Emails \cup Tokens \cup Memories \cup {Placeholder}
  /\ Placeholder \notin AccountIds

VARIABLES
  users,      \* account -> its row, or NoUser
  sessions,   \* token -> the account of its row, if the row has not expired
  keys,       \* key -> the account of its row
  owner,      \* memory -> the user_id of its row
  clock,      \* created_at of the next account
  job,        \* task -> where it is, with its locals
  (* History variable. *)
  raced       \* two setups were between their count and their insert at once

vars == <<users, sessions, keys, owner, clock, job, raced>>

UserRow == [email : Emails, stamp : Nat]
NoUser == [email |-> None, stamp |-> 0]

Ops == {"web", "finalize", "tui", "mcp", "serve", "none"}

(* finalize and the TUI create the account if there is none.                *)
Wizards == {"finalize", "tui"}

Places ==
  {"resolve", "count", "insert", "find", "session", "page", "key", "adopt",
   "local", "rename", "add", "save", "idle"}

Job == [at : Places, op : Ops, acct : AccountIds \cup {None}, email : Emails \cup {None},
        stamp : Nat, tok : Tokens \cup {None}, mem : Memories \cup {None},
        was : AccountIds \cup {Placeholder, None}]

Task(place, op, a) == [at |-> place, op |-> op, acct |-> a, email |-> None,
                       stamp |-> 0, tok |-> None, mem |-> None, was |-> None]

Idle == Task("idle", "none", None)

TypeOK ==
  /\ users \in [AccountIds -> UserRow \cup {NoUser}]
  /\ sessions \in [Tokens -> AccountIds \cup {None}]
  /\ keys \in [Keys -> AccountIds \cup {None}]
  /\ owner \in [Memories -> AccountIds \cup {Placeholder, None}]
  /\ clock \in Nat
  /\ job \in [Tasks -> Job]
  /\ raced \in BOOLEAN

(* A store without an account, maybe with rows of an older version.         *)
Init ==
  /\ users = [a \in AccountIds |-> NoUser]
  /\ sessions = [c \in Tokens |-> None]
  /\ keys = [k \in Keys |-> None]
  /\ owner \in [Memories -> {Placeholder, None}]
  /\ clock = 1
  /\ job = [t \in Tasks |-> Idle]
  /\ raced = FALSE

Exists(a) == users[a] # NoUser

UsersEmpty_Unchecked == TRUE

(* users_empty, libsql_users_empty, postgres_users_empty                    *)
UsersEmpty == \A a \in AccountIds : ~Exists(a)

(* SELECT id FROM users ORDER BY created_at ASC LIMIT 1                     *)
Oldest(a) == Exists(a) /\ \A b \in AccountIds : Exists(b) => users[a].stamp <= users[b].stamp

(* UNIQUE on users.email                                                    *)
Free(e) == \A a \in AccountIds : users[a].email # e

Go(t, j) == job' = [job EXCEPT ![t] = j]
End(t) == Go(t, Idle)
As(t, place, a) == Go(t, Task(place, "none", a))

------------------------------------------------------------------------------
(* Setup and the start of frontends.                                        *)

Start(t, op, e) ==
  /\ job[t] = Idle
  /\ Go(t, [Task(IF op = "web" THEN "count" ELSE "resolve", op, None)
              EXCEPT !.email = IF op = "web" \/ op \in Wizards THEN e ELSE None])
  /\ UNCHANGED <<users, sessions, keys, owner, clock, raced>>

(* resolve_self_hosted_account_id, and what its callers do with the answer. *)
Resolve(t) ==
  /\ job[t].at = "resolve"
  /\ \/ \E a \in AccountIds :
          /\ Oldest(a)
          /\ IF job[t].op = "finalize"
               THEN As(t, "key", a)
               ELSE Go(t, Task("adopt", job[t].op, a))
     \/ /\ UsersEmpty
        /\ IF job[t].op \in Wizards THEN Go(t, [job[t] EXCEPT !.at = "count"]) ELSE End(t)
  /\ UNCHANGED <<users, sessions, keys, owner, clock, raced>>

(* The count of users; created_at is taken right after it.                  *)
Count(t) ==
  /\ job[t].at = "count"
  /\ IF UsersEmpty
       THEN /\ clock <= MaxSetups
            /\ Go(t, [[job[t] EXCEPT !.at = "insert"] EXCEPT !.stamp = clock])
            /\ clock' = clock + 1
            /\ raced' = (raced \/ \E s \in Tasks : job[s].at = "insert")
       ELSE End(t) /\ UNCHANGED <<clock, raced>>
  /\ UNCHANGED <<users, sessions, keys, owner>>

Insert(t) ==
  /\ job[t].at = "insert"
  /\ IF Free(job[t].email)
       THEN \E a \in AccountIds :
              /\ ~Exists(a)
              /\ users' = [users EXCEPT ![a] = [email |-> job[t].email, stamp |-> job[t].stamp]]
              /\ CASE job[t].op = "web" ->
                          Go(t, [Task("find", "web", None) EXCEPT !.email = job[t].email])
                   [] job[t].op = "finalize" -> As(t, "key", a)
                   [] OTHER -> As(t, "adopt", a)
       ELSE End(t) /\ UNCHANGED users
  /\ UNCHANGED <<sessions, keys, owner, clock, raced>>

(* setup looks up the account it created by its email.                      *)
Find(t) ==
  /\ job[t].at = "find"
  /\ \/ \E a \in AccountIds :
          /\ users[a].email = job[t].email
          /\ Go(t, Task("session", "web", a))
     \/ Free(job[t].email) /\ End(t)
  /\ UNCHANGED <<users, sessions, keys, owner, clock, raced>>

CreateSession(t) ==
  /\ job[t].at = "session"
  /\ \E c \in Tokens :
       /\ sessions[c] = None
       /\ sessions' = [sessions EXCEPT ![c] = job[t].acct]
       /\ IF job[t].op = "web" THEN Go(t, [Task("page", "web", None) EXCEPT !.tok = c]) ELSE End(t)
  /\ UNCHANGED <<users, keys, owner, clock, raced>>

(* The setup page resolves its own session to make the first key.           *)
Page(t) ==
  /\ job[t].at = "page"
  /\ As(t, "key", sessions[job[t].tok])
  /\ UNCHANGED <<users, sessions, keys, owner, clock, raced>>

CreateKey(t) ==
  /\ job[t].at = "key"
  /\ \E k \in Keys :
       /\ keys[k] = None
       /\ keys' = [keys EXCEPT ![k] = job[t].acct]
  /\ End(t)
  /\ UNCHANGED <<users, sessions, owner, clock, raced>>

(* backfill_placeholder_memories.  libsql counts first and stops at zero,   *)
(* which is what the UPDATE would have done then.                           *)
Backfill(t) ==
  /\ job[t].at = "adopt"
  /\ owner' = [m \in Memories |-> IF owner[m] = Placeholder THEN job[t].acct ELSE owner[m]]
  /\ IF job[t].op = "serve" THEN End(t) ELSE As(t, "local", job[t].acct)
  /\ UNCHANGED <<users, sessions, keys, clock, raced>>

------------------------------------------------------------------------------
(* Requests.                                                                *)

(* login with the right password                                            *)
Login(t, a) ==
  /\ job[t] = Idle
  /\ Exists(a)
  /\ As(t, "session", a)
  /\ UNCHANGED <<users, sessions, keys, owner, clock, raced>>

(* auth_middleware or CurrentUser let a request in.                         *)
Request(t, a, place, e) ==
  /\ job[t] = Idle
  /\ (\E c \in Tokens : sessions[c] = a) \/ (\E k \in Keys : keys[k] = a)
  /\ Go(t, [Task(place, "none", a) EXCEPT !.email = IF place = "rename" THEN e ELSE None])
  /\ UNCHANGED <<users, sessions, keys, owner, clock, raced>>

(* change_email that also renews created_at                                 *)
Renamed_Renewed(row, e) == [row EXCEPT !.email = e, !.stamp = clock]

Renamed(row, e) == [row EXCEPT !.email = e]

(* UPDATE users SET email = ?1 WHERE id = ?2, or its UNIQUE error           *)
Rename(t) ==
  LET a == job[t].acct IN
  /\ job[t].at = "rename"
  /\ IF \A b \in AccountIds \ {a} : users[b].email # job[t].email
       THEN users' = [users EXCEPT ![a] = Renamed(users[a], job[t].email)]
       ELSE UNCHANGED users
  /\ End(t)
  /\ UNCHANGED <<sessions, keys, owner, clock, raced>>

(* logout, or expires_at goes by: of a token some client knows              *)
EndSession(c) ==
  /\ sessions[c] # None
  /\ \A t \in Tasks : job[t].tok # c
  /\ sessions' = [sessions EXCEPT ![c] = None]
  /\ UNCHANGED <<users, keys, owner, clock, job, raced>>

(* delete_key, by any request that is let in                                *)
DeleteKey(k) ==
  /\ keys[k] # None
  /\ keys' = [keys EXCEPT ![k] = None]
  /\ UNCHANGED <<users, sessions, owner, clock, job, raced>>

(* An add by the API, the TUI or the local MCP server.                      *)
AddMemory(t, m) ==
  /\ job[t].at \in {"add", "local"}
  /\ owner[m] = None
  /\ owner' = [owner EXCEPT ![m] = job[t].acct]
  /\ IF job[t].at = "add" THEN End(t) ELSE UNCHANGED job
  /\ UNCHANGED <<users, sessions, keys, clock, raced>>

(* memayu add                                                               *)
CliAdd(m) ==
  /\ owner[m] = None
  /\ owner' = [owner EXCEPT ![m] = Placeholder]
  /\ UNCHANGED <<users, sessions, keys, clock, job, raced>>

DeleteMemory(m) ==
  /\ owner[m] # None
  /\ owner' = [owner EXCEPT ![m] = None]
  /\ UNCHANGED <<users, sessions, keys, clock, job, raced>>

(* Any frontend rewrites a row: it has read it with its user_id, awaits the *)
(* embedder, and saves it with what it read.                                *)
Read(t, m) ==
  /\ job[t] = Idle
  /\ owner[m] # None
  /\ Go(t, [[Task("save", "none", None) EXCEPT !.mem = m] EXCEPT !.was = owner[m]])
  /\ UNCHANGED <<users, sessions, keys, owner, clock, raced>>

Save(t) ==
  /\ job[t].at = "save"
  /\ owner' = [owner EXCEPT ![job[t].mem] = job[t].was]
  /\ End(t)
  /\ UNCHANGED <<users, sessions, keys, clock, raced>>

(* The end of a frontend, an error, or the death of a process.              *)
Stop(t) ==
  /\ job[t] # Idle
  /\ End(t)
  /\ UNCHANGED <<users, sessions, keys, owner, clock, raced>>

Next ==
  \/ \E t \in Tasks :
       \/ \E e \in Emails, op \in {"web", "finalize", "tui", "mcp", "serve"} : Start(t, op, e)
       \/ Resolve(t)
       \/ Count(t)
       \/ Insert(t)
       \/ Find(t)
       \/ CreateSession(t)
       \/ Page(t)
       \/ CreateKey(t)
       \/ Backfill(t)
       \/ \E a \in AccountIds : Login(t, a)
       \/ \E a \in AccountIds, place \in {"key", "rename", "add"}, e \in Emails :
            Request(t, a, place, e)
       \/ Rename(t)
       \/ \E m \in Memories : AddMemory(t, m) \/ Read(t, m)
       \/ Save(t)
       \/ Stop(t)
  \/ \E c \in Tokens : EndSession(c)
  \/ \E k \in Keys : DeleteKey(k)
  \/ \E m \in Memories : CliAdd(m) \/ DeleteMemory(m)

Spec == Init /\ [][Next]_vars

------------------------------------------------------------------------------
(* Properties.                                                              *)

(* The accounts that any row or task refers to.                             *)
References ==
  {a \in AccountIds :
     \/ Exists(a)
     \/ \E c \in Tokens : sessions[c] = a
     \/ \E k \in Keys : keys[k] = a
     \/ \E m \in Memories : owner[m] = a
     \/ \E t \in Tasks : job[t].acct = a \/ job[t].was = a}

(* Unless two setups overlapped between their count and their insert, one   *)
(* account backs the whole instance: every session, key, memory and running *)
(* frontend is of the same one.                                             *)
OneIdentity == ~raced => \A a, b \in References : a = b

(* Nobody is about to insert an account next to one that exists.            *)
Settled == ~UsersEmpty /\ \A t \in Tasks : job[t].at # "insert"

(* From then on the account that frontends resolve to stays the same, also  *)
(* when overlapping setups left more than one.                              *)
IdentitySettles == [][Settled => \A a \in AccountIds : Oldest(a)' <=> Oldest(a)]_vars
=============================================================================
