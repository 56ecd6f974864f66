--------------------------- MODULE Accounts_proofs ----------------------------
(***************************************************************************)
(* One identity for every frontend, for any number of accounts, emails,     *)
(* requests, frontends, sessions, keys and memories.                        *)
(***************************************************************************)
EXTENDS Accounts, TLAPS

(* Whatever refers to an account refers to a row of users.                  *)
Known ==
  /\ \A c \in Tokens : sessions[c] # None => Exists(sessions[c])
  /\ \A k \in Keys : keys[k] # None => Exists(keys[k])
  /\ \A m \in Memories : owner[m] \in AccountIds => Exists(owner[m])
  /\ \A t \in Tasks : job[t].acct # None => Exists(job[t].acct)
  /\ \A t \in Tasks : job[t].was \in AccountIds => Exists(job[t].was)

(* The locals that a task needs where it is.                                *)
PlaceOK(j) ==
  /\ j.at \in {"count", "insert"} \/ (j.at = "resolve" /\ j.op \in Wizards) => j.email \in Emails
  /\ j.at = "rename" => j.email \in Emails /\ j.acct \in AccountIds
  /\ j.at = "find" => j.email \in Emails
  /\ j.at = "page" => j.tok \in Tokens

(* As long as no setups overlapped: a task about to insert is the only one, *)
(* and finds no account; so there is never a second one.                    *)
RaceOK ==
  ~raced =>
    /\ \A a, b \in AccountIds : Exists(a) /\ Exists(b) => a = b
    /\ \A s, t \in Tasks : job[s].at = "insert" /\ job[t].at = "insert" => s = t
    /\ (\E t \in Tasks : job[t].at = "insert") => UsersEmpty

AcctInv ==
  /\ TypeOK
  /\ Known
  /\ \A t \in Tasks : PlaceOK(job[t])
  /\ RaceOK

LEMMA IdleType == Idle \in Job /\ PlaceOK(Idle) /\ Idle.acct = None /\ Idle.was = None
                  /\ Idle.at = "idle"
  BY AccountsAssumption, SMT DEF Idle, Task, Job, Places, Ops, PlaceOK

(* A step of one task that changes neither users nor raced and does not     *)
(* bring the task to its insert.                                            *)
LEMMA TaskStep ==
  ASSUME AcctInv, NEW t \in Tasks, NEW j \in Job,
         job' = [job EXCEPT ![t] = j], PlaceOK(j), j.at # "insert",
         j.acct # None => Exists(j.acct),
         j.was \in AccountIds => Exists(j.was),
         users' = users, raced' = raced, clock' = clock,
         sessions' \in [Tokens -> AccountIds \cup {None}],
         \A c \in Tokens : sessions'[c] # None => Exists(sessions'[c]),
         keys' \in [Keys -> AccountIds \cup {None}],
         \A k \in Keys : keys'[k] # None => Exists(keys'[k]),
         owner' \in [Memories -> AccountIds \cup {Placeholder, None}],
         \A m \in Memories : owner'[m] \in AccountIds => Exists(owner'[m])
  PROVE  AcctInv'
<1>1. TypeOK'
  BY DEF AcctInv, TypeOK
<1>2. \A s \in Tasks : job'[s] = IF s = t THEN j ELSE job[s]
  BY DEF AcctInv, TypeOK
<1>3. Known'
  BY <1>2 DEF AcctInv, Known, Exists
<1>4. \A s \in Tasks : PlaceOK(job'[s])
  BY <1>2 DEF AcctInv
<1>5. RaceOK'
  <2>1. \A s \in Tasks : job'[s].at = "insert" => job[s].at = "insert"
    BY <1>2
  <2> QED BY <2>1 DEF AcctInv, RaceOK, Exists, UsersEmpty
<1>6. \A s \in Tasks : PlaceOK(job[s])'
  BY <1>4 DEF PlaceOK
<1> QED BY <1>1, <1>3, <1>5, <1>6 DEF AcctInv

(* What the tables say before the step, in the form TaskStep asks for.      *)
LEMMA Tables ==
  ASSUME AcctInv
  PROVE  /\ sessions \in [Tokens -> AccountIds \cup {None}]
         /\ keys \in [Keys -> AccountIds \cup {None}]
         /\ owner \in [Memories -> AccountIds \cup {Placeholder, None}]
         /\ \A c \in Tokens : sessions[c] # None => Exists(sessions[c])
         /\ \A k \in Keys : keys[k] # None => Exists(keys[k])
         /\ \A m \in Memories : owner[m] \in AccountIds => Exists(owner[m])
         /\ \A t \in Tasks : /\ job[t] \in Job /\ PlaceOK(job[t])
                             /\ job[t].acct # None => Exists(job[t].acct)
                             /\ job[t].was \in AccountIds => Exists(job[t].was)
  BY DEF AcctInv, TypeOK, Known

(* The job of a task at a place that asks for no more than an account.      *)
LEMMA TaskType ==
  ASSUME NEW a \in AccountIds \cup {None}, NEW op \in Ops,
         NEW place \in Places \ {"resolve", "count", "insert", "find", "rename", "page"},
         a # None => Exists(a)
  PROVE  LET j == Task(place, op, a) IN
         /\ j \in Job /\ PlaceOK(j) /\ j.at # "insert"
         /\ j.acct # None => Exists(j.acct)
         /\ j.was \notin AccountIds
<1>1. Task(place, op, a) \in Job
  BY AccountsAssumption, SMT DEF Task, Job
<1>2. /\ Task(place, op, a).at = place /\ Task(place, op, a).acct = a
      /\ Task(place, op, a).was = None
  BY DEF Task
<1>3. PlaceOK(Task(place, op, a))
  BY <1>2 DEF PlaceOK
<1> QED BY <1>1, <1>2, <1>3, AccountsAssumption

LEMMA NoneType == None \notin AccountIds /\ None \notin Emails /\ Placeholder \notin AccountIds
  BY AccountsAssumption

LEMMA InitAcctInv == Init => AcctInv
<1> SUFFICES ASSUME Init PROVE AcctInv
  OBVIOUS
<1>1. TypeOK
  <2>1. /\ users \in [AccountIds -> UserRow \cup {NoUser}]
        /\ sessions \in [Tokens -> AccountIds \cup {None}]
        /\ keys \in [Keys -> AccountIds \cup {None}]
        /\ owner \in [Memories -> AccountIds \cup {Placeholder, None}]
    BY DEF Init
  <2>2. job \in [Tasks -> Job]
    BY IdleType DEF Init
  <2>3. clock \in Nat
    <3>1. clock = 1
      BY DEF Init
    <3> QED BY <3>1, SMT
  <2>4. raced \in BOOLEAN
    BY DEF Init
  <2> QED BY <2>1, <2>2, <2>3, <2>4 DEF TypeOK
<1>2. Known
  BY IdleType, AccountsAssumption, SMT DEF Init, Known
<1>3. \A t \in Tasks : PlaceOK(job[t])
  BY IdleType DEF Init
<1>4. RaceOK
  BY IdleType, SMT DEF Init, RaceOK, Exists
<1> QED BY <1>1, <1>2, <1>3, <1>4 DEF AcctInv

(* A step of one task that leaves the tables alone.                         *)
LEMMA JobStep ==
  ASSUME AcctInv, NEW t \in Tasks, NEW j \in Job, Go(t, j), PlaceOK(j), j.at # "insert",
         j.acct # None => Exists(j.acct),
         j.was \in AccountIds => Exists(j.was),
         UNCHANGED <<users, sessions, keys, owner, clock, raced>>
  PROVE  AcctInv'
  BY Tables, TaskStep DEF Go

LEMMA EndStep ==
  ASSUME AcctInv, NEW t \in Tasks, End(t),
         UNCHANGED <<users, sessions, keys, owner, clock, raced>>
  PROVE  AcctInv'
  BY IdleType, NoneType, JobStep DEF End

LEMMA StartStep ==
  ASSUME AcctInv, NEW t \in Tasks, NEW e \in Emails,
         NEW op \in {"web", "finalize", "tui", "mcp", "serve"}, Start(t, op, e)
  PROVE  AcctInv'
<1> DEFINE mail == IF op = "web" \/ op \in Wizards THEN e ELSE None
<1> DEFINE place == IF op = "web" THEN "count" ELSE "resolve"
<1> DEFINE j == [Task(place, op, None) EXCEPT !.email = mail]
<1>1. /\ place \in Places /\ place \in {"count", "resolve"} /\ op \in Ops
      /\ mail \in Emails \cup {None}
      /\ place = "count" \/ op \in Wizards => mail \in Emails
  BY DEF Places, Ops
<1>2. Go(t, j) /\ UNCHANGED <<users, sessions, keys, owner, clock, raced>>
  BY DEF Start
<1> HIDE DEF place, mail
<1>3. /\ j \in Job /\ j.at = place /\ j.op = op /\ j.acct = None /\ j.email = mail
      /\ j.was = None
  BY <1>1, SMT DEF Task, Job
<1>4. PlaceOK(j) /\ j.at # "insert"
  BY <1>1, <1>3 DEF PlaceOK
<1> HIDE DEF j
<1> QED BY <1>2, <1>3, <1>4, JobStep, NoneType

LEMMA ResolveStep ==
  ASSUME AcctInv, NEW t \in Tasks, Resolve(t)
  PROVE  AcctInv'
<1>1. /\ UNCHANGED <<users, sessions, keys, owner, clock, raced>>
      /\ job[t].at = "resolve" /\ job[t] \in Job /\ PlaceOK(job[t])
      /\ job[t].acct # None => Exists(job[t].acct)
      /\ job[t].was \in AccountIds => Exists(job[t].was)
  BY Tables DEF Resolve
<1>2. job[t].op \in Ops
  BY <1>1 DEF Job
<1>3. CASE End(t)
  BY <1>1, <1>3, EndStep
<1>4. ASSUME NEW a \in AccountIds, Exists(a), As(t, "key", a) PROVE AcctInv'
  <2>1. "none" \in Ops /\ "key" \in Places
    BY DEF Ops, Places
  <2> QED BY <1>1, <1>4, <2>1, TaskType, JobStep DEF As
<1>5. ASSUME NEW a \in AccountIds, Exists(a), Go(t, Task("adopt", job[t].op, a))
      PROVE  AcctInv'
  <2>1. "adopt" \in Places
    BY DEF Places
  <2> QED BY <1>1, <1>2, <1>5, <2>1, TaskType, JobStep
<1>6. ASSUME job[t].op \in Wizards, Go(t, [job[t] EXCEPT !.at = "count"]) PROVE AcctInv'
  <2> DEFINE j == [job[t] EXCEPT !.at = "count"]
  <2>1. /\ j \in Job /\ j.at = "count" /\ j.acct = job[t].acct /\ j.was = job[t].was
        /\ j.email = job[t].email
    BY <1>1, SMT DEF Job, Places
  <2>2. PlaceOK(j)
    BY <1>1, <1>6, <2>1 DEF PlaceOK
  <2> HIDE DEF j
  <2> QED BY <1>1, <1>6, <2>1, <2>2, JobStep DEF j
<1> QED BY <1>3, <1>4, <1>5, <1>6 DEF Resolve, Oldest

LEMMA CountStep ==
  ASSUME AcctInv, NEW t \in Tasks, Count(t)
  PROVE  AcctInv'
<1>1. /\ UNCHANGED <<users, sessions, keys, owner>>
      /\ job[t].at = "count" /\ job[t] \in Job /\ PlaceOK(job[t])
      /\ job[t].acct # None => Exists(job[t].acct)
      /\ job[t].was \in AccountIds => Exists(job[t].was)
  BY Tables DEF Count
<1>2. CASE ~UsersEmpty
  BY <1>1, <1>2, EndStep DEF Count
<1>3. CASE UsersEmpty
  <2> DEFINE i == [job[t] EXCEPT !.at = "insert"]
  <2> DEFINE j == [i EXCEPT !.stamp = clock]
  <2>1. /\ Go(t, j) /\ clock' = clock + 1
        /\ raced' = (raced \/ \E s \in Tasks : job[s].at = "insert")
    BY <1>3 DEF Count
  <2>2. clock \in Nat
    BY DEF AcctInv, TypeOK
  <2>3. /\ j \in Job /\ j.at = "insert" /\ j.acct = job[t].acct /\ j.was = job[t].was
        /\ j.email = job[t].email
    <3>1. /\ i \in Job /\ i.at = "insert" /\ i.acct = job[t].acct /\ i.was = job[t].was
          /\ i.email = job[t].email
      BY <1>1, SMT DEF Job, Places
    <3> HIDE DEF i
    <3> QED BY <2>2, <3>1, SMT DEF Job
  <2>4. PlaceOK(j)
    BY <1>1, <2>3 DEF PlaceOK
  <2>5. job' = [job EXCEPT ![t] = j]
    BY <2>1 DEF Go
  <2> HIDE DEF j
  <2>6. \A s \in Tasks : job'[s] = IF s = t THEN j ELSE job[s]
    BY <2>5 DEF AcctInv, TypeOK
  <2>7. TypeOK'
    <3>1. clock' \in Nat /\ raced' \in BOOLEAN
      BY <2>1, <2>2, SMT
    <3> QED BY <1>1, <2>3, <2>5, <3>1 DEF AcctInv, TypeOK
  <2>8. Known'
    BY <1>1, <2>3, <2>6 DEF AcctInv, Known, Exists
  <2>9. \A s \in Tasks : PlaceOK(job[s])'
    BY <2>4, <2>6 DEF AcctInv, PlaceOK
  <2>10. RaceOK'
    <3>1. ~raced' => ~raced /\ \A s \in Tasks : job[s].at # "insert"
      BY <2>1
    <3>2. ~raced' => \A r, s \in Tasks : job'[r].at = "insert" /\ job'[s].at = "insert" => r = s
      BY <2>6, <3>1
    <3>3. UsersEmpty'
      BY <1>1, <1>3 DEF UsersEmpty, Exists
    <3>4. ~raced' => \A a, b \in AccountIds : Exists(a)' /\ Exists(b)' => a = b
      BY <3>3 DEF UsersEmpty
    <3> QED BY <3>2, <3>3, <3>4 DEF RaceOK
  <2> QED BY <2>7, <2>8, <2>9, <2>10 DEF AcctInv
<1> QED BY <1>2, <1>3

LEMMA InsertStep ==
  ASSUME AcctInv, NEW t \in Tasks, Insert(t)
  PROVE  AcctInv'
<1>1. /\ UNCHANGED <<sessions, keys, owner, clock, raced>>
      /\ job[t].at = "insert" /\ job[t] \in Job /\ job[t].email \in Emails
      /\ job[t].stamp \in Nat
  BY Tables DEF Insert, PlaceOK, Job
<1>2. CASE ~Free(job[t].email)
  BY <1>1, <1>2, EndStep DEF Insert
<1>3. CASE Free(job[t].email)
  <2> DEFINE row == [email |-> job[t].email, stamp |-> job[t].stamp]
  <2>1. PICK a \in AccountIds :
          /\ ~Exists(a)
          /\ users' = [users EXCEPT ![a] = row]
          /\ \/ Go(t, [Task("find", "web", None) EXCEPT !.email = job[t].email])
             \/ As(t, "key", a)
             \/ As(t, "adopt", a)
    BY <1>3 DEF Insert
  <2>2. row \in UserRow /\ row # NoUser
    BY <1>1, NoneType DEF UserRow, NoUser
  <2> HIDE DEF row
  <2>3. /\ \A b \in AccountIds : users'[b] = IF b = a THEN row ELSE users[b]
        /\ users' \in [AccountIds -> UserRow \cup {NoUser}]
    BY <2>1, <2>2 DEF AcctInv, TypeOK
  <2>4. \A b \in AccountIds : Exists(b)' <=> b = a \/ Exists(b)
    BY <2>2, <2>3 DEF Exists
  <2>5. PICK j \in Job :
          /\ job' = [job EXCEPT ![t] = j]
          /\ PlaceOK(j) /\ j.at # "insert" /\ j.acct \in {None, a} /\ j.was = None
    <3>1. ASSUME NEW place \in {"key", "adopt"}, As(t, place, a)
          PROVE  LET j == Task(place, "none", a) IN
                 /\ j \in Job /\ job' = [job EXCEPT ![t] = j]
                 /\ PlaceOK(j) /\ j.at # "insert" /\ j.acct \in {None, a} /\ j.was = None
      <4>1. "none" \in Ops /\ place \in Places
        BY DEF Ops, Places
      <4>2. Task(place, "none", a) \in Job
        BY <4>1, SMT DEF Task, Job
      <4>3. /\ Task(place, "none", a).at = place /\ Task(place, "none", a).acct = a
            /\ Task(place, "none", a).was = None
        BY DEF Task
      <4>4. PlaceOK(Task(place, "none", a))
        BY <4>3 DEF PlaceOK
      <4> QED BY <3>1, <4>2, <4>3, <4>4 DEF As, Go
    <3>2. ASSUME Go(t, [Task("find", "web", None) EXCEPT !.email = job[t].email])
          PROVE  LET j == [Task("find", "web", None) EXCEPT !.email = job[t].email] IN
                 /\ j \in Job /\ job' = [job EXCEPT ![t] = j]
                 /\ PlaceOK(j) /\ j.at # "insert" /\ j.acct \in {None, a} /\ j.was = None
      <4> DEFINE j == [Task("find", "web", None) EXCEPT !.email = job[t].email]
      <4>1. "web" \in Ops /\ "find" \in Places
        BY DEF Ops, Places
      <4>2. j \in Job /\ j.at = "find" /\ j.acct = None /\ j.was = None
            /\ j.email = job[t].email
        BY <1>1, <4>1, SMT DEF Task, Job
      <4>3. PlaceOK(j)
        BY <1>1, <4>2 DEF PlaceOK
      <4> HIDE DEF j
      <4> QED BY <3>2, <4>2, <4>3 DEF Go, j
    <3> QED BY <2>1, <3>1, <3>2
  <2>6. \A s \in Tasks : job'[s] = IF s = t THEN j ELSE job[s]
    BY <2>5 DEF AcctInv, TypeOK
  <2>7. TypeOK'
    BY <1>1, <2>3, <2>5 DEF AcctInv, TypeOK
  <2>8. Known'
    <3>1. \A b \in AccountIds : Exists(b) => users'[b] # NoUser
      BY <2>4 DEF Exists
    <3>2. \A c \in Tokens : sessions'[c] # None => users'[sessions'[c]] # NoUser
      BY <1>1, <3>1, Tables
    <3>3. \A k \in Keys : keys'[k] # None => users'[keys'[k]] # NoUser
      BY <1>1, <3>1, Tables
    <3>4. \A m \in Memories : owner'[m] \in AccountIds => users'[owner'[m]] # NoUser
      BY <1>1, <3>1, Tables
    <3>5. \A s \in Tasks : job[s].acct \in AccountIds \cup {None}
      BY Tables DEF Job
    <3>6. users'[a] # NoUser
      BY <2>4 DEF Exists
    <3>7. \A s \in Tasks : job'[s].acct # None => users'[job'[s].acct] # NoUser
      BY <2>5, <2>6, <3>1, <3>5, <3>6, Tables
    <3>8. \A s \in Tasks : job'[s].was \in AccountIds => users'[job'[s].was] # NoUser
      BY <2>5, <2>6, <3>1, NoneType, Tables
    <3> QED BY <3>2, <3>3, <3>4, <3>7, <3>8 DEF Known, Exists
  <2>9. \A s \in Tasks : PlaceOK(job[s])'
    BY <2>5, <2>6 DEF AcctInv, PlaceOK
  <2>10. RaceOK'
    <3> SUFFICES ASSUME ~raced PROVE /\ \A b, d \in AccountIds : Exists(b)' /\ Exists(d)' => b = d
                                     /\ \A s \in Tasks : job'[s].at # "insert"
      BY <1>1 DEF RaceOK
    <3>1. UsersEmpty
      BY <1>1 DEF AcctInv, RaceOK
    <3>2. \A s \in Tasks : job[s].at = "insert" => s = t
      BY <1>1 DEF AcctInv, RaceOK
    <3> QED BY <2>4, <2>5, <2>6, <3>1, <3>2 DEF UsersEmpty
  <2> QED BY <2>7, <2>8, <2>9, <2>10 DEF AcctInv
<1> QED BY <1>2, <1>3

(* A step that changes the tables and no task.                              *)
LEMMA TableStep ==
  ASSUME AcctInv, UNCHANGED <<users, clock, job, raced>>,
         sessions' \in [Tokens -> AccountIds \cup {None}],
         \A c \in Tokens : sessions'[c] # None => Exists(sessions'[c]),
         keys' \in [Keys -> AccountIds \cup {None}],
         \A k \in Keys : keys'[k] # None => Exists(keys'[k]),
         owner' \in [Memories -> AccountIds \cup {Placeholder, None}],
         \A m \in Memories : owner'[m] \in AccountIds => Exists(owner'[m])
  PROVE  AcctInv'
<1>1. TypeOK'
  BY DEF AcctInv, TypeOK
<1>2. Known'
  BY DEF AcctInv, Known, Exists
<1>3. RaceOK' /\ \A t \in Tasks : PlaceOK(job[t])'
  BY DEF AcctInv, RaceOK, PlaceOK, Exists, UsersEmpty
<1> QED BY <1>1, <1>2, <1>3 DEF AcctInv

LEMMA FindStep ==
  ASSUME AcctInv, NEW t \in Tasks, Find(t)
  PROVE  AcctInv'
<1>1. UNCHANGED <<users, sessions, keys, owner, clock, raced>>
  BY DEF Find
<1>2. CASE End(t)
  BY <1>1, <1>2, EndStep
<1>3. ASSUME NEW a \in AccountIds, users[a].email = job[t].email, Go(t, Task("session", "web", a))
      PROVE  AcctInv'
  <2>1. "web" \in Ops /\ "session" \in Places
    BY DEF Ops, Places
  <2>2. Exists(a)
    <3>1. job[t].at = "find"
      BY DEF Find
    <3> QED BY <1>3, <3>1, Tables, NoneType DEF Exists, NoUser, PlaceOK
  <2> QED BY <1>1, <1>3, <2>1, <2>2, TaskType, JobStep
<1> QED BY <1>2, <1>3 DEF Find

LEMMA CreateSessionStep ==
  ASSUME AcctInv, NEW t \in Tasks, CreateSession(t)
  PROVE  AcctInv'
<1>1. /\ UNCHANGED <<users, keys, owner, clock, raced>>
      /\ job[t].acct \in AccountIds \cup {None}
      /\ job[t].acct # None => Exists(job[t].acct)
  BY Tables DEF CreateSession, Job
<1>2. PICK c \in Tokens :
        /\ sessions' = [sessions EXCEPT ![c] = job[t].acct]
        /\ Go(t, [Task("page", "web", None) EXCEPT !.tok = c]) \/ End(t)
  BY DEF CreateSession
<1>3. /\ sessions' \in [Tokens -> AccountIds \cup {None}]
      /\ \A d \in Tokens : sessions'[d] # None => Exists(sessions'[d])
  BY <1>1, <1>2, Tables
<1>4. CASE End(t)
  BY <1>1, <1>3, <1>4, IdleType, NoneType, Tables, TaskStep DEF End, Go
<1>5. CASE Go(t, [Task("page", "web", None) EXCEPT !.tok = c])
  <2> DEFINE j == [Task("page", "web", None) EXCEPT !.tok = c]
  <2>1. "web" \in Ops /\ "page" \in Places
    BY DEF Ops, Places
  <2>2. j \in Job /\ j.at = "page" /\ j.acct = None /\ j.was = None /\ j.tok = c
    BY <2>1, SMT DEF Task, Job
  <2>3. PlaceOK(j)
    BY <2>2 DEF PlaceOK
  <2>4. job' = [job EXCEPT ![t] = j]
    BY <1>5 DEF Go
  <2> HIDE DEF j
  <2> QED BY <1>1, <1>3, <2>2, <2>3, <2>4, NoneType, Tables, TaskStep
<1> QED BY <1>2, <1>4, <1>5

LEMMA PageStep ==
  ASSUME AcctInv, NEW t \in Tasks, Page(t)
  PROVE  AcctInv'
<1> DEFINE a == sessions[job[t].tok]
<1>1. UNCHANGED <<users, sessions, keys, owner, clock, raced>> /\ As(t, "key", a)
  BY DEF Page
<1>2. job[t].tok \in Tokens
  BY Tables DEF Page, PlaceOK
<1>3. a \in AccountIds \cup {None} /\ (a # None => Exists(a))
  BY <1>2, Tables
<1>4. "none" \in Ops /\ "key" \in Places
  BY DEF Ops, Places
<1> HIDE DEF a
<1> QED BY <1>1, <1>3, <1>4, TaskType, JobStep DEF As

LEMMA CreateKeyStep ==
  ASSUME AcctInv, NEW t \in Tasks, CreateKey(t)
  PROVE  AcctInv'
<1>1. /\ UNCHANGED <<users, sessions, owner, clock, raced>> /\ End(t)
      /\ job[t].acct \in AccountIds \cup {None}
      /\ job[t].acct # None => Exists(job[t].acct)
  BY Tables DEF CreateKey, Job
<1>2. PICK k \in Keys : keys' = [keys EXCEPT ![k] = job[t].acct]
  BY DEF CreateKey
<1>3. /\ keys' \in [Keys -> AccountIds \cup {None}]
      /\ \A l \in Keys : keys'[l] # None => Exists(keys'[l])
  BY <1>1, <1>2, Tables
<1> QED BY <1>1, <1>3, IdleType, NoneType, Tables, TaskStep DEF End, Go

LEMMA BackfillStep ==
  ASSUME AcctInv, NEW t \in Tasks, Backfill(t)
  PROVE  AcctInv'
<1> DEFINE a == job[t].acct
<1>1. /\ UNCHANGED <<users, sessions, keys, clock, raced>>
      /\ owner' = [m \in Memories |-> IF owner[m] = Placeholder THEN a ELSE owner[m]]
      /\ End(t) \/ As(t, "local", a)
  BY DEF Backfill
<1>2. a \in AccountIds \cup {None} /\ (a # None => Exists(a))
  BY Tables DEF Job
<1> HIDE DEF a
<1>3. /\ owner' \in [Memories -> AccountIds \cup {Placeholder, None}]
      /\ \A m \in Memories : owner'[m] \in AccountIds => Exists(owner'[m])
  BY <1>1, <1>2, NoneType, Tables
<1>4. CASE End(t)
  BY <1>1, <1>3, <1>4, IdleType, NoneType, Tables, TaskStep DEF End, Go
<1>5. CASE As(t, "local", a)
  <2>1. "none" \in Ops /\ "local" \in Places
    BY DEF Ops, Places
  <2> QED BY <1>1, <1>2, <1>3, <1>5, <2>1, TaskType, Tables, TaskStep DEF As, Go
<1> QED BY <1>1, <1>4, <1>5

LEMMA LoginStep ==
  ASSUME AcctInv, NEW t \in Tasks, NEW a \in AccountIds, Login(t, a)
  PROVE  AcctInv'
<1>1. "none" \in Ops /\ "session" \in Places
  BY DEF Ops, Places
<1> QED BY <1>1, TaskType, JobStep DEF Login, As

LEMMA RequestStep ==
  ASSUME AcctInv, NEW t \in Tasks, NEW a \in AccountIds, NEW e \in Emails,
         NEW place \in {"key", "rename", "add"}, Request(t, a, place, e)
  PROVE  AcctInv'
<1> DEFINE mail == IF place = "rename" THEN e ELSE None
<1> DEFINE j == [Task(place, "none", a) EXCEPT !.email = mail]
<1>1. /\ UNCHANGED <<users, sessions, keys, owner, clock, raced>> /\ Go(t, j)
      /\ Exists(a)
  BY Tables, NoneType DEF Request
<1>2. /\ "none" \in Ops /\ place \in Places
      /\ mail \in Emails \cup {None} /\ (place = "rename" => mail \in Emails)
  BY DEF Ops, Places
<1> HIDE DEF mail
<1>3. j \in Job /\ j.at = place /\ j.acct = a /\ j.was = None /\ j.email = mail
  BY <1>2, SMT DEF Task, Job
<1>4. PlaceOK(j)
  BY <1>2, <1>3 DEF PlaceOK
<1> HIDE DEF j
<1> QED BY <1>1, <1>3, <1>4, NoneType, JobStep

(* A new email: the row stays where it is, with its created_at.             *)
LEMMA RenamedRow ==
  ASSUME AcctInv, NEW t \in Tasks, job[t].at = "rename"
  PROVE  LET a == job[t].acct
             row == Renamed(users[a], job[t].email)
         IN  /\ a \in AccountIds /\ Exists(a)
             /\ row \in UserRow /\ row # NoUser /\ row.stamp = users[a].stamp
<1>1. /\ job[t].acct \in AccountIds /\ job[t].email \in Emails /\ Exists(job[t].acct)
  BY Tables, NoneType DEF PlaceOK
<1>2. users[job[t].acct] \in UserRow
  BY <1>1 DEF AcctInv, TypeOK, Exists
<1> QED BY <1>1, <1>2, NoneType, SMT DEF UserRow, NoUser, Renamed

LEMMA RenameStep ==
  ASSUME AcctInv, NEW t \in Tasks, Rename(t)
  PROVE  AcctInv'
<1> DEFINE a == job[t].acct
           row == Renamed(users[a], job[t].email)
<1>1. /\ UNCHANGED <<sessions, keys, owner, clock, raced>> /\ End(t)
      /\ job[t].at = "rename"
      /\ users' = [users EXCEPT ![a] = row] \/ users' = users
  BY DEF Rename
<1>2. a \in AccountIds /\ Exists(a) /\ row \in UserRow /\ row # NoUser
  BY <1>1, RenamedRow
<1> HIDE DEF a, row
<1>3. CASE users' = users
  BY <1>1, <1>3, EndStep
<1>4. CASE users' = [users EXCEPT ![a] = row]
  <2>1. /\ \A b \in AccountIds : users'[b] = IF b = a THEN row ELSE users[b]
        /\ users' \in [AccountIds -> UserRow \cup {NoUser}]
    BY <1>2, <1>4 DEF AcctInv, TypeOK
  <2>2. \A b \in AccountIds : users'[b] # NoUser <=> Exists(b)
    BY <1>2, <2>1 DEF Exists
  <2>3. job' = [job EXCEPT ![t] = Idle] /\ \A s \in Tasks : job'[s] = IF s = t THEN Idle ELSE job[s]
    BY <1>1 DEF End, Go, AcctInv, TypeOK
  <2>4. TypeOK'
    BY <1>1, <2>1, <2>3, IdleType DEF AcctInv, TypeOK
  <2>5. Known'
    <3>1. /\ \A c \in Tokens : sessions'[c] # None => users'[sessions'[c]] # NoUser
          /\ \A k \in Keys : keys'[k] # None => users'[keys'[k]] # NoUser
          /\ \A m \in Memories : owner'[m] \in AccountIds => users'[owner'[m]] # NoUser
      BY <1>1, <2>2, Tables
    <3>2. \A s \in Tasks : job[s].acct \in AccountIds \cup {None}
      BY Tables DEF Job
    <3>3. \A s \in Tasks : /\ job'[s].acct # None => users'[job'[s].acct] # NoUser
                           /\ job'[s].was \in AccountIds => users'[job'[s].was] # NoUser
      BY <2>2, <2>3, <3>2, IdleType, NoneType, Tables
    <3> QED BY <3>1, <3>3 DEF Known, Exists
  <2>6. \A s \in Tasks : PlaceOK(job[s])'
    BY <2>3, IdleType DEF AcctInv, PlaceOK
  <2>7. RaceOK'
    <3>1. \A s \in Tasks : job'[s].at = "insert" => job[s].at = "insert"
      BY <2>3, IdleType
    <3>2. /\ \A b \in AccountIds : Exists(b)' <=> Exists(b)
          /\ UsersEmpty' <=> UsersEmpty
      BY <2>2 DEF Exists, UsersEmpty
    <3> QED BY <1>1, <3>1, <3>2 DEF AcctInv, RaceOK
  <2> QED BY <2>4, <2>5, <2>6, <2>7 DEF AcctInv
<1> QED BY <1>1, <1>3, <1>4

LEMMA EndSessionStep ==
  ASSUME AcctInv, NEW c \in Tokens, EndSession(c)
  PROVE  AcctInv'
<1>1. UNCHANGED <<users, keys, owner, clock, job, raced>>
  BY DEF EndSession
<1>2. /\ sessions' \in [Tokens -> AccountIds \cup {None}]
      /\ \A d \in Tokens : sessions'[d] # None => Exists(sessions'[d])
  BY Tables DEF EndSession
<1> QED BY <1>1, <1>2, Tables, TableStep

LEMMA DeleteKeyStep ==
  ASSUME AcctInv, NEW k \in Keys, DeleteKey(k)
  PROVE  AcctInv'
<1>1. UNCHANGED <<users, sessions, owner, clock, job, raced>>
  BY DEF DeleteKey
<1>2. /\ keys' \in [Keys -> AccountIds \cup {None}]
      /\ \A l \in Keys : keys'[l] # None => Exists(keys'[l])
  BY Tables DEF DeleteKey
<1> QED BY <1>1, <1>2, Tables, TableStep

LEMMA CliAddStep ==
  ASSUME AcctInv, NEW m \in Memories, CliAdd(m)
  PROVE  AcctInv'
<1>1. UNCHANGED <<users, sessions, keys, clock, job, raced>>
  BY DEF CliAdd
<1>2. /\ owner' \in [Memories -> AccountIds \cup {Placeholder, None}]
      /\ \A n \in Memories : owner'[n] \in AccountIds => Exists(owner'[n])
  BY NoneType, Tables DEF CliAdd
<1> QED BY <1>1, <1>2, Tables, TableStep

LEMMA DeleteMemoryStep ==
  ASSUME AcctInv, NEW m \in Memories, DeleteMemory(m)
  PROVE  AcctInv'
<1>1. UNCHANGED <<users, sessions, keys, clock, job, raced>>
  BY DEF DeleteMemory
<1>2. /\ owner' \in [Memories -> AccountIds \cup {Placeholder, None}]
      /\ \A n \in Memories : owner'[n] \in AccountIds => Exists(owner'[n])
  BY NoneType, Tables DEF DeleteMemory
<1> QED BY <1>1, <1>2, Tables, TableStep

LEMMA AddMemoryStep ==
  ASSUME AcctInv, NEW t \in Tasks, NEW m \in Memories, AddMemory(t, m)
  PROVE  AcctInv'
<1>1. /\ UNCHANGED <<users, sessions, keys, clock, raced>>
      /\ owner' = [owner EXCEPT ![m] = job[t].acct]
      /\ End(t) \/ job' = job
      /\ job[t].acct \in AccountIds \cup {None}
      /\ job[t].acct # None => Exists(job[t].acct)
  BY Tables DEF AddMemory, Job
<1>2. /\ owner' \in [Memories -> AccountIds \cup {Placeholder, None}]
      /\ \A n \in Memories : owner'[n] \in AccountIds => Exists(owner'[n])
  BY <1>1, NoneType, Tables
<1>3. CASE End(t)
  BY <1>1, <1>2, <1>3, IdleType, NoneType, Tables, TaskStep DEF End, Go
<1>4. CASE job' = job
  BY <1>1, <1>2, <1>4, Tables, TableStep
<1> QED BY <1>1, <1>3, <1>4

LEMMA ReadStep ==
  ASSUME AcctInv, NEW t \in Tasks, NEW m \in Memories, Read(t, m)
  PROVE  AcctInv'
<1> DEFINE i == [Task("save", "none", None) EXCEPT !.mem = m]
           j == [i EXCEPT !.was = owner[m]]
<1>1. UNCHANGED <<users, sessions, keys, owner, clock, raced>> /\ Go(t, j)
  BY DEF Read
<1>2. /\ owner[m] \in AccountIds \cup {Placeholder, None}
      /\ owner[m] \in AccountIds => Exists(owner[m])
  BY Tables
<1>3. i \in Job /\ i.at = "save" /\ i.acct = None
  BY AccountsAssumption, SMT DEF Task, Job, Places, Ops
<1> HIDE DEF i
<1>4. j \in Job /\ j.at = "save" /\ j.acct = None /\ j.was = owner[m]
  BY <1>2, <1>3, SMT DEF Job
<1> HIDE DEF j
<1>5. PlaceOK(j)
  BY <1>4 DEF PlaceOK
<1> QED BY <1>1, <1>2, <1>4, <1>5, JobStep

LEMMA SaveStep ==
  ASSUME AcctInv, NEW t \in Tasks, Save(t)
  PROVE  AcctInv'
<1>1. /\ UNCHANGED <<users, sessions, keys, clock, raced>> /\ End(t)
      /\ owner' = [owner EXCEPT ![job[t].mem] = job[t].was]
      /\ job[t].was \in AccountIds \cup {Placeholder, None}
      /\ job[t].was \in AccountIds => Exists(job[t].was)
  BY Tables DEF Save, Job
<1>2. /\ owner' \in [Memories -> AccountIds \cup {Placeholder, None}]
      /\ \A m \in Memories : owner'[m] \in AccountIds => Exists(owner'[m])
  BY <1>1, Tables
<1> QED BY <1>1, <1>2, IdleType, NoneType, Tables, TaskStep DEF End, Go

LEMMA NextAcctInv == AcctInv /\ [Next]_vars => AcctInv'
<1> SUFFICES ASSUME AcctInv, [Next]_vars PROVE AcctInv'
  OBVIOUS
<1>1. ASSUME NEW t \in Tasks, NEW e \in Emails,
             NEW op \in {"web", "finalize", "tui", "mcp", "serve"}, Start(t, op, e)
      PROVE  AcctInv'
  BY <1>1, StartStep
<1>2. ASSUME NEW t \in Tasks, Resolve(t) \/ Count(t) \/ Insert(t) \/ Find(t) PROVE AcctInv'
  BY <1>2, ResolveStep, CountStep, InsertStep, FindStep
<1>3. ASSUME NEW t \in Tasks, CreateSession(t) \/ Page(t) \/ CreateKey(t) \/ Backfill(t)
      PROVE  AcctInv'
  BY <1>3, CreateSessionStep, PageStep, CreateKeyStep, BackfillStep
<1>4. ASSUME NEW t \in Tasks, NEW a \in AccountIds, Login(t, a) PROVE AcctInv'
  BY <1>4, LoginStep
<1>5. ASSUME NEW t \in Tasks, NEW a \in AccountIds, NEW e \in Emails,
             NEW place \in {"key", "rename", "add"}, Request(t, a, place, e)
      PROVE  AcctInv'
  BY <1>5, RequestStep
<1>6. ASSUME NEW t \in Tasks, NEW m \in Memories, AddMemory(t, m) \/ Read(t, m) PROVE AcctInv'
  BY <1>6, AddMemoryStep, ReadStep
<1>7. ASSUME NEW t \in Tasks, Rename(t) \/ Save(t) PROVE AcctInv'
  BY <1>7, RenameStep, SaveStep
<1>8. ASSUME NEW t \in Tasks, Stop(t) PROVE AcctInv'
  BY <1>8, EndStep DEF Stop
<1>9. ASSUME NEW c \in Tokens, EndSession(c) PROVE AcctInv'
  BY <1>9, EndSessionStep
<1>10. ASSUME NEW k \in Keys, DeleteKey(k) PROVE AcctInv'
  BY <1>10, DeleteKeyStep
<1>11. ASSUME NEW m \in Memories, CliAdd(m) \/ DeleteMemory(m) PROVE AcctInv'
  BY <1>11, CliAddStep, DeleteMemoryStep
<1>12. CASE UNCHANGED vars
  BY <1>12, Tables, TableStep DEF vars
<1> QED BY <1>1, <1>2, <1>3, <1>4, <1>5, <1>6, <1>7, <1>8, <1>9, <1>10, <1>11, <1>12 DEF Next

LEMMA AcctInvHolds == Spec => []AcctInv
  BY InitAcctInv, NextAcctInv, PTL DEF Spec

(* As long as no two setups overlapped between their count and their        *)
(* insert, every session, key, memory and frontend is of one account,       *)
(* whichever frontend made it and whatever died in between.                 *)
THEOREM OneAccount == Spec => []OneIdentity
<1>1. AcctInv => OneIdentity
  <2> SUFFICES ASSUME AcctInv, ~raced, NEW a \in References, NEW b \in References PROVE a = b
    BY DEF OneIdentity
  <2>1. ASSUME NEW d \in References PROVE d \in AccountIds /\ Exists(d)
    <3>1. d \in AccountIds /\ d # None
      BY NoneType DEF References
    <3> QED BY <3>1, Tables DEF References
  <2> QED BY <2>1 DEF AcctInv, RaceOK
<1> QED BY <1>1, AcctInvHolds, PTL

(* Once an account exists and no setup is about to insert, every frontend   *)
(* that resolves the account, now or after any restart, finds the same one. *)
THEOREM ResolutionSettles == Spec => IdentitySettles
<1>1. ASSUME AcctInv, [Next]_vars, Settled, NEW a \in AccountIds PROVE Oldest(a)' <=> Oldest(a)
  <2>1. CASE UNCHANGED users
    BY <2>1 DEF Oldest, Exists
  <2>2. ASSUME NEW t \in Tasks, Rename(t), users' # users PROVE Oldest(a)' <=> Oldest(a)
    <3> DEFINE d == job[t].acct
               row == Renamed(users[d], job[t].email)
    <3>1. users' = [users EXCEPT ![d] = row] /\ job[t].at = "rename"
      BY <2>2 DEF Rename
    <3>2. d \in AccountIds /\ Exists(d) /\ row # NoUser /\ row.stamp = users[d].stamp
      BY <1>1, <3>1, RenamedRow
    <3> HIDE DEF d, row
    <3>3. \A b \in AccountIds : /\ (users'[b] # NoUser <=> users[b] # NoUser)
                                /\ users'[b].stamp = users[b].stamp
      BY <1>1, <3>1, <3>2 DEF AcctInv, TypeOK, Exists
    <3> QED BY <3>3 DEF Oldest, Exists
  <2>3. ASSUME NEW t \in Tasks PROVE ~Insert(t)
    BY <1>1 DEF Settled, Insert
  <2>4. (\E t \in Tasks : Rename(t) \/ Insert(t)) \/ UNCHANGED users
    BY <1>1 DEF Next, vars, Start, Resolve, Count, Find, CreateSession, Page, CreateKey, Backfill,
                Login, Request, EndSession, DeleteKey, AddMemory, CliAdd, DeleteMemory,
                Read, Save, Stop
  <2> QED BY <2>1, <2>2, <2>3, <2>4
<1>2. AcctInv /\ [Next]_vars => [Settled => \A a \in AccountIds : Oldest(a)' <=> Oldest(a)]_vars
  BY <1>1
<1> QED BY <1>2, AcctInvHolds, PTL DEF Spec, IdentitySettles
=============================================================================
