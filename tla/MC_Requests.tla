----------------------------- MODULE MC_Requests ------------------------------
(***************************************************************************)
(* What a request has to pass: the rate limiter, and the check of what it   *)
(* presents.  The two share nothing, so a behaviour is of one of them,      *)
(* `part`; and in one of the second, either the password and the address    *)
(* change, or keys come and go.                                             *)
(***************************************************************************)
EXTENDS RateLimiter, Credentials, TLC

CONSTANTS r1, r2, r3, k1, key1, key2

VARIABLE part

allvars == <<vars, credvars, part>>

Symmetry == Permutations(Tasks) \cup Permutations(ApiKeys)

RequestsInit ==
  /\ Init /\ CredInit
  /\ part \in {"limiter", "password", "keys"}
  /\ part = "limiter" => admin = CHOOSE row \in [email : Addresses, password : Passwords] : TRUE

LimiterNext == part = "limiter" /\ Next /\ UNCHANGED <<credvars, part>>

(* Two at a time.                                                           *)
Crowded == Cardinality({r \in Requests : request[r] # NoRequest}) > 2

(* No keys, no page: they have no part in a change.                         *)
PasswordNext ==
  /\ part = "password" /\ UNCHANGED <<vars, part>>
  /\ CredNext
  /\ UNCHANGED <<Table, Page>>
  /\ \A r \in Requests : request'[r].op \in {"none", "login", "change"}
  /\ ~Crowded'

(* No changes, and nobody logs in with a wrong password.  One label each.   *)
KeysNext ==
  /\ part = "keys" /\ UNCHANGED <<vars, part>>
  /\ CredNext
  /\ \A r \in Requests :
       request'[r].op # "change" /\ (request'[r].op = "login" => request'[r].expect = "in")
  /\ \A i, j \in ApiKeys : i # j /\ label'[i] # Unknown => label'[i] # label'[j]
  /\ ~Crowded'

RequestsSpec == RequestsInit /\ [][LimiterNext \/ PasswordNext \/ KeysNext]_allvars
=============================================================================
