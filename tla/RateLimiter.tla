----------------------------- MODULE RateLimiter ------------------------------
(***************************************************************************)
(* RateLimiter::check (memayu-api): a sliding window of the instants at     *)
(* which requests of a key were let through.  A request reads the clock,    *)
(* then waits for the lock, so requests may enter with instants that are    *)
(* out of order.  With the lock held nothing awaits: the rest of check is   *)
(* one step.  Time is counted in ticks, since instants are finer than the   *)
(* seconds of the answer.                                                   *)
(***************************************************************************)
EXTENDS Naturals, FiniteSets

CONSTANTS
  Tasks,        \* requests in flight
  ClientKeys,   \* API keys, sessions or addresses
  MaxRequests,  \* max_requests
  WindowSecs,   \* window_secs
  Ticks,        \* ticks of the clock in a second
  Skew,         \* bound: ticks a request waits between the clock and the lock
  Horizon,      \* bound: the last tick
  NoTime

ASSUME LimiterAssumption ==
  /\ MaxRequests \in Nat \ {0} /\ WindowSecs \in Nat \ {0} /\ Ticks \in Nat \ {0}
  /\ Skew \in Nat /\ Horizon \in Nat
  /\ NoTime \notin Nat

Window == WindowSecs * Ticks

VARIABLES
  clock,
  key, now,     \* of each request: its key and the instant it read, or NoTime
  windows,      \* key -> the requests of its window
  (* History variables. *)
  admitted,     \* key -> all requests let through
  due           \* key -> the earliest instant at which one that was refused
                \* since the last admission was told to come back, or NoTime

vars == <<clock, key, now, windows, admitted, due>>

(* An element of the Vec: no tells its place, at its value.                 *)
Entry == [no : Nat, at : Nat]

TypeOK ==
  /\ clock \in Nat
  /\ key \in [Tasks -> ClientKeys]
  /\ now \in [Tasks -> Nat \cup {NoTime}]
  /\ windows \in [ClientKeys -> SUBSET Entry]
  /\ admitted \in [ClientKeys -> SUBSET Entry]
  /\ due \in [ClientKeys -> Nat \cup {NoTime}]

Init ==
  /\ clock = 0
  /\ key \in [Tasks -> ClientKeys]
  /\ now = [t \in Tasks |-> NoTime]
  /\ windows = [k \in ClientKeys |-> {}]
  /\ admitted = [k \in ClientKeys |-> {}]
  /\ due = [k \in ClientKeys |-> NoTime]

Tick ==
  /\ clock < Horizon
  /\ \A t \in Tasks : now[t] # NoTime => clock < now[t] + Skew
  /\ clock' = clock + 1
  /\ UNCHANGED <<key, now, windows, admitted, due>>

(* Instant::now() *)
ReadClock(t, k) ==
  /\ now[t] = NoTime
  /\ key' = [key EXCEPT ![t] = k]
  /\ now' = [now EXCEPT ![t] = clock]
  /\ UNCHANGED <<clock, windows, admitted, due>>

(* timestamps.retain(|t| *t > window_start)                                 *)
Retained(k, n) == {e \in windows[k] : e.at + Window > n}

Full_OffByOne(W) == Cardinality(W) > MaxRequests

Full(W) == Cardinality(W) >= MaxRequests

(* duration_since is zero for an instant that lies ahead.                   *)
Elapsed(n, e) == IF n > e.at THEN n - e.at ELSE 0

(* Rounding the elapsed time up.                                            *)
RetryAfter_Short(n, e) ==
  LET secs == WindowSecs - ((Elapsed(n, e) + Ticks - 1) \div Ticks) IN
  IF secs > 1 THEN secs ELSE 1

(* The seconds until the first entry leaves; as_secs rounds down.           *)
RetryAfter(n, e) ==
  LET secs == WindowSecs - (Elapsed(n, e) \div Ticks) IN
  IF secs > 1 THEN secs ELSE 1

IsFirst(e, W) == e \in W /\ \A f \in W : e.no <= f.no

Leave(t) == now' = [now EXCEPT ![t] = NoTime] /\ UNCHANGED <<clock, key>>

Admit(t) ==
  LET k == key[t]
      kept == Retained(k, now[t])
      new == [no |-> Cardinality(admitted[k]), at |-> now[t]]
  IN /\ now[t] # NoTime
     /\ ~Full(kept)
     /\ windows' = [windows EXCEPT ![k] = kept \cup {new}]
     /\ admitted' = [admitted EXCEPT ![k] = @ \cup {new}]
     /\ due' = [due EXCEPT ![k] = NoTime]
     /\ Leave(t)

Refuse(t) ==
  LET k == key[t]
      kept == Retained(k, now[t])
  IN /\ now[t] # NoTime
     /\ Full(kept)
     /\ windows' = [windows EXCEPT ![k] = kept]
     /\ \E e \in kept :
          LET back == now[t] + RetryAfter(now[t], e) * Ticks IN
          /\ IsFirst(e, kept)
          /\ due' = [due EXCEPT ![k] = IF @ = NoTime \/ back < @ THEN back ELSE @]
     /\ UNCHANGED admitted
     /\ Leave(t)

Next ==
  \/ Tick
  \/ \E t \in Tasks :
       \/ \E k \in ClientKeys : ReadClock(t, k)
       \/ Admit(t)
       \/ Refuse(t)

Spec == Init /\ [][Next]_vars

------------------------------------------------------------------------------
(* Properties.                                                              *)

(* However the requests overtake each other on their way to the lock, no    *)
(* interval of a window's length, less what they may wait, sees more than   *)
(* MaxRequests of a key let through.                                        *)
WindowBound ==
  \A k \in ClientKeys : \A x \in 0 .. Horizon :
    Cardinality({e \in admitted[k] : x <= e.at /\ e.at + Skew < x + Window}) <= MaxRequests

(* A client that comes back when it was told to is let through, if nobody   *)
(* else of its key was in between: at worst it is early by what a request   *)
(* may wait for the lock.                                                   *)
RetrySuffices ==
  [][\A t \in Tasks :
       Refuse(t) /\ due[key[t]] # NoTime => now[t] < due[key[t]] + Skew]_vars
=============================================================================
