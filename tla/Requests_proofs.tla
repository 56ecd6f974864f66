--------------------------- MODULE Requests_proofs ---------------------------
(***************************************************************************)
(* What stands between a request and the memories: the bounds of the rate   *)
(* limiter, for every limit, window, granularity of the clock and wait for  *)
(* the lock, and any number of requests and keys; then the credentials that *)
(* let a request in, for any number of requests, sessions, keys, addresses  *)
(* and passwords, in every interleaving of their statements.                *)
(***************************************************************************)
EXTENDS RateLimiter, Credentials, Integers, FiniteSetTheorems, TLAPS

(* The requests let through at an instant of the interval at x.             *)
Interval(k, x) == {e \in admitted[k] : x <= e.at /\ e.at + Skew < x + Window}

(* A request in flight read the clock at most Skew ticks ago.               *)
FreshClock == \A t \in Tasks : now[t] # NoTime => now[t] <= clock /\ clock <= now[t] + Skew

(* The window is what is left of all requests let through, none of which    *)
(* lies ahead of the clock; what left it is a window's length old by it.    *)
WindowOK(k) ==
  /\ windows[k] \subseteq admitted[k]
  /\ IsFiniteSet(admitted[k])
  /\ Cardinality(windows[k]) <= MaxRequests
  /\ \A e \in admitted[k] : e.at <= clock
  /\ \A e \in admitted[k] \ windows[k] : e.at + Window <= clock

(* Once somebody was refused, the window stays below the limit after an     *)
(* entry of it has left, and that happens by the time the client was told.  *)
DueOK(k) ==
  due[k] # NoTime =>
    \/ Cardinality(windows[k]) < MaxRequests
    \/ \E f \in windows[k] : f.at + Window <= due[k] + Skew

LimitInv ==
  /\ TypeOK
  /\ FreshClock
  /\ \A k \in ClientKeys : WindowOK(k)
  /\ \A k \in ClientKeys : DueOK(k)
  /\ \A k \in ClientKeys, x \in Nat : Cardinality(Interval(k, x)) <= MaxRequests

LEMMA WindowType == Window \in Nat
  BY LimiterAssumption, SMT DEF Window

(* The seconds of the answer and the time gone by cover the window.         *)
LEMMA RetryCovers ==
  ASSUME NEW n \in Nat, NEW e \in Entry
  PROVE  /\ RetryAfter(n, e) \in Nat
         /\ RetryAfter(n, e) * Ticks + Elapsed(n, e) >= Window
<1> DEFINE E == Elapsed(n, e)
<1> DEFINE q == E \div Ticks
<1> DEFINE r == RetryAfter(n, e)
<1>1. E \in Nat
  BY SMT DEF Elapsed, Entry
<1>2. q \in Nat /\ q * Ticks <= E
  <2> HIDE DEF E
  <2> QED BY <1>1, LimiterAssumption, SMT
<1>3. r \in Nat /\ r + q >= WindowSecs
  <2> HIDE DEF E
  <2>1. r = IF WindowSecs - q > 1 THEN WindowSecs - q ELSE 1
    BY DEF RetryAfter, E
  <2> HIDE DEF r, q
  <2> QED BY <1>2, <2>1, LimiterAssumption, SMT
<1> HIDE DEF E, q, r
<1>4. (r + q) * Ticks >= WindowSecs * Ticks
  BY <1>2, <1>3, LimiterAssumption, SMT
<1>5. (r + q) * Ticks = r * Ticks + q * Ticks
  BY <1>2, <1>3, LimiterAssumption, SMT
<1>6. r * Ticks \in Nat /\ q * Ticks \in Nat
  BY <1>2, <1>3, LimiterAssumption, SMT
<1>7. r * Ticks + E >= Window
  BY <1>1, <1>2, <1>4, <1>5, <1>6, WindowType, SMT DEF Window
<1> QED BY <1>3, <1>7 DEF r, E

------------------------------------------------------------------------------
LEMMA InitLimitInv == Init => LimitInv
<1> SUFFICES ASSUME Init PROVE LimitInv
  OBVIOUS
<1>1. TypeOK
  BY SMT DEF Init, TypeOK
<1>2. FreshClock
  BY DEF Init, FreshClock
<1>3. \A k \in ClientKeys : WindowOK(k)
  BY FS_EmptySet, LimiterAssumption, SMT DEF Init, WindowOK
<1>4. \A k \in ClientKeys : DueOK(k)
  BY DEF Init, DueOK
<1>5. ASSUME NEW k \in ClientKeys, NEW x \in Nat
      PROVE  Cardinality(Interval(k, x)) <= MaxRequests
  <2>1. Interval(k, x) = {}
    BY DEF Init, Interval
  <2> QED BY <2>1, FS_EmptySet, LimiterAssumption, SMT
<1> QED BY <1>1, <1>2, <1>3, <1>4, <1>5 DEF LimitInv

(* What is kept of a window, and its size.                                  *)
LEMMA KeptType ==
  ASSUME LimitInv, NEW k \in ClientKeys, NEW n \in Nat
  PROVE  /\ Retained(k, n) \subseteq windows[k]
         /\ IsFiniteSet(windows[k]) /\ IsFiniteSet(Retained(k, n))
         /\ Cardinality(windows[k]) \in Nat /\ Cardinality(Retained(k, n)) \in Nat
         /\ Full(Retained(k, n)) => Retained(k, n) = windows[k]
<1>1. Retained(k, n) \subseteq windows[k]
  BY DEF Retained
<1>2. windows[k] \subseteq admitted[k] /\ IsFiniteSet(admitted[k])
      /\ Cardinality(windows[k]) <= MaxRequests
  BY DEF LimitInv, WindowOK
<1>3. IsFiniteSet(windows[k])
  BY <1>2, FS_Subset
<1>4. /\ IsFiniteSet(Retained(k, n))
      /\ Cardinality(Retained(k, n)) <= Cardinality(windows[k])
      /\ Cardinality(windows[k]) = Cardinality(Retained(k, n)) => windows[k] = Retained(k, n)
  BY <1>1, <1>3, FS_Subset
<1>5. Cardinality(windows[k]) \in Nat /\ Cardinality(Retained(k, n)) \in Nat
  BY <1>3, <1>4, FS_CardinalityType
<1>6. Full(Retained(k, n)) => Retained(k, n) = windows[k]
  <2> SUFFICES ASSUME Full(Retained(k, n)) PROVE windows[k] = Retained(k, n)
    OBVIOUS
  <2>1. Cardinality(Retained(k, n)) >= MaxRequests
    BY DEF Full
  <2>2. Cardinality(windows[k]) = Cardinality(Retained(k, n))
    BY <1>2, <1>4, <1>5, <2>1, LimiterAssumption, SMT
  <2> QED BY <1>4, <2>2
<1> QED BY <1>1, <1>3, <1>4, <1>5, <1>6

LEMMA TickLimitInv == LimitInv /\ Tick => LimitInv'
<1> SUFFICES ASSUME LimitInv, Tick PROVE LimitInv'
  OBVIOUS
<1>1. TypeOK'
  BY SMT DEF LimitInv, TypeOK, Tick
<1>2. FreshClock'
  BY LimiterAssumption, SMT DEF LimitInv, TypeOK, FreshClock, Tick
<1>3. ASSUME NEW k \in ClientKeys PROVE WindowOK(k)'
  <2>1. admitted[k] \subseteq Entry /\ clock \in Nat /\ clock' = clock + 1
    BY DEF LimitInv, TypeOK, Tick
  <2>2. WindowOK(k) /\ windows' = windows /\ admitted' = admitted
    BY DEF LimitInv, Tick
  <2> QED BY <2>1, <2>2, WindowType, SMT DEF WindowOK, Entry
<1>4. \A k \in ClientKeys : DueOK(k)'
  BY DEF LimitInv, DueOK, Tick
<1>5. \A k \in ClientKeys, x \in Nat : Cardinality(Interval(k, x)') <= MaxRequests
  BY DEF LimitInv, Interval, Tick
<1> QED BY <1>1, <1>2, <1>3, <1>4, <1>5 DEF LimitInv

LEMMA ReadClockLimitInv ==
  ASSUME LimitInv, NEW t \in Tasks, NEW c \in ClientKeys, ReadClock(t, c)
  PROVE  LimitInv'
<1>1. TypeOK'
  BY SMT DEF LimitInv, TypeOK, ReadClock
<1>2. FreshClock'
  BY LimiterAssumption, SMT DEF LimitInv, TypeOK, FreshClock, ReadClock
<1>3. \A k \in ClientKeys : WindowOK(k)' /\ DueOK(k)'
  BY DEF LimitInv, WindowOK, DueOK, ReadClock
<1>4. \A k \in ClientKeys, x \in Nat : Cardinality(Interval(k, x)') <= MaxRequests
  BY DEF LimitInv, Interval, ReadClock
<1> QED BY <1>1, <1>2, <1>3, <1>4 DEF LimitInv

LEMMA AdmitLimitInv ==
  ASSUME LimitInv, NEW t \in Tasks, Admit(t)
  PROVE  LimitInv'
<1> DEFINE c == key[t]
<1> DEFINE n == now[t]
<1> DEFINE kept == Retained(c, n)
<1> DEFINE new == [no |-> Cardinality(admitted[c]), at |-> n]
<1>1. /\ c \in ClientKeys /\ n \in Nat /\ clock \in Nat
      /\ n <= clock /\ clock <= n + Skew
  <2>1. now[t] # NoTime
    BY DEF Admit
  <2>2. now[t] \in Nat /\ key[t] \in ClientKeys /\ clock \in Nat
    BY <2>1 DEF LimitInv, TypeOK
  <2>3. now[t] <= clock /\ clock <= now[t] + Skew
    BY <2>1 DEF LimitInv, FreshClock
  <2> QED BY <2>2, <2>3
<1>2. /\ windows' = [windows EXCEPT ![c] = kept \cup {new}]
      /\ admitted' = [admitted EXCEPT ![c] = admitted[c] \cup {new}]
      /\ due' = [due EXCEPT ![c] = NoTime]
      /\ now' = [now EXCEPT ![t] = NoTime]
      /\ clock' = clock /\ key' = key
      /\ ~Full(kept)
  BY DEF Admit, Leave
<1>3. /\ admitted[c] \subseteq Entry /\ windows[c] \subseteq admitted[c]
      /\ IsFiniteSet(admitted[c])
      /\ \A e \in admitted[c] : e.at <= clock
      /\ \A e \in admitted[c] \ windows[c] : e.at + Window <= clock
  BY <1>1 DEF LimitInv, TypeOK, WindowOK
<1>4. /\ kept \subseteq windows[c] /\ IsFiniteSet(kept)
      /\ Cardinality(kept) \in Nat
  BY <1>1, KeptType
<1>5. new \in Entry /\ new.at = n
  BY <1>1, <1>3, FS_CardinalityType DEF Entry
<1>6. \A e \in admitted[c] \ kept : e.at + Window <= clock
  <2> TAKE e \in admitted[c] \ kept
  <2>1. CASE e \notin windows[c]
    BY <1>3, <2>1
  <2>2. CASE e \in windows[c]
    <3>1. ~(e.at + Window > n)
      BY <2>2 DEF Retained
    <3>2. e.at \in Nat
      BY <1>3 DEF Entry
    <3> QED BY <1>1, <3>1, <3>2, WindowType, SMT
  <2> QED BY <2>1, <2>2
<1>7. /\ IsFiniteSet(kept \cup {new})
      /\ Cardinality(kept \cup {new}) \in Nat
      /\ Cardinality(kept \cup {new}) <= MaxRequests
  <2>1. /\ IsFiniteSet(kept \cup {new})
        /\ Cardinality(kept \cup {new}) = IF new \in kept THEN Cardinality(kept)
                                                          ELSE Cardinality(kept) + 1
    BY <1>4, FS_AddElement
  <2>2. ~(Cardinality(kept) >= MaxRequests)
    BY <1>2 DEF Full
  <2> HIDE DEF kept, new
  <2> QED BY <1>4, <2>1, <2>2, LimiterAssumption, SMT
<1>8. TypeOK'
  <2>1. kept \cup {new} \subseteq Entry /\ admitted[c] \cup {new} \subseteq Entry
    BY <1>3, <1>4, <1>5
  <2> HIDE DEF kept, new, c, n
  <2> QED BY <1>1, <1>2, <2>1, SMT DEF LimitInv, TypeOK
<1>9. FreshClock'
  <2> HIDE DEF kept, new, c
  <2> QED BY <1>1, <1>2, LimiterAssumption, SMT DEF LimitInv, TypeOK, FreshClock
<1>10. windows'[c] = kept \cup {new} /\ admitted'[c] = admitted[c] \cup {new}
  BY <1>1, <1>2 DEF LimitInv, TypeOK
<1>11. \A k \in ClientKeys : k # c => windows'[k] = windows[k] /\ admitted'[k] = admitted[k]
  BY <1>1, <1>2 DEF LimitInv, TypeOK
<1>12. ASSUME NEW k \in ClientKeys PROVE WindowOK(k)'
  <2>1. CASE k = c
    <3>1. windows'[c] \subseteq admitted'[c] /\ IsFiniteSet(admitted'[c])
      <4>1. IsFiniteSet(admitted[c] \cup {new})
        BY <1>3, FS_AddElement
      <4>2. kept \cup {new} \subseteq admitted[c] \cup {new}
        BY <1>3, <1>4
      <4> QED BY <1>10, <4>1, <4>2
    <3>2. Cardinality(windows'[c]) <= MaxRequests
      BY <1>7, <1>10
    <3>3. \A e \in admitted'[c] : e.at <= clock
      BY <1>1, <1>3, <1>5, <1>10
    <3>4. \A e \in admitted'[c] \ windows'[c] : e.at + Window <= clock
      BY <1>6, <1>10
    <3> QED BY <1>2, <2>1, <3>1, <3>2, <3>3, <3>4 DEF WindowOK
  <2>2. CASE k # c
    BY <1>2, <1>11, <2>2 DEF LimitInv, WindowOK
  <2> QED BY <2>1, <2>2
<1>13. ASSUME NEW k \in ClientKeys PROVE DueOK(k)'
  <2>1. CASE k = c
    <3>1. due'[c] = NoTime
      BY <1>1, <1>2 DEF LimitInv, TypeOK
    <3> QED BY <2>1, <3>1 DEF DueOK
  <2>2. CASE k # c
    <3>1. due'[k] = due[k]
      BY <1>2, <2>2 DEF LimitInv, TypeOK
    <3> QED BY <1>11, <2>2, <3>1 DEF LimitInv, DueOK
  <2> QED BY <2>1, <2>2
<1>14. ASSUME NEW k \in ClientKeys, NEW x \in Nat
       PROVE  Cardinality(Interval(k, x)') <= MaxRequests
  <2>1. CASE k # c
    <3>1. Interval(k, x)' = Interval(k, x)
      BY <1>11, <2>1 DEF Interval
    <3> QED BY <3>1 DEF LimitInv
  <2>2. CASE k = c /\ ~(x <= n /\ n + Skew < x + Window)
    <3>1. Interval(k, x)' = Interval(k, x)
      BY <1>5, <1>10, <2>2 DEF Interval
    <3> QED BY <3>1 DEF LimitInv
  <2>3. CASE k = c /\ x <= n /\ n + Skew < x + Window
    <3>1. ASSUME NEW e \in admitted[c] \ kept, x <= e.at PROVE FALSE
      <4>1. e.at + Window <= clock /\ e.at \in Nat
        BY <1>3, <1>6 DEF Entry
      <4> QED BY <1>1, <2>3, <3>1, <4>1, WindowType, LimiterAssumption, SMT
    <3>2. Interval(k, x)' \subseteq kept \cup {new}
      BY <1>10, <2>3, <3>1 DEF Interval
    <3>3. /\ IsFiniteSet(Interval(k, x)')
          /\ Cardinality(Interval(k, x)') <= Cardinality(kept \cup {new})
      BY <1>7, <3>2, FS_Subset
    <3>4. Cardinality(Interval(k, x)') \in Nat
      BY <3>3, FS_CardinalityType
    <3> HIDE DEF kept, new
    <3> QED BY <1>7, <3>3, <3>4, LimiterAssumption, SMT
  <2> QED BY <2>1, <2>2, <2>3
<1> QED BY <1>8, <1>9, <1>12, <1>13, <1>14 DEF LimitInv

LEMMA RefuseLimitInv ==
  ASSUME LimitInv, NEW t \in Tasks, Refuse(t)
  PROVE  LimitInv'
<1> DEFINE c == key[t]
<1> DEFINE n == now[t]
<1> DEFINE kept == Retained(c, n)
<1>1. /\ c \in ClientKeys /\ n \in Nat /\ clock \in Nat
      /\ n <= clock /\ clock <= n + Skew
  <2>1. now[t] # NoTime
    BY DEF Refuse
  <2>2. now[t] \in Nat /\ key[t] \in ClientKeys /\ clock \in Nat
    BY <2>1 DEF LimitInv, TypeOK
  <2>3. now[t] <= clock /\ clock <= now[t] + Skew
    BY <2>1 DEF LimitInv, FreshClock
  <2> QED BY <2>2, <2>3
<1>2. kept = windows[c]
  <2>1. Full(kept)
    BY DEF Refuse
  <2> QED BY <1>1, <2>1, KeptType
<1>3. windows' = windows /\ admitted' = admitted
  <2>1. windows' = [windows EXCEPT ![c] = windows[c]]
    BY <1>2 DEF Refuse
  <2>2. windows' = windows
    BY <1>1, <2>1 DEF LimitInv, TypeOK
  <2> QED BY <2>2 DEF Refuse
<1>4. now' = [now EXCEPT ![t] = NoTime] /\ clock' = clock /\ key' = key
  BY DEF Refuse, Leave
<1>5. PICK e \in kept :
        due' = [due EXCEPT ![c] = IF due[c] = NoTime \/ n + RetryAfter(n, e) * Ticks < due[c]
                                  THEN n + RetryAfter(n, e) * Ticks ELSE due[c]]
  BY DEF Refuse
<1> DEFINE back == n + RetryAfter(n, e) * Ticks
<1>6. e \in Entry /\ e.at \in Nat /\ e.at <= clock
  <2>1. windows[c] \subseteq admitted[c] /\ admitted[c] \subseteq Entry
        /\ \A f \in admitted[c] : f.at <= clock
    BY <1>1 DEF LimitInv, TypeOK, WindowOK
  <2> QED BY <1>2, <2>1 DEF Entry
<1>7. back \in Nat /\ e.at + Window <= back + Skew
  <2>1. /\ RetryAfter(n, e) \in Nat
        /\ RetryAfter(n, e) * Ticks + Elapsed(n, e) >= Window
    BY <1>1, <1>6, RetryCovers
  <2>2. RetryAfter(n, e) * Ticks \in Nat
    BY <2>1, LimiterAssumption, SMT
  <2>3. Elapsed(n, e) = IF n > e.at THEN n - e.at ELSE 0
    BY DEF Elapsed
  <2> DEFINE rt == RetryAfter(n, e) * Ticks
  <2> HIDE DEF rt
  <2>4. back = n + rt /\ rt \in Nat /\ rt + Elapsed(n, e) >= Window
    BY <2>1, <2>2 DEF rt
  <2> HIDE DEF back, n
  <2> QED BY <1>1, <1>6, <2>3, <2>4, WindowType, LimiterAssumption, SMT
<1>8. due'[c] = back \/ (due[c] # NoTime /\ due'[c] = due[c])
  BY <1>1, <1>5 DEF LimitInv, TypeOK
<1>9. \A k \in ClientKeys : k # c => due'[k] = due[k]
  BY <1>5 DEF LimitInv, TypeOK
<1>10. TypeOK'
  <2>1. due' \in [ClientKeys -> Nat \cup {NoTime}]
    BY <1>1, <1>5, <1>7 DEF LimitInv, TypeOK
  <2> QED BY <1>3, <1>4, <2>1 DEF LimitInv, TypeOK
<1>11. FreshClock'
  BY <1>4, SMT DEF LimitInv, TypeOK, FreshClock
<1>12. \A k \in ClientKeys : WindowOK(k)'
  BY <1>3, <1>4 DEF LimitInv, WindowOK
<1>13. ASSUME NEW k \in ClientKeys PROVE DueOK(k)'
  <2>1. CASE k = c /\ due'[c] = back
    <3>1. \E f \in windows'[k] : f.at + Window <= due'[k] + Skew
      BY <1>2, <1>3, <1>7, <2>1
    <3> QED BY <3>1 DEF DueOK
  <2>2. CASE due'[k] = due[k]
    BY <1>3, <2>2 DEF LimitInv, DueOK
  <2> QED BY <1>8, <1>9, <2>1, <2>2
<1>14. \A k \in ClientKeys, x \in Nat : Cardinality(Interval(k, x)') <= MaxRequests
  BY <1>3 DEF LimitInv, Interval
<1> QED BY <1>10, <1>11, <1>12, <1>13, <1>14 DEF LimitInv

LEMMA NextLimitInv == LimitInv /\ [Next]_vars => LimitInv'
<1> SUFFICES ASSUME LimitInv, [Next]_vars PROVE LimitInv'
  OBVIOUS
<1>1. CASE Tick
  BY <1>1, TickLimitInv
<1>2. ASSUME NEW t \in Tasks, NEW k \in ClientKeys, ReadClock(t, k) PROVE LimitInv'
  BY <1>2, ReadClockLimitInv
<1>3. ASSUME NEW t \in Tasks, Admit(t) PROVE LimitInv'
  BY <1>3, AdmitLimitInv
<1>4. ASSUME NEW t \in Tasks, Refuse(t) PROVE LimitInv'
  BY <1>4, RefuseLimitInv
<1>5. CASE UNCHANGED vars
  BY <1>5 DEF vars, LimitInv, TypeOK, FreshClock, WindowOK, DueOK, Interval
<1> QED BY <1>1, <1>2, <1>3, <1>4, <1>5 DEF Next

LEMMA LimitInvHolds == Spec => []LimitInv
BY InitLimitInv, NextLimitInv, PTL DEF Spec

------------------------------------------------------------------------------
(* However requests overtake each other between the clock and the lock of   *)
(* RateLimiter::check, no interval of a window's length, less what they     *)
(* wait, sees more than MaxRequests of a key let through.                   *)
THEOREM LimitHolds == Spec => []WindowBound
<1>1. LimitInv => WindowBound
  BY LimiterAssumption, SMT DEF LimitInv, WindowBound, Interval
<1> QED BY <1>1, LimitInvHolds, PTL

(* The retry_after of RateLimiter::check is long enough: a client that      *)
(* comes back when it was told to, and finds nobody else of its key was let *)
(* through meanwhile, is not refused, up to the wait for the lock.          *)
THEOREM RetryIsLongEnough == Spec => RetrySuffices
<1>1. ASSUME LimitInv, NEW t \in Tasks, Refuse(t), due[key[t]] # NoTime
      PROVE  now[t] < due[key[t]] + Skew
  <2> DEFINE c == key[t]
  <2> DEFINE n == now[t]
  <2>1. c \in ClientKeys /\ n \in Nat /\ due[c] \in Nat
    BY <1>1 DEF LimitInv, TypeOK, Refuse
  <2>2. Full(Retained(c, n)) /\ Retained(c, n) = windows[c]
    BY <1>1, <2>1, KeptType DEF Refuse
  <2>3. Cardinality(windows[c]) \in Nat /\ ~(Cardinality(windows[c]) < MaxRequests)
    <3>1. Cardinality(windows[c]) >= MaxRequests
      BY <2>2 DEF Full
    <3>2. Cardinality(windows[c]) \in Nat
      BY <1>1, <2>1, KeptType
    <3> HIDE DEF c
    <3> QED BY <3>1, <3>2, LimiterAssumption, SMT
  <2>4. PICK f \in windows[c] : f.at + Window <= due[c] + Skew
    BY <1>1, <2>1, <2>3 DEF LimitInv, DueOK
  <2>5. f.at + Window > n
    BY <2>2, <2>4 DEF Retained
  <2>6. f.at \in Nat
    BY <1>1, <2>1, <2>4 DEF LimitInv, TypeOK, WindowOK, Entry
  <2> QED BY <2>1, <2>4, <2>5, <2>6, WindowType, LimiterAssumption, SMT
<1>2. LimitInv /\ [Next]_vars =>
        [\A t \in Tasks :
           Refuse(t) /\ due[key[t]] # NoTime => now[t] < due[key[t]] + Skew]_vars
  BY <1>1
<1> QED BY <1>2, LimitInvHolds, PTL DEF Spec, RetrySuffices

------------------------------------------------------------------------------
(* The locals of a request, by what it is for.                              *)
RequestShape(q) ==
  /\ {"at", "op"} \subseteq DOMAIN q
  /\ q.op \in {"none", "login", "change", "call", "delete"}
  /\ q.op = "none" => q.at = "none"
  /\ q.op = "login" =>
       /\ {"email", "password", "expect"} \subseteq DOMAIN q
       /\ q.at \in {"find", "open", "in", "out"} /\ q.expect \in {"in", "out", "any"}
  /\ q.op = "change" =>
       /\ {"column", "new", "row", "alone", "late", "cookie"} \subseteq DOMAIN q
       /\ q.at \in {"cookie", "inside", "update", "changed"}
       /\ q.at = "cookie" => q.cookie \in Cookies
       /\ \/ q.column = "email" /\ q.new \in Addresses
          \/ q.column = "password" /\ q.new \in Passwords
       /\ q.late \in BOOLEAN /\ q.alone \in BOOLEAN
  /\ q.op = "call" =>
       /\ "late" \in DOMAIN q /\ q.late \in BOOLEAN
       /\ q.at \in {"cookie", "key", "touch", "inside"}
       /\ q.at = "cookie" => "cookie" \in DOMAIN q /\ q.cookie \in Cookies
       /\ q.at = "key" => "key" \in DOMAIN q /\ q.key \in ApiKeys
  /\ q.op = "delete" =>
       /\ {"cookie", "late", "key", "typed", "rows"} \subseteq DOMAIN q
       /\ q.at \in {"cookie", "inside", "list", "render"}
       /\ q.cookie \in Cookies /\ q.key \in ApiKeys /\ q.late \in BOOLEAN

Made == {k \in ApiKeys : label[k] # Unknown}

(* A change knows that nothing is promised of its column, and one that is    *)
(* alone what it has stored.                                                *)
ChangeOK(q) ==
  q.op = "change" =>
    /\ promised[q.column] = Unknown
    /\ q.alone /\ q.at = "changed" => admin[q.column] = q.new

(* A login that is certain of its answer gets it.                           *)
LoginOK(q) ==
  q.op = "login" =>
    /\ q.expect # "any" =>
         /\ Unknown \notin {promised.email, promised.password}
         /\ (q.expect = "in") = (promised = [email |-> q.email, password |-> q.password])
    /\ q.at \in {"open", "in"} => q.expect # "out"
    /\ q.at = "out" => q.expect # "in"

(* Who comes too late is stopped where it is checked.                       *)
LateOK(q) ==
  q.op \in {"change", "call", "delete"} /\ q.late =>
    \/ q.at = "cookie" /\ cookies[q.cookie] = "gone"
    \/ q.at = "key" /\ q.key \in revoked

(* The delete of a page is of a key with the label that was typed.          *)
DeleteOK(q) ==
  q.op = "delete" =>
    /\ q.key \in Made /\ q.typed = label[q.key] /\ q.rows \subseteq Made
    /\ q.at \in {"list", "render"} => q.key \notin present

RequestOK(q) == RequestShape(q) /\ ChangeOK(q) /\ LoginOK(q) /\ LateOK(q) /\ DeleteOK(q)

CredTyped ==
  /\ admin \in [email : Addresses, password : Passwords]
  /\ promised \in [email : Addresses \cup {Unknown}, password : Passwords \cup {Unknown}]
  /\ cookies \in [Cookies -> {"unused", "live", "gone"}]
  /\ label \in [ApiKeys -> Labels \cup {Unknown}]
  /\ DOMAIN request = Requests

(* Of two changes of one column in flight, none is alone.                   *)
AloneInv ==
  \A r, s \in Requests :
    /\ r # s /\ request[r].op = "change" /\ request[s].op = "change"
    /\ request[r].column = request[s].column
    => ~request[r].alone

(* What is promised is stored; a key whose deletion was answered has no row, *)
(* and never again, since its label stays with it.                          *)
TableInv ==
  /\ \A column \in Columns : promised[column] \in {Unknown, admin[column]}
  /\ present \subseteq Made
  /\ revoked \subseteq Made \ present

(* The page shows keys that were made, and its button is enabled for the     *)
(* label of the key that was chosen.                                        *)
PageInv ==
  /\ shown \subseteq Made
  /\ {"open", "key", "typed", "enabled"} \subseteq DOMAIN dialog
  /\ dialog.open => dialog.key \in Made
  /\ dialog.open /\ dialog.enabled => dialog.typed = label[dialog.key]

CredInv ==
  /\ CredTyped
  /\ \A r \in Requests : RequestOK(request[r])
  /\ AloneInv /\ TableInv /\ PageInv

------------------------------------------------------------------------------
(* A step of one request that changes nothing else.                         *)
LEMMA RequestStep ==
  ASSUME CredInv, NEW r \in Requests, NEW q, Goes(r, q),
         UNCHANGED <<admin, cookies, label, present, revoked, promised>>,
         RequestOK(q), PageInv',
         q.op = "change" =>
           /\ request[r].op = "change"
           /\ q.column = request[r].column /\ q.alone = request[r].alone
  PROVE  CredInv'
<1>1. /\ DOMAIN request' = Requests /\ request'[r] = q
      /\ \A s \in Requests \ {r} : request'[s] = request[s]
  BY DEF CredInv, CredTyped, Goes
<1>2. CredTyped'
  BY <1>1 DEF CredInv, CredTyped
<1>3. \A s \in Requests : RequestOK(request'[s])
  BY <1>1 DEF CredInv
<1>4. \A s \in Requests : RequestOK(request[s])'
  BY <1>3 DEF RequestOK, RequestShape, ChangeOK, LoginOK, LateOK, DeleteOK, Made
<1>5. AloneInv'
  BY <1>1 DEF CredInv, AloneInv
<1>6. TableInv'
  BY DEF CredInv, TableInv, Made
<1> QED BY <1>2, <1>4, <1>5, <1>6 DEF CredInv

(* What a request knows outlasts the steps of others, but for two things.    *)
LEMMA OthersKeep ==
  ASSUME NEW s \in Requests, RequestOK(request[s]), request'[s] = request[s],
         request[s].op = "change" =>
           /\ promised'[request[s].column] = Unknown
           /\ request[s].alone => admin'[request[s].column] = admin[request[s].column],
         request[s].op = "login" =>
           request[s].expect = "any" \/ UNCHANGED promised,
         \A c \in Cookies : cookies[c] = "gone" => cookies'[c] = "gone",
         revoked \subseteq revoked',
         \A k \in Made : label'[k] = label[k] /\ (k \in present' => k \in present)
  PROVE  RequestOK(request[s])'
<1> DEFINE q == request[s]
<1>1. RequestShape(request[s])'
  BY DEF RequestOK, RequestShape
<1>2. Made \subseteq Made'
  BY DEF Made
<1>3. ChangeOK(request[s])'
  BY DEF RequestOK, ChangeOK
<1>4. LoginOK(request[s])'
  BY DEF RequestOK, LoginOK, RequestShape
<1>5. LateOK(request[s])'
  BY DEF RequestOK, LateOK, RequestShape
<1>6. DeleteOK(request[s])'
  <2> SUFFICES ASSUME q.op = "delete" PROVE DeleteOK(request[s])'
    BY DEF DeleteOK
  <2>1. /\ q.key \in Made /\ q.typed = label[q.key] /\ q.rows \subseteq Made
        /\ q.at \in {"list", "render"} => q.key \notin present
    BY DEF RequestOK, DeleteOK
  <2> QED BY <1>2, <2>1 DEF DeleteOK
<1> QED BY <1>1, <1>3, <1>4, <1>5, <1>6 DEF RequestOK

(* A step of one request that changes cookies or keys, too, and one of the   *)
(* page or of a cookie alone.                                               *)
LEMMA TableStep ==
  ASSUME CredInv, NEW r \in Requests, NEW q, Goes(r, q), RequestOK(request[r])',
         UNCHANGED <<admin, promised>>,
         \A c \in Cookies : cookies[c] = "gone" => cookies'[c] = "gone",
         revoked \subseteq revoked',
         \A k \in Made : label'[k] = label[k] /\ (k \in present' => k \in present),
         CredTyped', TableInv', PageInv',
         q.op = "change" =>
           /\ request[r].op = "change"
           /\ q.column = request[r].column /\ q.alone = request[r].alone
  PROVE  CredInv'
<1>1. /\ DOMAIN request' = Requests /\ request'[r] = q
      /\ \A s \in Requests \ {r} : request'[s] = request[s]
  BY DEF CredInv, CredTyped, Goes
<1>2. ASSUME NEW s \in Requests \ {r} PROVE RequestOK(request[s])'
  <2>1. RequestOK(request[s]) /\ request'[s] = request[s]
    BY <1>1 DEF CredInv
  <2>2. request[s].op = "change" => promised[request[s].column] = Unknown
    BY <2>1 DEF RequestOK, ChangeOK
  <2> QED BY <2>1, <2>2, OthersKeep
<1>3. AloneInv'
  BY <1>1 DEF CredInv, AloneInv
<1>4. \A s \in Requests : RequestOK(request[s])'
  BY <1>2
<1> QED BY <1>3, <1>4 DEF CredInv

LEMMA PageStep ==
  ASSUME CredInv,
         UNCHANGED <<admin, label, present, revoked, request, promised>>,
         cookies' \in [Cookies -> {"unused", "live", "gone"}],
         \A c \in Cookies : cookies[c] = "gone" => cookies'[c] = "gone",
         PageInv'
  PROVE  CredInv'
<1>1. CredTyped' /\ AloneInv' /\ TableInv'
  BY DEF CredInv, CredTyped, AloneInv, TableInv, Made
<1>2. ASSUME NEW s \in Requests PROVE RequestOK(request[s])'
  <2>1. RequestOK(request[s]) /\ request'[s] = request[s]
    BY DEF CredInv
  <2>2. request[s].op = "change" => promised[request[s].column] = Unknown
    BY <2>1 DEF RequestOK, ChangeOK
  <2> QED BY <2>1, <2>2, OthersKeep DEF Made
<1> QED BY <1>1, <1>2 DEF CredInv

(* A request whose place changes, or that is gone.                          *)
LEMMA PlaceFields ==
  ASSUME NEW q, NEW place, RequestShape(q)
  PROVE  LET p == [q EXCEPT !.at = place] IN
         /\ p.at = place /\ DOMAIN p = DOMAIN q /\ \A f \in DOMAIN q \ {"at"} : p[f] = q[f]
BY DEF RequestShape

LEMMA NothingOK == RequestOK(NoRequest) /\ NoRequest.op = "none"
BY DEF NoRequest, RequestOK, RequestShape, ChangeOK, LoginOK, LateOK, DeleteOK

LEMMA EndStep ==
  ASSUME CredInv, NEW r \in Requests, Ends(r),
         UNCHANGED <<admin, cookies, Table, promised, Page>>
  PROVE  CredInv'
<1>1. PageInv'
  BY DEF CredInv, PageInv, Page, Table, Made
<1> QED BY <1>1, NothingOK, RequestStep DEF Ends, Table

(* The places that a request may take after the one it is at.               *)
LEMMA OntoStep ==
  ASSUME CredInv, NEW r \in Requests, NEW place, Onto(r, place),
         UNCHANGED <<admin, cookies, Table, promised, Page>>,
         RequestOK([request[r] EXCEPT !.at = place])
  PROVE  CredInv'
<1>1. PageInv'
  BY DEF CredInv, PageInv, Page, Table, Made
<1>2. RequestShape(request[r])
  BY DEF CredInv, RequestOK
<1>3. LET q == [request[r] EXCEPT !.at = place] IN
      q.op = "change" => /\ request[r].op = "change"
                         /\ q.column = request[r].column /\ q.alone = request[r].alone
  BY <1>2, PlaceFields DEF RequestShape
<1> QED BY <1>1, <1>3, RequestStep DEF Onto, Table

LEMMA PlainCalls ==
  ASSUME CredInv, NEW r \in Requests,
         \/ FindUser(r) \/ EmailLetIn(r) \/ ResolveSession(r) \/ FindKey(r) \/ TouchKey(r)
         \/ Finish(r) \/ Drop(r)
  PROVE  CredInv'
<1> DEFINE onto(place) == [request[r] EXCEPT !.at = place]
<1>1. RequestOK(request[r]) /\ RequestShape(request[r])
  BY DEF CredInv, RequestOK
<1> USE DEF RequestOK, RequestShape, ChangeOK, LoginOK, LateOK, DeleteOK
<1>2. CASE FindUser(r)
  <2> DEFINE place == IF admin = [email |-> request[r].email, password |-> request[r].password]
                      THEN "open" ELSE "out"
  <2>1. Onto(r, place) /\ UNCHANGED <<admin, cookies, Table, promised, Page>>
    BY <1>2 DEF FindUser
  <2>2. request[r].expect # "any" => promised = admin
    <3>1. /\ \A column \in {"email", "password"} : promised[column] \in {Unknown, admin[column]}
          /\ admin \in [email : Addresses, password : Passwords]
          /\ promised \in [email : Addresses \cup {Unknown}, password : Passwords \cup {Unknown}]
      BY DEF CredInv, TableInv, CredTyped, Columns
    <3>2. request[r].expect # "any" => promised.email = admin.email /\ promised.password = admin.password
      BY <1>1, <1>2, <3>1 DEF FindUser
    <3> QED BY <3>1, <3>2
  <2>3. place \in {"open", "out"}
    OBVIOUS
  <2>4. RequestOK(onto(place))
    BY <1>1, <1>2, <2>2, <2>3 DEF FindUser
  <2> QED BY <2>1, <2>4, OntoStep
<1>3. CASE EmailLetIn(r)
  <2>1. RequestOK(onto("update"))
    BY <1>1, <1>3 DEF EmailLetIn, Changes
  <2> QED BY <1>3, <2>1, OntoStep DEF EmailLetIn
<1>4. CASE ResolveSession(r)
  <2>1. CASE Live(request[r].cookie)
    <3>1. RequestOK(onto("inside"))
      BY <1>1, <1>4, <2>1 DEF ResolveSession, Live
    <3> QED BY <1>4, <2>1, <3>1, OntoStep DEF ResolveSession
  <2> QED BY <1>4, <2>1, EndStep DEF ResolveSession
<1>5. CASE FindKey(r)
  <2>1. CASE request[r].key \in present
    <3>1. RequestOK(onto("touch"))
      BY <1>1, <1>5, <2>1 DEF FindKey, CredInv, TableInv
    <3> QED BY <1>5, <2>1, <3>1, OntoStep DEF FindKey
  <2> QED BY <1>5, <2>1, EndStep DEF FindKey
<1>6. CASE TouchKey(r)
  <2>1. RequestOK(onto("inside"))
    BY <1>1, <1>6 DEF TouchKey
  <2> QED BY <1>6, <2>1, OntoStep DEF TouchKey, Touched, Table
<1>7. CASE Finish(r)
  BY <1>7, EndStep DEF Finish
<1>8. CASE Drop(r)
  BY <1>8, EndStep DEF Drop
<1> QED BY <1>2, <1>3, <1>4, <1>5, <1>6, <1>7, <1>8

(* A request that comes, and the two steps that note a local.               *)
LEMMA NewCalls ==
  ASSUME CredInv, NEW r \in Requests,
         \/ \E e \in Addresses, p \in Passwords : LogIn(r, e, p)
         \/ \E k \in ApiKeys : CallWithKey(r, k)
         \/ \E c \in Cookies : CallWithCookie(r, c)
         \/ CheckCurrent(r) \/ ListKeys(r)
  PROVE  CredInv'
<1>1. RequestOK(request[r]) /\ RequestShape(request[r])
  BY DEF CredInv, RequestOK
<1>2. UNCHANGED <<admin, cookies, Table, promised, Page>>
  BY DEF LogIn, CallWithKey, CallWithCookie, Call, CheckCurrent, ListKeys
<1>3. PageInv' /\ UNCHANGED <<admin, cookies, label, present, revoked, promised>>
  BY <1>2 DEF CredInv, PageInv, Page, Table, Made
<1> USE DEF RequestOK, RequestShape, ChangeOK, LoginOK, LateOK, DeleteOK
<1>4. ASSUME NEW e \in Addresses, NEW p \in Passwords, LogIn(r, e, p) PROVE CredInv'
  <2> DEFINE x == IF Unknown \in {promised.email, promised.password} THEN "any"
                  ELSE IF promised = [email |-> e, password |-> p] THEN "in" ELSE "out"
             q == [at |-> "find", op |-> "login", email |-> e, password |-> p, expect |-> x]
  <2>1. Goes(r, q)
    BY <1>4 DEF LogIn
  <2>2. RequestOK(q) /\ q.op # "change"
    OBVIOUS
  <2> QED BY <1>3, <2>1, <2>2, RequestStep
<1>5. ASSUME NEW k \in ApiKeys, CallWithKey(r, k) PROVE CredInv'
  <2> DEFINE late == k \in revoked
             q == [at |-> "key", op |-> "call", key |-> k, late |-> late]
  <2>1. Goes(r, q)
    BY <1>5 DEF CallWithKey, Call
  <2>2. late \in BOOLEAN /\ (late => k \in revoked)
    OBVIOUS
  <2> HIDE DEF late
  <2>3. RequestOK(q) /\ q.op # "change"
    BY <2>2
  <2> QED BY <1>3, <2>1, <2>3, RequestStep
<1>6. ASSUME NEW c \in Cookies, CallWithCookie(r, c) PROVE CredInv'
  <2> DEFINE q == [at |-> "cookie", op |-> "call", cookie |-> c, late |-> cookies[c] = "gone"]
  <2>1. Goes(r, q)
    BY <1>6 DEF CallWithCookie, Call
  <2>2. RequestOK(q) /\ q.op # "change"
    OBVIOUS
  <2> QED BY <1>3, <2>1, <2>2, RequestStep
<1>7. CASE CheckCurrent(r)
  <2>1. CASE admin.password = request[r].current
    <3> DEFINE p == [request[r] EXCEPT !.row = admin]
               q == [p EXCEPT !.at = "update"]
    <3>1. Goes(r, q)
      BY <1>7, <2>1 DEF CheckCurrent
    <3>2. request[r].op = "change" /\ request[r].at = "inside"
      BY <1>7 DEF CheckCurrent, Changes
    <3>3. DOMAIN p = DOMAIN request[r] /\ \A f \in DOMAIN p \ {"row"} : p[f] = request[r][f]
      OBVIOUS
    <3>4. DOMAIN q = DOMAIN p /\ q.at = "update" /\ \A f \in DOMAIN q \ {"at"} : q[f] = p[f]
      BY <1>1, <3>3
    <3> HIDE DEF p, q
    <3>5. /\ q.op = "change" /\ q.column = request[r].column /\ q.alone = request[r].alone
          /\ q.late = request[r].late /\ q.new = request[r].new /\ q.at = "update"
          /\ DOMAIN q = DOMAIN request[r]
      BY <1>1, <3>2, <3>3, <3>4
    <3>6. RequestOK(q)
      BY <1>1, <3>2, <3>5
    <3> QED BY <1>3, <3>1, <3>2, <3>5, <3>6, RequestStep
  <2> QED BY <1>2, <1>7, <2>1, EndStep DEF CheckCurrent
<1>8. CASE ListKeys(r)
  <2> DEFINE p == [request[r] EXCEPT !.at = "render"]
             q == [p EXCEPT !.rows = present]
  <2>1. Goes(r, q)
    BY <1>8 DEF ListKeys
  <2>2. request[r].at = "list" /\ request[r].op = "delete"
    BY <1>1, <1>8 DEF ListKeys
  <2>3. DOMAIN p = DOMAIN request[r] /\ p.at = "render" /\ \A f \in DOMAIN p \ {"at"} : p[f] = request[r][f]
    BY <1>1
  <2>4. DOMAIN q = DOMAIN p /\ \A f \in DOMAIN q \ {"rows"} : q[f] = p[f]
    OBVIOUS
  <2>5. q.rows = present
    BY <1>1, <2>2, <2>3
  <2> HIDE DEF p, q
  <2>6. /\ q.op = "delete" /\ q.late = request[r].late /\ q.key = request[r].key /\ q.at = "render"
        /\ q.typed = request[r].typed /\ q.cookie = request[r].cookie /\ DOMAIN q = DOMAIN request[r]
    BY <1>1, <2>2, <2>3, <2>4
  <2>7. present \subseteq Made
    BY DEF CredInv, TableInv
  <2>8. RequestOK(q)
    BY <1>1, <2>2, <2>5, <2>6, <2>7
  <2> QED BY <1>3, <2>1, <2>6, <2>8, RequestStep
<1> QED BY <1>4, <1>5, <1>6, <1>7, <1>8

LEMMA ConfirmStep ==
  ASSUME CredInv, NEW r \in Requests, NEW c \in Cookies, Confirm(r, c)
  PROVE  CredInv'
<1> DEFINE q == [at |-> "cookie", op |-> "delete", cookie |-> c, late |-> cookies[c] = "gone",
                 key |-> dialog.key, typed |-> dialog.typed, rows |-> {}]
<1>1. /\ Goes(r, q) /\ dialog.open /\ dialog.enabled
      /\ dialog' = [dialog EXCEPT !.open = FALSE]
      /\ UNCHANGED <<admin, cookies, label, present, revoked, promised, shown>>
  BY DEF Confirm, Table
<1>2. dialog.key \in Made /\ dialog.typed = label[dialog.key]
  BY <1>1 DEF CredInv, PageInv
<1>3. RequestOK(q) /\ q.op # "change"
  BY <1>2 DEF RequestOK, RequestShape, ChangeOK, LoginOK, LateOK, DeleteOK, Made
<1>4. PageInv'
  BY <1>1 DEF CredInv, PageInv, Made
<1> QED BY <1>1, <1>3, <1>4, RequestStep

(* The page, and a session that ends.                                       *)
LEMMA PageSteps ==
  ASSUME CredInv,
         \/ \E c \in Cookies : CloseSession(c)
         \/ OpenPage
         \/ \E k \in ApiKeys : Choose(k)
         \/ \E x \in Labels : Type(x)
         \/ CloseDialog
  PROVE  CredInv'
<1>1. cookies \in [Cookies -> {"unused", "live", "gone"}] /\ PageInv /\ present \subseteq Made
  BY DEF CredInv, CredTyped, TableInv
<1>2. ASSUME NEW c \in Cookies, CloseSession(c) PROVE CredInv'
  <2>1. PageInv'
    BY <1>1, <1>2 DEF CloseSession, PageInv, Page, Table, Made
  <2> QED BY <1>1, <1>2, <2>1, PageStep DEF CloseSession, Live, Table
<1>3. CASE OpenPage
  <2>1. PageInv'
    BY <1>1, <1>3 DEF OpenPage, PageInv, NoDialog, Table, Made
  <2> QED BY <1>1, <1>3, <2>1, PageStep DEF OpenPage, Table
<1>4. ASSUME NEW k \in ApiKeys, Choose(k) PROVE CredInv'
  <2>1. PageInv'
    BY <1>1, <1>4 DEF Choose, OpenDialog, PageInv, Table, Made
  <2> QED BY <1>1, <1>4, <2>1, PageStep DEF Choose, Table
<1>5. ASSUME NEW x \in Labels, Type(x) PROVE CredInv'
  <2> DEFINE d == [dialog EXCEPT !.typed = x]
  <2>1. dialog.open /\ dialog' = [d EXCEPT !.enabled = (x = label[dialog.key])] /\ UNCHANGED <<shown, Table>>
    BY <1>5 DEF Type
  <2>2. DOMAIN d = DOMAIN dialog /\ d.open /\ d.key = dialog.key /\ d.typed = x
    BY <1>1, <2>1 DEF PageInv
  <2> HIDE DEF d
  <2>3. /\ DOMAIN dialog' = DOMAIN dialog /\ dialog'.open /\ dialog'.key = dialog.key /\ dialog'.typed = x
        /\ dialog'.enabled = (x = label[dialog.key])
    BY <1>1, <2>1, <2>2 DEF PageInv
  <2>4. PageInv'
    BY <1>1, <2>1, <2>3 DEF PageInv, Table, Made
  <2> QED BY <1>1, <1>5, <2>4, PageStep DEF Type, Table
<1>6. CASE CloseDialog
  <2>1. PageInv'
    BY <1>1, <1>6 DEF CloseDialog, PageInv, Table, Made
  <2> QED BY <1>1, <1>6, <2>1, PageStep DEF CloseDialog, Table
<1> QED BY <1>2, <1>3, <1>4, <1>5, <1>6

(* The steps that change cookies or keys.                                   *)
LEMMA TableSteps ==
  ASSUME CredInv, NEW r \in Requests,
         \/ OpenSession(r)
         \/ \E k \in ApiKeys, x \in Labels : Generate(r, k, x)
         \/ \E k \in ApiKeys : DeleteById(r, k)
         \/ DeleteChosen(r) \/ Render(r)
  PROVE  CredInv'
<1>1. /\ RequestOK(request[r]) /\ RequestShape(request[r]) /\ DOMAIN request = Requests
      /\ CredTyped /\ TableInv /\ PageInv
  BY DEF CredInv, RequestOK, CredTyped
<1> USE DEF RequestOK, RequestShape, ChangeOK, LoginOK, LateOK, DeleteOK
<1>2. request'[r] = NoRequest => RequestOK(request[r])'
  BY NothingOK DEF NoRequest
<1>3. CASE OpenSession(r)
  <2> DEFINE q == [request[r] EXCEPT !.at = "in"]
  <2>1. /\ Goes(r, q) /\ UNCHANGED <<admin, label, present, revoked, promised, shown, dialog>>
        /\ request[r].at = "open"
    BY <1>3 DEF OpenSession, Onto, Table, Page
  <2>2. PICK c \in Cookies : cookies[c] = "unused" /\ cookies' = [cookies EXCEPT ![c] = "live"]
    BY <1>3 DEF OpenSession
  <2>3. request'[r] = q /\ request[r].op = "login"
    BY <1>1, <2>1 DEF Goes
  <2>4. RequestOK(request[r])' /\ q.op # "change"
    BY <1>1, <2>1, <2>3
  <2>5. CredTyped' /\ TableInv' /\ PageInv'
    BY <1>1, <2>1, <2>2 DEF CredTyped, TableInv, PageInv, Made, Goes
  <2>6. \A d \in Cookies : cookies[d] = "gone" => cookies'[d] = "gone"
    BY <1>1, <2>2 DEF CredTyped
  <2> QED BY <2>1, <2>4, <2>5, <2>6, TableStep
<1>4. ASSUME NEW k \in ApiKeys, NEW x \in Labels, Generate(r, k, x) PROVE CredInv'
  <2>1. /\ Goes(r, NoRequest) /\ request'[r] = NoRequest
        /\ label[k] = Unknown /\ label' = [label EXCEPT ![k] = x] /\ present' = present \cup {k}
        /\ UNCHANGED <<admin, cookies, revoked, promised, shown, dialog>>
    BY <1>1, <1>4 DEF Generate, Ends, Goes, Page
  <2>2. x # Unknown
    BY CredentialsAssumption
  <2>3. \A j \in Made : label'[j] = label[j] /\ j # k /\ j \in Made'
    BY <1>1, <2>1 DEF Made, CredTyped
  <2>4. Made \subseteq Made' /\ k \in Made' /\ k \notin Made
    BY <1>1, <2>1, <2>2, <2>3 DEF Made, CredTyped
  <2>5. CredTyped' /\ TableInv'
    BY <1>1, <2>1, <2>4 DEF CredTyped, TableInv, Goes
  <2>6. PageInv'
    BY <1>1, <2>1, <2>3, <2>4 DEF PageInv
  <2> QED BY <1>2, <2>1, <2>3, <2>5, <2>6, NothingOK, TableStep
<1>5. ASSUME NEW k \in ApiKeys, DeleteById(r, k) PROVE CredInv'
  <2>1. /\ Goes(r, NoRequest) /\ request'[r] = NoRequest /\ label[k] # Unknown
        /\ present' = present \ {k} /\ revoked' = revoked \cup {k}
        /\ UNCHANGED <<admin, cookies, label, promised, shown, dialog>>
    BY <1>1, <1>5 DEF DeleteById, Ends, Goes, Page
  <2>2. Made' = Made /\ k \in Made
    BY <2>1 DEF Made
  <2>3. CredTyped' /\ TableInv' /\ PageInv'
    BY <1>1, <2>1, <2>2 DEF CredTyped, TableInv, PageInv, Goes
  <2> QED BY <1>2, <2>1, <2>3, NothingOK, TableStep
<1>6. CASE DeleteChosen(r)
  <2> DEFINE q == [request[r] EXCEPT !.at = "list"]
  <2>1. /\ Goes(r, q) /\ present' = present \ {request[r].key}
        /\ UNCHANGED <<admin, cookies, label, revoked, promised, shown, dialog>>
        /\ request[r].at = "inside" /\ request[r].op = "delete"
    BY <1>6 DEF DeleteChosen, Onto, Page
  <2>2. request'[r] = q
    BY <1>1, <2>1 DEF Goes
  <2>3. Made' = Made
    BY <2>1 DEF Made
  <2>4. RequestOK(request[r])' /\ q.op # "change"
    BY <1>1, <2>1, <2>2, <2>3
  <2>5. CredTyped' /\ TableInv' /\ PageInv'
    BY <1>1, <2>1, <2>3 DEF CredTyped, TableInv, PageInv, Goes
  <2> QED BY <2>1, <2>4, <2>5, TableStep
<1>7. CASE Render(r)
  <2>1. /\ Goes(r, NoRequest) /\ request'[r] = NoRequest
        /\ shown' = request[r].rows /\ revoked' = revoked \cup {request[r].key}
        /\ UNCHANGED <<admin, cookies, label, present, promised, dialog>>
    BY <1>1, <1>7 DEF Render, Ends, Goes
  <2>2. Made' = Made
    BY <2>1 DEF Made
  <2>3. request[r].op = "delete" /\ request[r].at = "render"
    BY <1>1, <1>7 DEF Render
  <2>4. request[r].key \in Made /\ request[r].key \notin present /\ request[r].rows \subseteq Made
    BY <1>1, <2>3
  <2>5. CredTyped' /\ TableInv' /\ PageInv'
    BY <1>1, <2>1, <2>2, <2>4 DEF CredTyped, TableInv, PageInv, Goes
  <2> QED BY <1>2, <2>1, <2>5, NothingOK, TableStep
<1> QED BY <1>3, <1>4, <1>5, <1>6, <1>7

(* A change begins: it takes back what was promised of its column, tells     *)
(* those of the same column that they are not alone, and every login that   *)
(* its answer is not certain.                                               *)
LEMMA ChangeStep ==
  ASSUME CredInv, NEW r \in Requests, NEW column \in Columns, NEW new, NEW place, NEW c, NEW current,
         Change(r, column, new, place, c, current),
         IF column = "email" THEN new \in Addresses ELSE new \in Passwords,
         \/ place = "cookie" /\ c \in Cookies
         \/ place = "update" /\ c = Unknown
  PROVE  CredInv'
<1> DEFINE alone == \A o \in Requests : ~Changes(request[o], column)
           late == c # Unknown /\ cookies[c] = "gone"
           q == [at |-> place, op |-> "change", column |-> column, new |-> new,
                 cookie |-> c, late |-> late, current |-> current, row |-> Unknown, alone |-> alone]
<1>1. /\ \A s \in Requests : RequestOK(request[s]) /\ RequestShape(request[s])
      /\ DOMAIN request = Requests /\ CredTyped /\ TableInv /\ PageInv
  BY DEF CredInv, RequestOK, CredTyped
<1>2. /\ promised' = [promised EXCEPT ![column] = Unknown]
      /\ UNCHANGED <<admin, cookies, label, present, revoked, shown, dialog>>
  BY DEF Change, Table, Page
<1>3. request' = [s \in Requests |->
                    CASE s = r -> q
                      [] s # r /\ Changes(request[s], column) -> [request[s] EXCEPT !.alone = FALSE]
                      [] s # r /\ request[s].op = "login" -> [request[s] EXCEPT !.expect = "any"]
                      [] OTHER -> request[s]]
  BY DEF Change
<1>4. alone \in BOOLEAN /\ (alone => \A o \in Requests : ~Changes(request[o], column))
  OBVIOUS
<1>5. late \in BOOLEAN /\ (late => c \in Cookies /\ place = "cookie" /\ cookies[c] = "gone")
  BY CredentialsAssumption
<1> HIDE DEF alone, late
<1>6. /\ q.op = "change" /\ q.column = column /\ q.new = new /\ q.at = place /\ q.cookie = c
      /\ q.late = late /\ q.alone = alone
      /\ {"at", "op", "column", "new", "row", "alone", "late", "cookie"} \subseteq DOMAIN q
  OBVIOUS
<1> HIDE DEF q
<1>7. DOMAIN request' = Requests /\ request'[r] = q
  BY <1>3
<1>8. promised'[column] = Unknown /\ \A d \in Columns \ {column} : promised'[d] = promised[d]
  BY <1>1, <1>2 DEF CredTyped, Columns
<1>9. RequestOK(request[r])'
  BY <1>2, <1>4, <1>5, <1>6, <1>7, <1>8 DEF RequestOK, RequestShape, ChangeOK, LoginOK, LateOK, DeleteOK, Columns
<1>10. ASSUME NEW s \in Requests \ {r}
       PROVE  /\ RequestOK(request[s])'
              /\ request'[s].op = request[s].op
              /\ request[s].op = "change" =>
                   /\ request'[s].column = request[s].column
                   /\ request'[s].alone => request[s].alone /\ request[s].column # column
  <2>1. RequestOK(request[s]) /\ RequestShape(request[s])
    BY <1>1
  <2>2. CASE Changes(request[s], column)
    <3> DEFINE p == [request[s] EXCEPT !.alone = FALSE]
    <3>1. request'[s] = p
      BY <1>3, <2>2 DEF Changes
    <3>2. request[s].op = "change" /\ request[s].column = column
      BY <2>2 DEF Changes
    <3>3. DOMAIN p = DOMAIN request[s] /\ \A f \in DOMAIN p \ {"alone"} : p[f] = request[s][f]
      OBVIOUS
    <3>4. p.alone = FALSE
      BY <2>1, <3>2 DEF RequestShape
    <3> HIDE DEF p
    <3>5. /\ p.op = "change" /\ p.column = column /\ p.new = request[s].new /\ p.at = request[s].at
          /\ p.cookie = request[s].cookie /\ p.late = request[s].late
          /\ {"at", "op", "column", "new", "row", "alone", "late", "cookie"} \subseteq DOMAIN p
      BY <2>1, <3>2, <3>3 DEF RequestShape
    <3>6. RequestOK(request[s])'
      BY <1>2, <1>8, <2>1, <3>1, <3>2, <3>4, <3>5
         DEF RequestOK, RequestShape, ChangeOK, LoginOK, LateOK, DeleteOK
    <3> QED BY <3>1, <3>2, <3>4, <3>5, <3>6
  <2>3. CASE request[s].op = "login"
    <3> DEFINE p == [request[s] EXCEPT !.expect = "any"]
    <3>1. request'[s] = p
      BY <1>3, <2>3 DEF Changes
    <3>2. DOMAIN p = DOMAIN request[s] /\ \A f \in DOMAIN p \ {"expect"} : p[f] = request[s][f]
      OBVIOUS
    <3>3. p.expect = "any"
      BY <2>1, <2>3 DEF RequestShape
    <3> HIDE DEF p
    <3>4. p.op = "login" /\ p.at = request[s].at /\ DOMAIN p = DOMAIN request[s]
      BY <2>1, <2>3, <3>2 DEF RequestShape
    <3>5. RequestOK(request[s])'
      BY <2>1, <2>3, <3>1, <3>3, <3>4
         DEF RequestOK, RequestShape, ChangeOK, LoginOK, LateOK, DeleteOK
    <3> QED BY <2>3, <3>1, <3>4, <3>5
  <2>4. CASE ~Changes(request[s], column) /\ request[s].op # "login"
    <3>1. request'[s] = request[s]
      BY <1>3, <2>4
    <3>2. request[s].op = "change" => request[s].column \in Columns \ {column}
      BY <2>1, <2>4 DEF RequestShape, Changes, Columns
    <3>3. request[s].op = "change" => promised'[request[s].column] = Unknown
      BY <1>8, <2>1, <3>2 DEF RequestOK, ChangeOK
    <3>4. RequestOK(request[s])'
      BY <1>2, <2>1, <2>4, <3>1, <3>3, OthersKeep DEF Made
    <3> QED BY <2>4, <3>1, <3>2, <3>4
  <2> QED BY <2>2, <2>3, <2>4
<1>11. CredTyped'
  BY <1>1, <1>2, <1>7, <1>8 DEF CredTyped, Columns
<1>12. TableInv'
  BY <1>1, <1>2, <1>8 DEF TableInv, Made
<1>13. PageInv'
  BY <1>1, <1>2 DEF PageInv, Made
<1>14. AloneInv'
  BY <1>4, <1>6, <1>7, <1>10 DEF CredInv, AloneInv, Changes
<1>15. \A s \in Requests : RequestOK(request[s])'
  BY <1>9, <1>10
<1> QED BY <1>11, <1>12, <1>13, <1>14, <1>15 DEF CredInv

(* A change takes effect: nothing is promised of its column until it is      *)
(* answered.  The column alone is written, not the row that was read.       *)
LEMMA UpdateStep ==
  ASSUME CredInv, NEW r \in Requests, Update(r)
  PROVE  CredInv'
<1> DEFINE old == request[r]
           q == [old EXCEPT !.at = "changed"]
<1>1. /\ RequestOK(old) /\ RequestShape(old) /\ DOMAIN request = Requests
      /\ CredTyped /\ TableInv /\ PageInv /\ AloneInv
  BY DEF CredInv, RequestOK, CredTyped
<1>2. /\ old.at = "update" /\ Goes(r, q)
      /\ admin' = [admin EXCEPT ![old.column] = old.new]
      /\ UNCHANGED <<cookies, label, present, revoked, promised, shown, dialog>>
  BY DEF Update, Onto, Updated, Table, Page
<1>3. /\ DOMAIN request' = Requests /\ request'[r] = q
      /\ \A s \in Requests \ {r} : request'[s] = request[s]
  BY <1>1, <1>2 DEF Goes
<1> HIDE DEF old
<1>4. old.op = "change" /\ old.column \in Columns
  BY <1>1, <1>2 DEF RequestShape, Columns
<1>5. DOMAIN q = DOMAIN old /\ q.at = "changed" /\ \A f \in DOMAIN q \ {"at"} : q[f] = old[f]
  BY <1>1, PlaceFields
<1> HIDE DEF q
<1>6. /\ q.op = "change" /\ q.column = old.column /\ q.new = old.new /\ q.late = old.late
      /\ q.alone = old.alone
  BY <1>1, <1>4, <1>5 DEF RequestShape
<1>7. admin'[old.column] = old.new /\ \A d \in Columns \ {old.column} : admin'[d] = admin[d]
  BY <1>1, <1>2, <1>4 DEF CredTyped, Columns
<1>8. RequestOK(request[r])'
  BY <1>1, <1>2, <1>3, <1>4, <1>5, <1>6, <1>7
     DEF RequestOK, RequestShape, ChangeOK, LoginOK, LateOK, DeleteOK
<1>9. ASSUME NEW s \in Requests \ {r} PROVE RequestOK(request[s])'
  <2>1. RequestOK(request[s]) /\ request'[s] = request[s]
    BY <1>3 DEF CredInv
  <2>2. request[s].op = "change" =>
          /\ promised[request[s].column] = Unknown /\ request[s].column \in Columns
          /\ request[s].alone => request[s].column # old.column
    BY <1>1, <1>4, <2>1 DEF RequestOK, RequestShape, ChangeOK, AloneInv, Columns, old
  <2> QED BY <1>2, <1>7, <2>1, <2>2, OthersKeep DEF Made
<1>10. CredTyped'
  BY <1>1, <1>2, <1>3, <1>4, <1>7 DEF CredTyped, Columns, RequestShape
<1>11. TableInv'
  <2>1. promised[old.column] = Unknown
    BY <1>1, <1>4 DEF RequestOK, ChangeOK
  <2> QED BY <1>1, <1>2, <1>7, <2>1 DEF TableInv, Made
<1>12. PageInv'
  BY <1>1, <1>2 DEF PageInv, Made
<1>14. AloneInv'
  BY <1>1, <1>3, <1>4, <1>6 DEF AloneInv, old
<1>13. \A s \in Requests : RequestOK(request[s])'
  BY <1>8, <1>9
<1> QED BY <1>10, <1>11, <1>12, <1>13, <1>14 DEF CredInv

(* A change is answered, and what it stored is promised if it was alone.     *)
LEMMA AnswerStep ==
  ASSUME CredInv, NEW r \in Requests, AnswerChange(r)
  PROVE  CredInv'
<1> DEFINE old == request[r]
<1>1. /\ RequestOK(old) /\ RequestShape(old) /\ DOMAIN request = Requests
      /\ CredTyped /\ TableInv /\ PageInv /\ AloneInv
  BY DEF CredInv, RequestOK, CredTyped
<1>2. /\ old.at = "changed" /\ Goes(r, NoRequest)
      /\ promised' = IF old.alone THEN [promised EXCEPT ![old.column] = old.new] ELSE promised
      /\ UNCHANGED <<admin, cookies, label, present, revoked, shown, dialog>>
  BY DEF AnswerChange, Ends, Table, Page
<1>3. /\ DOMAIN request' = Requests /\ request'[r] = NoRequest
      /\ \A s \in Requests \ {r} : request'[s] = request[s]
  BY <1>1, <1>2 DEF Goes
<1> HIDE DEF old
<1>4. /\ old.op = "change" /\ old.column \in Columns /\ old.alone \in BOOLEAN
      /\ promised[old.column] = Unknown
      /\ old.alone => admin[old.column] = old.new
  BY <1>1, <1>2 DEF RequestOK, RequestShape, ChangeOK, Columns
<1>5. /\ \A d \in Columns \ {old.column} : promised'[d] = promised[d]
      /\ old.alone => promised'[old.column] = admin[old.column]
      /\ ~old.alone => promised' = promised
  BY <1>1, <1>2, <1>4 DEF CredTyped, Columns
<1>6. RequestOK(request[r])'
  BY <1>3, NothingOK
     DEF NoRequest, RequestOK, RequestShape, ChangeOK, LoginOK, LateOK, DeleteOK
<1>7. ASSUME NEW s \in Requests \ {r} PROVE RequestOK(request[s])'
  <2>1. RequestOK(request[s]) /\ request'[s] = request[s]
    BY <1>3 DEF CredInv
  <2>2. request[s].op = "change" =>
          /\ promised[request[s].column] = Unknown /\ request[s].column \in Columns
          /\ old.alone => request[s].column # old.column
    BY <1>1, <1>4, <2>1 DEF RequestOK, RequestShape, ChangeOK, AloneInv, Columns, old
  <2>3. request[s].op = "change" => promised'[request[s].column] = Unknown
    BY <1>4, <1>5, <2>2
  <2>4. request[s].op = "login" => request[s].expect = "any"
    BY <1>4, <2>1 DEF RequestOK, LoginOK, Columns
  <2> QED BY <1>2, <2>1, <2>3, <2>4, OthersKeep DEF Made
<1>8. CredTyped'
  BY <1>1, <1>2, <1>3, <1>4 DEF CredTyped, Columns, RequestShape
<1>9. TableInv'
  BY <1>1, <1>2, <1>4, <1>5 DEF TableInv, Made
<1>10. PageInv'
  BY <1>1, <1>2 DEF PageInv, Made
<1>12. AloneInv'
  BY <1>1, <1>3 DEF AloneInv, NoRequest
<1>11. \A s \in Requests : RequestOK(request[s])'
  BY <1>6, <1>7
<1> QED BY <1>8, <1>9, <1>10, <1>11, <1>12 DEF CredInv

------------------------------------------------------------------------------

LEMMA InitCredInv == CredInit => CredInv
<1> SUFFICES ASSUME CredInit PROVE CredInv
  OBVIOUS
<1>1. \A r \in Requests : request[r] = NoRequest
  BY DEF CredInit
<1>2. CredTyped /\ TableInv
  BY DEF CredInit, CredTyped, TableInv, Columns, Made
<1>3. AloneInv /\ PageInv
  BY <1>1 DEF CredInit, AloneInv, PageInv, NoRequest, NoDialog
<1> QED BY <1>1, <1>2, <1>3, NothingOK DEF CredInv

LEMMA NextCredInv == ASSUME CredInv, [CredNext]_credvars PROVE CredInv'
<1>1. ASSUME NEW r \in Requests, NEW e \in Addresses, NEW c \in Cookies, ChangeEmail(r, e, c)
      PROVE  CredInv'
  BY <1>1, ChangeStep DEF ChangeEmail, Columns
<1>2. ASSUME NEW r \in Requests, NEW p \in Passwords, NEW n \in Passwords, NEW c \in Cookies,
             ChangePassword(r, p, n, c)
      PROVE  CredInv'
  BY <1>2, ChangeStep DEF ChangePassword, Columns
<1>3. ASSUME NEW r \in Requests, NEW n \in Passwords, ResetPassword(r, n)
      PROVE  CredInv'
  BY <1>3, ChangeStep DEF ResetPassword, Columns
<1>4. CASE UNCHANGED credvars
  <2>1. CredTyped' /\ AloneInv' /\ TableInv' /\ PageInv'
    BY <1>4 DEF CredInv, credvars, Table, Page, CredTyped, AloneInv, TableInv, PageInv, Made
  <2>2. \A r \in Requests : RequestOK(request[r])'
    BY <1>4 DEF CredInv, credvars, Table, RequestOK, RequestShape, ChangeOK, LoginOK, LateOK, DeleteOK, Made
  <2> QED BY <2>1, <2>2 DEF CredInv
<1>5. CASE CredNext
  BY <1>1, <1>2, <1>3, <1>5, NewCalls, PlainCalls, ConfirmStep, PageSteps, TableSteps, UpdateStep,
     AnswerStep
     DEF CredNext
<1> QED BY <1>4, <1>5

LEMMA CredInvariance == CredSpec => []CredInv
BY InitCredInv, NextCredInv, PTL DEF CredSpec

(* A change of the address or of the password that was answered, and that    *)
(* no other change of it overlapped, stands: for any number of requests,    *)
(* addresses and passwords, with resets from a terminal, logins and errors  *)
(* at any point (update_password and update_email write one column).        *)
THEOREM ChangesStand == CredSpec => []AnsweredChangesStand
<1>1. CredInv => AnsweredChangesStand
  BY DEF CredInv, TableInv, RequestOK, LoginOK, AnsweredChangesStand
<1> QED BY <1>1, CredInvariance, PTL

(* A key whose deletion was answered, or a session that has ended, lets      *)
(* nobody in who comes afterwards, whatever uses of it were in flight       *)
(* (touch_api_key updates a row and makes none).                            *)
THEOREM LateStaysOut == CredSpec => []RevokedStaysOut
<1>1. CredInv => RevokedStaysOut
  <2> SUFFICES ASSUME CredInv, NEW r \in Requests,
                      request[r].at \in {"inside", "touch", "list", "render"}
               PROVE  ~request[r].late
    BY DEF RevokedStaysOut
  <2>1. RequestShape(request[r]) /\ LateOK(request[r])
    BY DEF CredInv, RequestOK
  <2> QED BY <2>1 DEF RequestShape, LateOK
<1> QED BY <1>1, CredInvariance, PTL

(* The page deletes no key but the one whose label its input held when a key *)
(* last went up, however the dialog was opened, filled and closed before.   *)
THEOREM TypedIsDeleted == CredSpec => []DeletesConfirmed
<1>1. CredInv => DeletesConfirmed
  BY DEF CredInv, RequestOK, DeleteOK, DeletesConfirmed
<1> QED BY <1>1, CredInvariance, PTL
==============================================================================
