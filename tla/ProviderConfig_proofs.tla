------------------------ MODULE ProviderConfig_proofs ------------------------
(***************************************************************************)
(* Proofs about ProviderConfig, for any number of writers, any settings,    *)
(* any saves and any number of them.                                        *)
(***************************************************************************)
EXTENDS ProviderConfig, SequenceTheorems, TLAPS

(* The steps that the code has, with their providers.                       *)
Work == {"key", "fill", "row", "set"} \X Provider \cup {<<"admin", "">>, <<"mode", "">>}

(* The registry is set right after the row, and only then.                  *)
Paired(s) ==
  \A k \in 1 .. Len(s) :
    s[k][1] = "set" => k = 1 \/ (k > 1 /\ s[k - 1] = <<"row", s[k][2]>>)
Opens(s) == s = <<>> \/ s[1][1] # "set"
Orderly(s) == s \in Seq(Work) /\ Paired(s)

LEMMA OrderlyTail ==
  ASSUME NEW s, Orderly(s), s # <<>>
  PROVE  /\ Head(s) \in Work /\ Head(s) = s[1] /\ Len(s) \in Nat \ {0}
         /\ Orderly(Tail(s))
         /\ Len(s) # 1 => /\ Tail(s) # <<>> /\ Tail(s)[1] = s[2]
                          /\ s[2][1] = "set" => s[1] = <<"row", s[2][2]>>
<1>1. /\ s \in Seq(Work) /\ Head(s) \in Work /\ Head(s) = s[1] /\ Len(s) \in Nat \ {0}
      /\ Tail(s) \in Seq(Work) /\ Len(Tail(s)) = Len(s) - 1
      /\ \A k \in 1 .. Len(Tail(s)) : Tail(s)[k] = s[k + 1]
  BY HeadTailProperties, EmptySeq DEF Orderly
<1>2. Paired(Tail(s))
  <2> SUFFICES ASSUME NEW k \in 1 .. Len(Tail(s)), Tail(s)[k][1] = "set", k # 1
               PROVE  Tail(s)[k - 1] = <<"row", Tail(s)[k][2]>>
    BY DEF Paired
  <2>1. k - 1 \in 1 .. Len(Tail(s)) /\ k + 1 \in 1 .. Len(s) /\ k + 1 # 1 /\ (k + 1) - 1 = k
    BY <1>1
  <2>2. Tail(s)[k] = s[k + 1] /\ Tail(s)[k - 1] = s[k]
    BY <1>1, <2>1
  <2> QED BY <2>1, <2>2 DEF Orderly, Paired
<1>3. ASSUME Len(s) # 1
      PROVE  /\ Tail(s) # <<>> /\ Tail(s)[1] = s[2]
             /\ s[2][1] = "set" => s[1] = <<"row", s[2][2]>>
  <2>1. 2 \in 1 .. Len(s) /\ 1 \in 1 .. Len(Tail(s))
    BY <1>1, <1>3
  <2>2. s[2][1] = "set" => s[2 - 1] = <<"row", s[2][2]>>
    BY <2>1 DEF Orderly, Paired
  <2>3. Tail(s) # <<>> /\ Tail(s)[1] = s[1 + 1]
    BY <1>1, <2>1
  <2> QED BY <2>2, <2>3
<1> QED BY <1>1, <1>2, <1>3 DEF Orderly

LEMMA OrderlyConcat ==
  ASSUME NEW s, NEW t, Orderly(s), Orderly(t), Opens(s), Opens(t)
  PROVE  Orderly(s \o t) /\ Opens(s \o t)
<1>1. /\ s \in Seq(Work) /\ t \in Seq(Work) /\ s \o t \in Seq(Work)
      /\ Len(s) \in Nat /\ Len(t) \in Nat
      /\ Len(s \o t) = Len(s) + Len(t)
      /\ \A k \in 1 .. Len(s) + Len(t) :
           (s \o t)[k] = IF k <= Len(s) THEN s[k] ELSE t[k - Len(s)]
  BY ConcatProperties, LenProperties DEF Orderly
<1>2. Opens(s \o t)
  <2>1. CASE s = <<>> /\ t = <<>>
    BY <2>1 DEF Opens
  <2>2. CASE s = <<>> /\ t # <<>>
    <3>1. Len(s) = 0 /\ Len(t) >= 1
      BY <1>1, <2>2, EmptySeq
    <3>2. (s \o t)[1] = t[1]
      BY <1>1, <3>1
    <3> QED BY <2>2, <3>2 DEF Opens
  <2>3. CASE s # <<>>
    <3>1. Len(s) >= 1
      BY <1>1, <2>3, EmptySeq
    <3>2. (s \o t)[1] = s[1]
      BY <1>1, <3>1
    <3> QED BY <2>3, <3>2 DEF Opens
  <2> QED BY <2>1, <2>2, <2>3
<1>3. Paired(s \o t)
  <2> SUFFICES ASSUME NEW k \in 1 .. Len(s) + Len(t), (s \o t)[k][1] = "set", k # 1
               PROVE  (s \o t)[k - 1] = <<"row", (s \o t)[k][2]>>
    BY <1>1 DEF Paired
  <2>1. CASE k <= Len(s)
    <3>1. k \in 1 .. Len(s) /\ (s \o t)[k] = s[k] /\ (s \o t)[k - 1] = s[k - 1]
      BY <1>1, <2>1
    <3> QED BY <3>1 DEF Orderly, Paired
  <2>2. CASE k = Len(s) + 1
    <3>1. (s \o t)[k] = t[1] /\ t # <<>>
      BY <1>1, <2>2, EmptySeq
    <3> QED BY <3>1 DEF Opens
  <2>3. CASE k > Len(s) + 1
    <3>1. /\ k - Len(s) \in 1 .. Len(t) /\ k - Len(s) # 1
          /\ (s \o t)[k] = t[k - Len(s)] /\ (s \o t)[k - 1] = t[(k - Len(s)) - 1]
      BY <1>1, <2>3
    <3> QED BY <3>1 DEF Orderly, Paired
  <2> QED BY <1>1, <2>1, <2>2, <2>3
<1> QED BY <1>1, <1>2, <1>3 DEF Orderly

LEMMA OrderlyStep ==
  ASSUME NEW v \in Work, v[1] # "set"
  PROVE  Orderly(<<v>>) /\ Opens(<<v>>)
BY DEF Orderly, Paired, Opens

LEMMA OrderlySteps ==
  ASSUME NEW v \in Work, NEW w \in Work, v[1] # "set", w[1] = "set" => v = <<"row", w[2]>>
  PROVE  Orderly(<<v, w>>) /\ Opens(<<v, w>>)
BY DEF Orderly, Paired, Opens

(* Every save writes the row of a provider just before its registry.        *)
LEMMA PlanOrderly ==
  ASSUME NEW j
  PROVE  Orderly(Plan(j)) /\ Opens(Plan(j))
<1>1. Orderly(<<>>) /\ Opens(<<>>)
  BY DEF Orderly, Paired, Opens
<1>2. ASSUME NEW p \in Provider
      PROVE  /\ Orderly(<<<<"row", p>>>>) /\ Opens(<<<<"row", p>>>>)
             /\ Orderly(<<<<"row", p>>, <<"set", p>>>>) /\ Opens(<<<<"row", p>>, <<"set", p>>>>)
             /\ Orderly(<<<<"key", p>>, <<"fill", p>>>>) /\ Opens(<<<<"key", p>>, <<"fill", p>>>>)
  <2>1. <<"row", p>> \in Work /\ <<"set", p>> \in Work /\ <<"key", p>> \in Work /\ <<"fill", p>> \in Work
    BY <1>2 DEF Work
  <2>2. /\ <<"row", p>>[1] = "row" /\ <<"set", p>>[2] = p /\ <<"key", p>>[1] = "key"
        /\ <<"fill", p>>[1] = "fill"
    OBVIOUS
  <2> QED BY <2>1, <2>2, OrderlyStep, OrderlySteps
<1>3. /\ Orderly(<<<<"mode", "">>>>) /\ Opens(<<<<"mode", "">>>>)
      /\ Orderly(<<<<"admin", "">>>>) /\ Opens(<<<<"admin", "">>>>)
      /\ Orderly(<<<<"row", "embedder">>, <<"mode", "">>>>)
      /\ Opens(<<<<"row", "embedder">>, <<"mode", "">>>>)
  <2> DEFINE m == <<"mode", "">>  a == <<"admin", "">>  r == <<"row", "embedder">>
  <2>1. m \in Work /\ a \in Work /\ r \in Work
    BY DEF Work, Provider
  <2>2. m[1] # "set" /\ a[1] # "set" /\ r[1] # "set"
    OBVIOUS
  <2> HIDE DEF m, a, r
  <2>3. /\ Orderly(<<m>>) /\ Opens(<<m>>) /\ Orderly(<<a>>) /\ Opens(<<a>>)
        /\ Orderly(<<r, m>>) /\ Opens(<<r, m>>)
    BY <2>1, <2>2, OrderlyStep, OrderlySteps
  <2> QED BY <2>3 DEF m, a, r
<1>4. \A p \in Provider : Orderly(SaveOf(j, p)) /\ Opens(SaveOf(j, p))
  BY <1>1, <1>2 DEF SaveOf
<1>5. Orderly(ModeOf(j)) /\ Opens(ModeOf(j))
  BY <1>1, <1>3 DEF ModeOf
<1>6. Orderly(PersistOf(j)) /\ Opens(PersistOf(j))
  <2>1. "llm" \in Provider
    BY DEF Provider
  <2>2. /\ Orderly(IF j.mode = "raw" THEN <<>> ELSE <<<<"row", "llm">>>>)
        /\ Opens(IF j.mode = "raw" THEN <<>> ELSE <<<<"row", "llm">>>>)
    BY <1>1, <1>2, <2>1
  <2> HIDE DEF Orderly, Opens
  <2> QED BY <1>3, <2>2, OrderlyConcat DEF PersistOf
<1>7. "llm" \in Provider /\ "embedder" \in Provider
  BY DEF Provider
<1>8. Orderly(<<<<"admin", "">>>> \o PersistOf(j)) /\ Opens(<<<<"admin", "">>>> \o PersistOf(j))
  BY <1>3, <1>6, OrderlyConcat
<1>9. /\ Orderly(SaveOf(j, "llm") \o SaveOf(j, "embedder") \o ModeOf(j))
      /\ Opens(SaveOf(j, "llm") \o SaveOf(j, "embedder") \o ModeOf(j))
  <2>1. /\ Orderly(SaveOf(j, "llm") \o SaveOf(j, "embedder"))
        /\ Opens(SaveOf(j, "llm") \o SaveOf(j, "embedder"))
    BY <1>4, <1>7, OrderlyConcat
  <2> QED BY <1>5, <2>1, OrderlyConcat
<1>10. /\ Orderly(ModeOf(j) \o <<<<"key", "llm">>, <<"fill", "llm">>>> \o SaveOf(j, "llm"))
       /\ Opens(ModeOf(j) \o <<<<"key", "llm">>, <<"fill", "llm">>>> \o SaveOf(j, "llm"))
  <2>1. /\ Orderly(ModeOf(j) \o <<<<"key", "llm">>, <<"fill", "llm">>>>)
        /\ Opens(ModeOf(j) \o <<<<"key", "llm">>, <<"fill", "llm">>>>)
    BY <1>2, <1>5, <1>7, OrderlyConcat
  <2> QED BY <1>4, <1>7, <2>1, OrderlyConcat
<1>11. /\ Orderly(<<<<"key", "embedder">>, <<"fill", "embedder">>>> \o SaveOf(j, "embedder"))
       /\ Opens(<<<<"key", "embedder">>, <<"fill", "embedder">>>> \o SaveOf(j, "embedder"))
  BY <1>2, <1>4, <1>7, OrderlyConcat
<1> HIDE DEF Orderly, Opens, PersistOf, SaveOf, ModeOf
<1> QED BY <1>5, <1>6, <1>8, <1>9, <1>10, <1>11 DEF Plan

------------------------------------------------------------------------------
(* What is left of a save, and that a row whose registry is still to be set  *)
(* is the one that this save wrote, unless somebody wrote one since.        *)

SetOK(w) ==
  /\ At(w, "set") /\ task[w].solo
  => table[Aim(w)] = RowOf(Aim(w), task[w].job[Aim(w)])

TaskOK(w) ==
  /\ task[w] = [job |-> task[w].job, todo |-> task[w].todo, solo |-> task[w].solo]
  /\ Orderly(task[w].todo)
  /\ SetOK(w)

Functions ==
  /\ table = [p \in Provider |-> table[p]]
  /\ live = [p \in Provider |-> live[p]]
  /\ task = [w \in Writers |-> task[w]]

SaveInv ==
  /\ Functions
  /\ agree \subseteq Provider
  /\ \A w \in Writers : TaskOK(w)
  /\ SettledRegistryMatches

LEMMA IdleOK ==
  ASSUME NEW w \in Writers, task[w] = Idle
  PROVE  TaskOK(w)
BY DEF TaskOK, Idle, Orderly, Paired, SetOK, At

LEMMA InitSaveInv == Init => SaveInv
<1> SUFFICES ASSUME Init PROVE SaveInv
  OBVIOUS
<1>1. \A w \in Writers : TaskOK(w)
  BY IdleOK DEF Init
<1> QED BY <1>1 DEF Init, SaveInv, Functions, Off, SettledRegistryMatches

(* The task of w after a step that was not to write a row.                  *)
LEMMA StepOK ==
  ASSUME SaveInv, NEW w \in Writers, task[w].todo # <<>>, ~At(w, "row"), NEW j,
         task'[w] = Advanced(w, j)
  PROVE  TaskOK(w)'
<1> DEFINE s == task[w].todo
<1>1. Orderly(s)
  BY DEF SaveInv, TaskOK
<1>2. CASE task'[w] = Idle
  BY <1>2 DEF TaskOK, Idle, Orderly, Paired, SetOK, At
<1>3. CASE Len(s) # 1 /\ task'[w] = [job |-> j, todo |-> Tail(s), solo |-> task[w].solo]
  <2>1. Orderly(Tail(s)) /\ Tail(s) # <<>> /\ Tail(s)[1] = s[2] /\ Head(s) = s[1]
        /\ (s[2][1] = "set" => s[1] = <<"row", s[2][2]>>)
    BY <1>1, <1>3, OrderlyTail
  <2>2. s[2][1] # "set"
    BY <2>1 DEF At
  <2>3. Head(Tail(s)) = Tail(s)[1]
    BY <2>1, OrderlyTail
  <2> QED BY <1>3, <2>1, <2>2, <2>3 DEF TaskOK, SetOK, At
<1> QED BY <1>2, <1>3 DEF Advanced

(* A step that writes no row and no registry, of one writer.                *)
LEMMA OtherSaveInv ==
  ASSUME SaveInv, NEW w \in Writers, TaskOK(w)',
         UNCHANGED <<table, live, agree>>, task' = [task EXCEPT ![w] = task'[w]]
  PROVE  SaveInv'
<1>1. ASSUME NEW x \in Writers PROVE TaskOK(x)'
  <2>1. CASE x = w
    BY <2>1
  <2>2. CASE x # w
    <3>1. task'[x] = task[x]
      BY <2>2 DEF SaveInv, Functions
    <3> QED BY <3>1 DEF SaveInv, TaskOK, SetOK, At, Aim
  <2> QED BY <2>1, <2>2
<1>2. Functions'
  BY DEF SaveInv, Functions
<1>3. SettledRegistryMatches'
  BY DEF SaveInv, SettledRegistryMatches
<1> QED BY <1>1, <1>2, <1>3 DEF SaveInv

LEMMA WorkFields ==
  ASSUME NEW h \in Work, h[1] \in {"key", "fill", "row", "set"}
  PROVE  h[2] \in Provider /\ h = <<h[1], h[2]>>
<1>1. CASE h \in {"key", "fill", "row", "set"} \X Provider
  <2>1. PICK a \in {"key", "fill", "row", "set"}, q \in Provider : h = <<a, q>>
    BY <1>1
  <2> QED BY <2>1
<1>2. h # <<"admin", "">> /\ h # <<"mode", "">>
  BY <<"admin", "">>[1] = "admin", <<"mode", "">>[1] = "mode"
<1> QED BY <1>1, <1>2 DEF Work

LEMMA AimOK ==
  ASSUME SaveInv, NEW w \in Writers, NEW what \in {"key", "fill", "row", "set"}, At(w, what)
  PROVE  Aim(w) \in Provider /\ task[w].todo # <<>> /\ Head(task[w].todo) = <<what, Aim(w)>>
<1>1. task[w].todo # <<>> /\ Head(task[w].todo) \in Work
  BY OrderlyTail DEF SaveInv, TaskOK, At
<1>2. Head(task[w].todo)[1] = what
  BY DEF At
<1> QED BY <1>1, <1>2, WorkFields DEF Aim

LEMMA WriteRowSaveInv ==
  ASSUME SaveInv, NEW w \in Writers, WriteRow(w)
  PROVE  SaveInv'
<1> DEFINE p == Aim(w)  s == task[w].todo
<1>1. p \in Provider /\ s # <<>> /\ Head(s) = <<"row", p>> /\ Orderly(s)
  BY AimOK DEF WriteRow, SaveInv, TaskOK
<1>2. /\ table' = [table EXCEPT ![p] = RowOf(p, task[w].job[p])]
      /\ task' = [x \in Writers |->
                    IF x = w THEN Advanced(w, task[w].job) ELSE [task[x] EXCEPT !.solo = FALSE]]
      /\ agree' = agree \ {p} /\ live' = live
  BY DEF WriteRow, process
<1>3. table'[p] = RowOf(p, task[w].job[p]) /\ \A q \in Provider \ {p} : table'[q] = table[q]
  BY <1>1, <1>2 DEF SaveInv, Functions
<1>4. ASSUME NEW x \in Writers PROVE TaskOK(x)'
  <2>1. CASE x # w
    <3>1. task[x] = [job |-> task[x].job, todo |-> task[x].todo, solo |-> task[x].solo]
          /\ Orderly(task[x].todo)
      BY DEF SaveInv, TaskOK
    <3>2. task'[x] = [task[x] EXCEPT !.solo = FALSE]
      BY <1>2, <2>1
    <3>3. task'[x] = [job |-> task[x].job, todo |-> task[x].todo, solo |-> FALSE]
      BY <3>1, <3>2
    <3> QED BY <3>1, <3>3 DEF TaskOK, SetOK
  <2>2. CASE x = w
    <3>1. CASE task'[w] = Idle
      BY <2>2, <3>1 DEF TaskOK, Idle, Orderly, Paired, SetOK, At
    <3>2. CASE /\ Len(s) # 1
               /\ task'[w] = [job |-> task[w].job, todo |-> Tail(s), solo |-> task[w].solo]
      <4>1. /\ Orderly(Tail(s)) /\ Tail(s) # <<>> /\ Tail(s)[1] = s[2] /\ Head(s) = s[1]
            /\ s[2][1] = "set" => s[1] = <<"row", s[2][2]>>
        BY <1>1, <3>2, OrderlyTail
      <4>2. Head(Tail(s)) = s[2]
        BY <4>1, OrderlyTail
      <4>3. s[2][1] = "set" => s[2][2] = p
        BY <1>1, <4>1
      <4> QED BY <1>3, <2>2, <3>2, <4>1, <4>2, <4>3 DEF TaskOK, SetOK, At, Aim
    <3> QED BY <1>2, <3>1, <3>2 DEF Advanced
  <2> QED BY <2>1, <2>2
<1>5. Functions'
  BY <1>2 DEF SaveInv, Functions
<1>6. SettledRegistryMatches'
  BY <1>2, <1>3 DEF SaveInv, SettledRegistryMatches
<1> QED BY <1>2, <1>4, <1>5, <1>6 DEF SaveInv

LEMMA SetRegistrySaveInv ==
  ASSUME SaveInv, NEW w \in Writers, SetRegistry(w)
  PROVE  SaveInv'
<1> DEFINE p == Aim(w)  c == task[w].job[p]
<1>1. p \in Provider /\ task[w].todo # <<>> /\ ~At(w, "row")
  BY AimOK DEF SetRegistry, At
<1>2. /\ live' = [live EXCEPT ![p] = RegistryOf(p, c)] /\ table' = table
      /\ agree' = IF task[w].solo THEN agree \cup {p} ELSE agree \ {p}
      /\ task' = [task EXCEPT ![w] = Advanced(w, task[w].job)]
  BY DEF SetRegistry, Advance, tables
<1>3. live'[p] = RegistryOf(p, c) /\ \A q \in Provider \ {p} : live'[q] = live[q]
  BY <1>1, <1>2 DEF SaveInv, Functions
<1>4. task[w].solo =>
        /\ table[p].url = live'[p].url /\ table[p].key = live'[p].key
        /\ p = "embedder" => table[p].backend = live'[p].backend
  <2> HAVE task[w].solo
  <2>1. table[p] = RowOf(p, c)
    BY DEF SetRegistry, SaveInv, TaskOK, SetOK
  <2> QED BY <1>3, <2>1 DEF RowOf, RegistryOf
<1>5. SettledRegistryMatches'
  BY <1>2, <1>3, <1>4 DEF SaveInv, SettledRegistryMatches
<1>6. task'[w] = Advanced(w, task[w].job) /\ \A x \in Writers \ {w} : task'[x] = task[x]
  BY <1>2 DEF SaveInv, Functions
<1>7. ASSUME NEW x \in Writers PROVE TaskOK(x)'
  <2>1. CASE x = w
    BY <1>1, <1>6, <2>1, StepOK
  <2>2. CASE x # w
    BY <1>2, <1>6, <2>2 DEF SaveInv, TaskOK, SetOK, At, Aim
  <2> QED BY <2>1, <2>2
<1>8. Functions'
  BY <1>2 DEF SaveInv, Functions
<1> QED BY <1>1, <1>2, <1>5, <1>7, <1>8 DEF SaveInv

LEMMA ServerSaveInv ==
  ASSUME SaveInv, UNCHANGED table,
         task' = [w \in Writers |-> task'[w]],
         \A w \in Writers : task'[w] = task[w] \/ TaskOK(w)',
         live' = [p \in Provider |-> live'[p]],
         \/ live' = live /\ agree' = agree
         \/ agree' = {}
         \/ agree' \subseteq Provider /\ \A p \in agree' : live'[p] = table[p]
  PROVE  SaveInv'
<1>1. ASSUME NEW w \in Writers PROVE TaskOK(w)'
  <2>1. CASE task'[w] = task[w]
    BY <2>1 DEF SaveInv, TaskOK, SetOK, At, Aim
  <2> QED BY <2>1
<1>2. SettledRegistryMatches' /\ agree' \subseteq Provider /\ Functions'
  BY DEF SaveInv, SettledRegistryMatches, Functions
<1> QED BY <1>1, <1>2 DEF SaveInv

LEMMA SaveStepSaveInv ==
  ASSUME SaveInv, NEW w \in Writers, SaveStep(w)
  PROVE  SaveInv'
<1>1. ASSUME NEW j, task' = [task EXCEPT ![w] = Advanced(w, j)], task[w].todo # <<>>,
             ~At(w, "row"), UNCHANGED <<table, live, agree>>
      PROVE  SaveInv'
  <2>1. task'[w] = Advanced(w, j)
    BY <1>1 DEF SaveInv, Functions
  <2>2. TaskOK(w)'
    BY <1>1, <2>1, StepOK
  <2> QED BY <1>1, <2>1, <2>2, OtherSaveInv
<1>2. ASSUME task' = [task EXCEPT ![w] = Idle], UNCHANGED <<table, live, agree>>
      PROVE  SaveInv'
  <2>1. task'[w] = Idle
    BY <1>2 DEF SaveInv, Functions
  <2>2. TaskOK(w)'
    BY <2>1 DEF TaskOK, Idle, Orderly, Paired, SetOK, At
  <2> QED BY <1>2, <2>1, <2>2, OtherSaveInv
<1>3. CASE MakeAdmin(w)
  BY <1>1, <1>2, <1>3 DEF MakeAdmin, Advance, At, tables, process
<1>4. CASE ReadKey(w)
  BY <1>1, <1>4 DEF ReadKey, At, tables, process
<1>5. CASE Fill(w)
  BY <1>1, <1>5 DEF Fill, At, tables, process
<1>6. CASE WriteMode(w)
  BY <1>1, <1>6 DEF WriteMode, Advance, At, process
<1>7. CASE Abandon(w)
  BY <1>2, <1>7 DEF Abandon, tables, process
<1> QED BY <1>3, <1>4, <1>5, <1>6, <1>7, WriteRowSaveInv, SetRegistrySaveInv DEF SaveStep

LEMMA StartedOK ==
  ASSUME NEW j, NEW w \in Writers, task'[w] = Started(j)
  PROVE  TaskOK(w)'
<1>1. Orderly(Plan(j)) /\ Opens(Plan(j))
  BY PlanOrderly
<1>2. Plan(j) # <<>> => Head(Plan(j))[1] # "set"
  BY <1>1, OrderlyTail DEF Opens
<1> HIDE DEF Orderly, Opens, Plan
<1> QED BY <1>1, <1>2 DEF Started, TaskOK, SetOK, At

LEMMA BeginSaveInv ==
  ASSUME SaveInv, NEW w \in Tasks, NEW j \in Jobs, BeginSave(w, j)
  PROVE  SaveInv'
<1>1. w \in Writers /\ task' = [task EXCEPT ![w] = Started(j)]
  BY DEF BeginSave, Writers
<1>2. task'[w] = Started(j)
  BY <1>1 DEF SaveInv, Functions
<1>3. UNCHANGED <<table, live, agree>>
  BY DEF BeginSave, tables, process
<1> QED BY <1>1, <1>2, <1>3, StartedOK, OtherSaveInv

LEMMA NextSaveInv == SaveInv /\ [Next]_vars => SaveInv'
<1> SUFFICES ASSUME SaveInv, [Next]_vars PROVE SaveInv'
  OBVIOUS
<1> USE DEF tables, process
<1>1. CASE UNCHANGED vars
  BY <1>1, ServerSaveInv DEF vars, SaveInv, Functions
<1>2. CASE Start
  BY <1>2, ServerSaveInv DEF Start, SaveInv, Functions
<1>3. CASE CheckTable
  <2>1. CASE task' = task
    BY <1>3, <2>1, ServerSaveInv DEF CheckTable, SaveInv, Functions
  <2>2. CASE task' = [task EXCEPT ![Boot] = Started(Save("seed", conf))]
    <3>1. Boot \in Writers
      BY DEF Writers
    <3>2. task'[Boot] = Started(Save("seed", conf))
      BY <2>2, <3>1 DEF SaveInv, Functions
    <3>3. TaskOK(Boot)'
      BY <3>1, <3>2, StartedOK
    <3> QED BY <1>3, <2>2, <3>1, <3>2, <3>3, OtherSaveInv DEF CheckTable
  <2> QED BY <1>3, <2>1, <2>2 DEF CheckTable
<1>4. CASE Seeded
  BY <1>4, ServerSaveInv DEF Seeded, SaveInv, Functions
<1>5. CASE ReadMode
  BY <1>5, ServerSaveInv DEF ReadMode, SaveInv, Functions
<1>6. CASE BuildService
  BY <1>6, ServerSaveInv DEF BuildService, SaveInv, Functions
<1>7. CASE LoadRegistry
  <2>1. \A p \in agree' : live'[p] = table[p]
    BY <1>7 DEF LoadRegistry, Loaded
  <2> QED BY <1>7, <2>1, ServerSaveInv DEF LoadRegistry, SaveInv, Functions
<1>8. CASE Halt
  <2>1. \A w \in Writers : task'[w] = task[w] \/ task'[w] = Idle
    BY <1>8 DEF Halt
  <2>2. \A w \in Writers : task'[w] = Idle => TaskOK(w)'
    BY DEF TaskOK, Idle, Orderly, Paired, SetOK, At
  <2>3. /\ UNCHANGED table /\ agree' = {}
        /\ task' = [w \in Writers |-> task'[w]] /\ live' = [p \in Provider |-> live'[p]]
    BY <1>8 DEF Halt, Off
  <2> QED BY <2>1, <2>2, <2>3, ServerSaveInv
<1> QED BY <1>1, <1>2, <1>3, <1>4, <1>5, <1>6, <1>7, <1>8, BeginSaveInv, SaveStepSaveInv DEF Next

(* Whatever writers overlap, fail or die, and however often the server       *)
(* restarts, what the handlers show of a provider is what is stored, after a *)
(* save that ran alone and until the row is written again.                  *)
THEOREM ShownIsStored == Spec => []SettledRegistryMatches
<1>1. SaveInv => SettledRegistryMatches
  BY DEF SaveInv
<1> QED BY <1>1, InitSaveInv, NextSaveInv, PTL DEF Spec

------------------------------------------------------------------------------
(* Before the first save all there is comes from the file, wherever a boot   *)
(* that was seeding stopped.                                                *)

SeedSteps == {"row"} \X Provider \cup {<<"mode", "">>}

BootOK ==
  \/ task[Boot] = Idle
  \/ /\ file \in Files
     /\ task[Boot].job = Save("seed", file)
     /\ task[Boot].todo \in Seq(SeedSteps)

TablesOK ==
  /\ \A p \in Provider : table[p] = NoConfig \/ (file \in Files /\ table[p] = RowOf(p, file[p]))
  /\ modeRow = "" \/ (file \in Files /\ modeRow = file.mode)

ServerOK ==
  /\ server \notin {"down", "setup"} => conf = file /\ file \in Files
  /\ server \in {"build", "registry", "serving"} => usedMode = file.mode
  /\ server \in {"registry", "serving"} => \A p \in Provider : Normalize(used[p]) = Normalize(file[p])
  /\ server = "serving" => \A p \in Provider : Normalize(live[p]) = Normalize(file[p])

Untouched ==
  /\ Functions
  /\ file \in Files \cup {NoConfig}
  /\ \A w \in Tasks : task[w] = Idle
  /\ BootOK /\ TablesOK /\ ServerOK

BootInv == saves \in Nat /\ (saves = 0 => Untouched)

LEMMA FileFields ==
  ASSUME NEW s \in Files, NEW p \in Provider
  PROVE  /\ s.mode \in Mode /\ Save("seed", s).mode = s.mode /\ Save("seed", s)[p] = s[p]
         /\ s # NoConfig
         /\ Normalize(RowOf(p, s[p])) = Normalize(s[p])
<1>1. s \in Settings /\ s.llm.backend = "remote" /\ s # NoConfig
  BY ConfigAssumption
<1>2. /\ s.mode \in Mode /\ s.llm \in Config /\ s.embedder \in Config
  BY <1>1 DEF Settings
<1>3. CASE p = "llm"
  <2>1. s[p] = s.llm /\ Save("seed", s)[p] = s.llm
    BY <1>1, <1>3 DEF Settings, Save
  <2>2. Normalize(RowOf(p, s.llm)) = Normalize(s.llm)
    BY <1>1, <1>2, <1>3 DEF RowOf, Normalize, Config
  <2> QED BY <1>1, <1>2, <2>1, <2>2 DEF Save
<1>4. CASE p = "embedder"
  <2>1. s[p] = s.embedder /\ Save("seed", s)[p] = s.embedder
    BY <1>1, <1>4 DEF Settings, Save
  <2>2. Normalize(RowOf(p, s.embedder)) = Normalize(s.embedder)
    BY <1>2, <1>4 DEF RowOf, Normalize, Config
  <2> QED BY <1>1, <1>2, <2>1, <2>2 DEF Save
<1> QED BY <1>3, <1>4 DEF Provider

LEMMA SeedPlan ==
  ASSUME NEW s
  PROVE  Plan(Save("seed", s)) \in Seq(SeedSteps)
<1> DEFINE l == <<"row", "llm">>  e == <<"row", "embedder">>  m == <<"mode", "">>
           a == IF s.mode = "raw" THEN <<>> ELSE <<l>>
<1>1. l \in SeedSteps /\ e \in SeedSteps /\ m \in SeedSteps
  BY DEF SeedSteps, Provider
<1>2. Plan(Save("seed", s)) = a \o <<e, m>>
  BY DEF Plan, PersistOf, Save
<1> HIDE DEF l, e, m
<1>3. a \in Seq(SeedSteps) /\ <<e, m>> \in Seq(SeedSteps)
  BY <1>1
<1> HIDE DEF a
<1> QED BY <1>2, <1>3, ConcatProperties

LEMMA InitBootInv == Init => BootInv
<1> SUFFICES ASSUME Init PROVE BootInv
  OBVIOUS
<1>1. \A w \in Writers : task[w] = Idle
  BY DEF Init
<1>2. Functions /\ TablesOK
  BY DEF Init, Functions, TablesOK, Off
<1>3. BootOK /\ ServerOK
  BY <1>1 DEF Init, BootOK, ServerOK, Writers
<1> QED BY <1>1, <1>2, <1>3 DEF Init, BootInv, Untouched, Writers

LEMMA NoLongerSolo ==
  ASSUME NEW r, NEW q, r = [job |-> r.job, todo |-> r.todo, solo |-> r.solo],
         q = [r EXCEPT !.solo = FALSE]
  PROVE  q = [job |-> r.job, todo |-> r.todo, solo |-> FALSE]
OBVIOUS

(* A step of the seeding boot, the only writer that is at work.             *)
LEMMA SeedBootInv ==
  ASSUME Untouched, NEW w \in Writers, SaveStep(w)
  PROVE  Untouched'
<1>1. task[w] # Idle
  <2>1. Idle.todo = <<>>
    BY DEF Idle
  <2> QED BY <2>1
          DEF SaveStep, MakeAdmin, ReadKey, Fill, WriteRow, SetRegistry, WriteMode, Abandon, At
<1>2. w = Boot /\ Boot \notin Tasks
  BY <1>1, ConfigAssumption DEF Untouched, Writers
<1> DEFINE s == task[w].todo  j == task[w].job
<1>3. file \in Files /\ j = Save("seed", file) /\ s \in Seq(SeedSteps)
  BY <1>1, <1>2 DEF Untouched, BootOK
<1>4. s # <<>> => Head(s) \in SeedSteps /\ Tail(s) \in Seq(SeedSteps)
  BY <1>3, HeadTailProperties
<1>5. \A h \in SeedSteps : (h[1] = "row" /\ h[2] \in Provider) \/ h[1] = "mode"
  <2>1. ASSUME NEW h \in {"row"} \X Provider PROVE h[1] = "row" /\ h[2] \in Provider
    BY <2>1
  <2>2. <<"mode", "">>[1] = "mode"
    OBVIOUS
  <2> QED BY <2>1, <2>2 DEF SeedSteps
<1>6. /\ s # <<>> /\ UNCHANGED <<file, server, conf, used, usedMode, live>>
      /\ \/ WriteRow(w) /\ Aim(w) \in Provider
         \/ WriteMode(w)
  BY <1>2, <1>4, <1>5
  DEF SaveStep, MakeAdmin, ReadKey, Fill, WriteRow, SetRegistry, WriteMode, Abandon, At, Aim, process
<1>7. task'[w] = Advanced(w, j) /\ (\A x \in Tasks : task'[x] = Idle) /\ task' = [x \in Writers |-> task'[x]]
  <2>1. CASE WriteMode(w)
    BY <1>2, <2>1 DEF WriteMode, Advance, Untouched, Functions, Writers
  <2>2. CASE WriteRow(w)
    <3>1. task' = [x \in Writers |-> IF x = w THEN Advanced(w, j) ELSE [task[x] EXCEPT !.solo = FALSE]]
      BY <2>2 DEF WriteRow
    <3>2. [Idle EXCEPT !.solo = FALSE] = Idle
      <4>1. Idle.job = NoConfig /\ Idle.todo = <<>> /\ Idle.solo = FALSE
        BY DEF Idle
      <4>2. Idle = [job |-> Idle.job, todo |-> Idle.todo, solo |-> Idle.solo]
        BY <4>1 DEF Idle
      <4> HIDE DEF Idle
      <4>3. [Idle EXCEPT !.solo = FALSE] = [job |-> Idle.job, todo |-> Idle.todo, solo |-> FALSE]
        BY <4>2, NoLongerSolo
      <4> QED BY <4>1, <4>2, <4>3
    <3>3. task'[w] = Advanced(w, j) /\ task' = [x \in Writers |-> task'[x]]
      BY <3>1
    <3>4. ASSUME NEW x \in Tasks PROVE task'[x] = Idle
      <4>1. x \in Writers /\ x # w /\ task[x] = Idle
        BY <1>2 DEF Untouched, Writers
      <4>2. task'[x] = [task[x] EXCEPT !.solo = FALSE]
        BY <3>1, <4>1
      <4> QED BY <3>2, <4>1, <4>2
    <3> QED BY <3>3, <3>4
  <2> QED BY <1>6, <2>1, <2>2
<1>8. BootOK'
  BY <1>2, <1>3, <1>4, <1>6, <1>7 DEF BootOK, Advanced
<1>9. TablesOK' /\ table' = [p \in Provider |-> table'[p]]
  <2>1. CASE WriteRow(w) /\ Aim(w) \in Provider
    <3> DEFINE p == Aim(w)
    <3>1. j[p] = file[p]
      BY <1>3, <2>1, FileFields
    <3>2. table' = [table EXCEPT ![p] = RowOf(p, file[p])] /\ modeRow' = modeRow
      BY <2>1, <3>1 DEF WriteRow
    <3> QED BY <1>3, <1>6, <2>1, <3>2 DEF Untouched, Functions, TablesOK
  <2>2. CASE WriteMode(w)
    <3>1. j.mode = file.mode
      BY <1>3 DEF Save
    <3> QED BY <1>3, <1>6, <2>2, <3>1 DEF WriteMode, Untouched, Functions, TablesOK
  <2> QED BY <1>6, <2>1, <2>2
<1>10. ServerOK' /\ live' = [p \in Provider |-> live'[p]]
  BY <1>6 DEF Untouched, Functions, ServerOK
<1> QED BY <1>6, <1>7, <1>8, <1>9, <1>10 DEF Untouched, Functions

LEMMA LoadedIsFile ==
  ASSUME Untouched, conf = file, file \in Files, NEW p \in Provider
  PROVE  /\ Normalize(Loaded(p)) = Normalize(file[p])
         /\ LoadedMode = file.mode
<1>1. Normalize(Loaded(p)) = Normalize(file[p])
  BY FileFields DEF Loaded, Untouched, TablesOK
<1>2. LoadedMode = file.mode
  BY FileFields DEF LoadedMode, Untouched, TablesOK, Mode
<1> QED BY <1>1, <1>2

LEMMA ServerBootInv ==
  ASSUME Untouched,
         Start \/ CheckTable \/ Seeded \/ ReadMode \/ BuildService \/ LoadRegistry \/ Halt
  PROVE  Untouched'
<1> USE DEF tables, process
<1>1. CASE Start
  BY <1>1 DEF Start, Untouched, Functions, BootOK, TablesOK, ServerOK
<1>2. CASE CheckTable
  <2>1. conf = file /\ file \in Files
    BY <1>2 DEF CheckTable, Untouched, ServerOK
  <2>2. CASE task' = task
    BY <1>2, <2>2 DEF CheckTable, Untouched, Functions, BootOK, TablesOK, ServerOK
  <2>3. CASE task' = [task EXCEPT ![Boot] = Started(Save("seed", conf))]
    <3>1. Boot \in Writers /\ Boot \notin Tasks
      BY ConfigAssumption DEF Writers
    <3>2. /\ task'[Boot] = Started(Save("seed", file)) /\ \A w \in Tasks : task'[w] = task[w]
          /\ task' = [w \in Writers |-> task'[w]]
      BY <2>1, <2>3, <3>1 DEF Untouched, Functions, Writers
    <3>3. BootOK'
      BY <1>2, <2>1, <3>2, SeedPlan DEF CheckTable, BootOK, Started
    <3> QED BY <1>2, <3>2, <3>3 DEF CheckTable, Untouched, Functions, TablesOK, ServerOK
  <2> QED BY <1>2, <2>2, <2>3 DEF CheckTable
<1>3. CASE Seeded
  BY <1>3 DEF Seeded, Untouched, Functions, BootOK, TablesOK, ServerOK
<1>4. CASE ReadMode
  <2>1. conf = file /\ file \in Files /\ "llm" \in Provider
    BY <1>4 DEF ReadMode, Untouched, ServerOK, Provider
  <2>2. usedMode' = file.mode
    BY <1>4, <2>1, LoadedIsFile DEF ReadMode
  <2> QED BY <1>4, <2>1, <2>2 DEF ReadMode, Untouched, Functions, BootOK, TablesOK, ServerOK
<1>5. CASE BuildService
  <2>1. conf = file /\ file \in Files
    BY <1>5 DEF BuildService, Untouched, ServerOK
  <2>2. \A p \in Provider : Normalize(used'[p]) = Normalize(file[p])
    BY <1>5, <2>1, LoadedIsFile DEF BuildService
  <2> QED BY <1>5, <2>1, <2>2 DEF BuildService, Untouched, Functions, BootOK, TablesOK, ServerOK
<1>6. CASE LoadRegistry
  <2>1. conf = file /\ file \in Files
    BY <1>6 DEF LoadRegistry, Untouched, ServerOK
  <2>2. \A p \in Provider : Normalize(live'[p]) = Normalize(file[p])
    BY <1>6, <2>1, LoadedIsFile DEF LoadRegistry
  <2> QED BY <1>6, <2>1, <2>2 DEF LoadRegistry, Untouched, Functions, BootOK, TablesOK, ServerOK
<1>7. CASE Halt
  <2>1. \A w \in Writers : task'[w] = task[w] \/ task'[w] = Idle
    BY <1>7 DEF Halt
  <2>2. task'[Boot] = Idle \/ task'[Boot] = task[Boot]
    BY <2>1 DEF Writers
  <2>3. (\A w \in Tasks : task'[w] = Idle) /\ task' = [w \in Writers |-> task'[w]]
    BY <1>7, <2>1 DEF Halt, Untouched, Writers
  <2>4. BootOK'
    BY <1>7, <2>2 DEF Halt, Untouched, BootOK
  <2> QED BY <1>7, <2>3, <2>4 DEF Halt, Off, Untouched, Functions, TablesOK, ServerOK
<1> QED BY <1>1, <1>2, <1>3, <1>4, <1>5, <1>6, <1>7

LEMMA NextBootInv == BootInv /\ [Next]_vars => BootInv'
<1> SUFFICES ASSUME BootInv, [Next]_vars PROVE BootInv'
  OBVIOUS
<1>1. CASE UNCHANGED vars
  BY <1>1
  DEF vars, tables, process, BootInv, Untouched, Functions, BootOK, TablesOK, ServerOK
<1>2. CASE \E w \in Tasks, j \in Jobs : BeginSave(w, j)
  <2>1. saves' = saves + 1
    BY <1>2 DEF BeginSave
  <2> QED BY <2>1 DEF BootInv
<1>3. CASE \E w \in Writers : SaveStep(w)
  <2>1. saves' = saves
    BY <1>3 DEF SaveStep, MakeAdmin, ReadKey, Fill, WriteRow, SetRegistry, WriteMode, Abandon
  <2> QED BY <1>3, <2>1, SeedBootInv DEF BootInv
<1>4. CASE Start \/ CheckTable \/ Seeded \/ ReadMode \/ BuildService \/ LoadRegistry \/ Halt
  <2>1. saves' = saves
    BY <1>4 DEF Start, CheckTable, Seeded, ReadMode, BuildService, LoadRegistry, Halt
  <2> QED BY <1>4, <2>1, ServerBootInv DEF BootInv
<1> QED BY <1>1, <1>2, <1>3, <1>4 DEF Next

(* As long as nobody saves settings, a server that serves runs with those of *)
(* its config file, in both registries and in its mode, at whatever point    *)
(* earlier boots died, seeding or not.                                      *)
THEOREM BootFollowsFile == Spec => []BootRunsFile
<1>1. BootInv => BootRunsFile
  BY DEF BootInv, Untouched, ServerOK, BootRunsFile
<1> QED BY <1>1, InitBootInv, NextBootInv, PTL DEF Spec

------------------------------------------------------------------------------
(* A masked key: a save that keeps one goes through the steps of the form    *)
(* for one provider, and from its read on it holds the key of the row.       *)

Stages(p) == <<<<"set", p>>, <<"row", p>>, <<"fill", p>>, <<"key", p>>, <<"mode", "">>>>

(* s ends the steps of the form of p.                                       *)
Ends(s, p) ==
  /\ s \in Seq(Work) /\ Len(s) \in 1 .. 5
  /\ \A k \in 1 .. Len(s) : s[k] = Stages(p)[Len(s) + 1 - k]

JobFor(j, p) ==
  /\ p \in DOMAIN j /\ "keep" \in DOMAIN j
  /\ {"backend", "url", "key"} \subseteq DOMAIN j[p]

MaskOK(w) ==
  LET s == task[w].todo
      j == task[w].job
  IN /\ s # <<>> => "keep" \in DOMAIN j
     /\ s # <<>> /\ "key" \in j.keep =>
          \/ \A k \in 1 .. Len(s) : s[k][1] = "mode"
          \/ \E p \in Provider :
               /\ Ends(s, p) /\ JobFor(j, p)
               /\ Len(s) \in {2, 3} /\ task[w].solo /\ table[p] # NoConfig
                  => j[p].key = table[p].key

MaskInv == SaveInv /\ \A w \in Writers : MaskOK(w)

LEMMA StageFields ==
  ASSUME NEW p
  PROVE  /\ Stages(p)[1] = <<"set", p>> /\ Stages(p)[2] = <<"row", p>>
         /\ Stages(p)[3] = <<"fill", p>> /\ Stages(p)[4] = <<"key", p>>
         /\ Stages(p)[5][1] = "mode"
BY DEF Stages

LEMMA EndsHead ==
  ASSUME NEW s, NEW p, Ends(s, p)
  PROVE  /\ s # <<>>
         /\ Head(s)[1] = "row" => Len(s) = 2 /\ Head(s)[2] = p
         /\ Head(s)[1] = "fill" => Len(s) = 3 /\ Head(s)[2] = p
         /\ Head(s)[1] = "key" => Len(s) = 4 /\ Head(s)[2] = p
         /\ Len(s) = 3 => Head(s)[1] = "fill"
         /\ Len(s) = 4 => Head(s)[1] = "key"
<1> DEFINE n == Len(s)  h == Head(s)
<1>1. s \in Seq(Work) /\ n \in 1 .. 5 /\ s[1] = Stages(p)[n]
  BY DEF Ends
<1>2. s # <<>> /\ h = s[1]
  BY <1>1, HeadTailProperties, EmptySeq
<1>3. n = 1 \/ n = 2 \/ n = 3 \/ n = 4 \/ n = 5
  BY <1>1
<1>4. h = Stages(p)[n]
  BY <1>1, <1>2
<1> HIDE DEF n, h
<1>5. /\ h[1] = "row" => n = 2 /\ h[2] = p
      /\ h[1] = "fill" => n = 3 /\ h[2] = p
      /\ h[1] = "key" => n = 4 /\ h[2] = p
      /\ (n = 3 => h[1] = "fill") /\ (n = 4 => h[1] = "key")
  BY <1>3, <1>4, StageFields
<1> QED BY <1>2, <1>5 DEF n, h

LEMMA EndsTail ==
  ASSUME NEW s, NEW p, Ends(s, p), Len(s) # 1
  PROVE  Ends(Tail(s), p) /\ Len(Tail(s)) = Len(s) - 1
<1> DEFINE n == Len(s)  t == Tail(s)
<1>1. s \in Seq(Work) /\ n \in 2 .. 5 /\ \A k \in 1 .. n : s[k] = Stages(p)[n + 1 - k]
  BY DEF Ends
<1>2. /\ t \in Seq(Work) /\ Len(t) = n - 1
      /\ \A k \in 1 .. Len(t) : t[k] = s[k + 1]
  BY <1>1, HeadTailProperties, EmptySeq
<1> HIDE DEF n, t
<1>3. ASSUME NEW k \in 1 .. Len(t)
      PROVE  t[k] = Stages(p)[Len(t) + 1 - k]
  <2>1. k + 1 \in 1 .. n /\ n + 1 - (k + 1) = Len(t) + 1 - k
    BY <1>1, <1>2
  <2> QED BY <1>1, <1>2, <2>1
<1>4. Len(t) \in 1 .. 5
  BY <1>1, <1>2
<1>5. Ends(t, p)
  BY <1>2, <1>3, <1>4 DEF Ends
<1> QED BY <1>2, <1>5 DEF n, t

(* The plan of a dashboard form ends in the steps of its provider.           *)
LEMMA FormPlan ==
  ASSUME NEW p \in Provider, NEW m, m = <<>> \/ m = <<Stages(p)[5]>>
  PROVE  Ends(m \o <<<<"key", p>>, <<"fill", p>>>> \o <<<<"row", p>>, <<"set", p>>>>, p)
         /\ Len(m \o <<<<"key", p>>, <<"fill", p>>>> \o <<<<"row", p>>, <<"set", p>>>>) \in {4, 5}
<1> DEFINE k == <<"key", p>>  f == <<"fill", p>>  r == <<"row", p>>  t == <<"set", p>>
           a == Stages(p)[5]  kf == <<k, f>>  rt == <<r, t>>  u == m \o kf  s == u \o rt
<1>1. k \in Work /\ f \in Work /\ r \in Work /\ t \in Work /\ a \in Work
  BY DEF Work, Stages
<1>2. /\ Stages(p)[1] = t /\ Stages(p)[2] = r /\ Stages(p)[3] = f /\ Stages(p)[4] = k
      /\ Stages(p)[5] = a
  BY DEF Stages
<1> HIDE DEF k, f, r, t, a
<1>3. /\ kf \in Seq(Work) /\ Len(kf) = 2 /\ kf[1] = k /\ kf[2] = f
      /\ rt \in Seq(Work) /\ Len(rt) = 2 /\ rt[1] = r /\ rt[2] = t
  BY <1>1
<1>m. m \in Seq(Work) /\ (Len(m) = 0 \/ (Len(m) = 1 /\ m[1] = a))
  <2>1. m = <<>> \/ m = <<a>>
    BY DEF a
  <2>2. CASE m = <<>>
    BY <2>2
  <2>3. CASE m = <<a>>
    BY <1>1, <2>3
  <2> QED BY <2>1, <2>2, <2>3
<1> HIDE DEF kf, rt
<1>c. ASSUME NEW x \in Seq(Work), NEW y \in Seq(Work), Len(y) = 2
      PROVE  /\ x \o y \in Seq(Work) /\ Len(x \o y) = Len(x) + 2
             /\ \A i \in 1 .. Len(x) : (x \o y)[i] = x[i]
             /\ (x \o y)[Len(x) + 1] = y[1] /\ (x \o y)[Len(x) + 2] = y[2]
  <2>1. /\ x \o y \in Seq(Work) /\ Len(x \o y) = Len(x) + Len(y) /\ Len(x) \in Nat
        /\ \A i \in 1 .. Len(x) + Len(y) :
             (x \o y)[i] = IF i <= Len(x) THEN x[i] ELSE y[i - Len(x)]
    BY ConcatProperties, LenProperties
  <2> QED BY <1>c, <2>1
<1>4. /\ u \in Seq(Work) /\ Len(u) = Len(m) + 2
      /\ \A i \in 1 .. Len(m) : u[i] = m[i]
      /\ u[Len(m) + 1] = k /\ u[Len(m) + 2] = f
  BY <1>3, <1>m, <1>c
<1> HIDE DEF u
<1>5. /\ s \in Seq(Work) /\ Len(s) = Len(u) + 2
      /\ \A i \in 1 .. Len(u) : s[i] = u[i]
      /\ s[Len(u) + 1] = r /\ s[Len(u) + 2] = t
  BY <1>3, <1>4, <1>c
<1> HIDE DEF s
<1> DEFINE n == Len(m)  ns == Len(s)  nu == Len(u)
<1>6. CASE n = 0
  <2>1. nu = 2 /\ u[1] = k /\ u[2] = f
    BY <1>4, <1>6
  <2>2. ns = 4 /\ s[1] = k /\ s[2] = f /\ s[3] = r /\ s[4] = t
    BY <1>5, <2>1
  <2>3. \A i \in 1 .. ns : s[i] = Stages(p)[ns + 1 - i]
    <3>1. \A i \in 1 .. 4 : i = 1 \/ i = 2 \/ i = 3 \/ i = 4
      OBVIOUS
    <3> HIDE DEF ns
    <3> QED BY <1>2, <2>2, <3>1
  <2>4. Ends(s, p)
    <3>1. ns \in 1 .. 5
      BY <2>2
    <3> HIDE DEF ns
    <3> QED BY <1>5, <2>3, <3>1 DEF Ends, ns
  <2> QED BY <2>2, <2>4 DEF s, u, kf, rt, k, f, r, t
<1>7. CASE n = 1
  <2>1. nu = 3 /\ u[1] = a /\ u[2] = k /\ u[3] = f
    BY <1>m, <1>4, <1>7
  <2>2. ns = 5 /\ s[1] = a /\ s[2] = k /\ s[3] = f /\ s[4] = r /\ s[5] = t
    BY <1>5, <2>1
  <2>3. \A i \in 1 .. ns : s[i] = Stages(p)[ns + 1 - i]
    <3>1. \A i \in 1 .. 5 : i = 1 \/ i = 2 \/ i = 3 \/ i = 4 \/ i = 5
      OBVIOUS
    <3> HIDE DEF ns
    <3> QED BY <1>2, <2>2, <3>1
  <2>4. Ends(s, p)
    <3>1. ns \in 1 .. 5
      BY <2>2
    <3> HIDE DEF ns
    <3> QED BY <1>5, <2>3, <3>1 DEF Ends, ns
  <2> QED BY <2>2, <2>4 DEF s, u, kf, rt, k, f, r, t
<1> QED BY <1>m, <1>6, <1>7

(* The same job with a field of what it saves for p changed.                *)
LEMMA KeyEdit ==
  ASSUME NEW p \in Provider, NEW j, JobFor(j, p), NEW x
  PROVE  /\ JobFor([j EXCEPT ![p].key = x], p)
         /\ [j EXCEPT ![p].key = x].keep = j.keep
         /\ [j EXCEPT ![p].key = x][p].key = x
BY DEF Provider, JobFor

LEMMA UrlEdit ==
  ASSUME NEW p \in Provider, NEW j, JobFor(j, p), NEW x
  PROVE  /\ JobFor([j EXCEPT ![p].url = x], p)
         /\ [j EXCEPT ![p].url = x].keep = j.keep
         /\ [j EXCEPT ![p].url = x][p].key = j[p].key
BY DEF Provider, JobFor

LEMMA BackendEdit ==
  ASSUME NEW p \in Provider, NEW j, JobFor(j, p), NEW x
  PROVE  /\ JobFor([j EXCEPT ![p].backend = x], p)
         /\ [j EXCEPT ![p].backend = x].keep = j.keep
         /\ [j EXCEPT ![p].backend = x][p].key = j[p].key
BY DEF Provider, JobFor

LEMMA KeepEdit ==
  ASSUME NEW p \in Provider, NEW j, JobFor(j, p), NEW x
  PROVE  JobFor([j EXCEPT !.keep = x], p) /\ [j EXCEPT !.keep = x].keep = x
BY DEF Provider, JobFor

(* An edit of what is saved for a provider changes no other field.          *)
LEMMA KeepKept ==
  ASSUME NEW p \in Provider, NEW j, "keep" \in DOMAIN j, NEW x
  PROVE  /\ [j EXCEPT ![p] = x].keep = j.keep
         /\ DOMAIN [j EXCEPT ![p] = x] = DOMAIN j
BY DEF Provider

LEMMA RecordFields ==
  ASSUME NEW B, NEW U, NEW K, NEW c \in [backend : B, url : U, key : K]
  PROVE  {"backend", "url", "key"} \subseteq DOMAIN c
OBVIOUS

LEMMA ConfigFields ==
  ASSUME NEW c \in Config
  PROVE  {"backend", "url", "key"} \subseteq DOMAIN c
<1> DEFINE B == {"remote", "local"}  U == Urls \cup {""}  K == Keys \cup {""}
<1>1. c \in [backend : B, url : U, key : K]
  BY DEF Config
<1> HIDE DEF B, U, K
<1> QED BY <1>1, RecordFields

LEMMA JobFields ==
  ASSUME NEW j \in Job, NEW p \in Provider, j[p] # NoConfig
  PROVE  JobFor(j, p)
<1> DEFINE D == {"web", "api", "seed", "setup", "wizard"}  C == Config \cup {NoConfig}
           M == Mode \cup {"", "other"}  N == SUBSET {"key", "backend", "url"}
<1>1. j \in [kind : D, llm : C, embedder : C, mode : M, keep : N]
  BY DEF Job
<1> HIDE DEF D, M, N, C
<1>2. p \in DOMAIN j /\ "keep" \in DOMAIN j /\ j[p] \in C
  BY <1>1 DEF Provider
<1>3. j[p] \in Config
  BY <1>2 DEF C
<1> QED BY <1>2, <1>3, ConfigFields DEF JobFor

LEMMA JobKeeps ==
  ASSUME NEW j \in Job
  PROVE  "keep" \in DOMAIN j
<1> DEFINE D == {"web", "api", "seed", "setup", "wizard"}  C == Config \cup {NoConfig}
           M == Mode \cup {"", "other"}  N == SUBSET {"key", "backend", "url"}
<1>1. j \in [kind : D, llm : C, embedder : C, mode : M, keep : N]
  BY DEF Job
<1> HIDE DEF D, M, N, C
<1> QED BY <1>1

LEMMA StartedMasked ==
  ASSUME NEW w \in Writers, NEW j, "keep" \in DOMAIN j, "key" \in j.keep => j \in Jobs,
         task'[w] = Started(j)
  PROVE  MaskOK(w)'
<1> SUFFICES ASSUME "key" \in j.keep PROVE MaskOK(w)'
  BY DEF MaskOK, Started
<1> DEFINE e == <<"mode", "">>
<1>1. j \in Job /\ j.kind = "web" /\ NoConfig \in {j.llm, j.embedder}
  BY ConfigAssumption
<1>2. task'[w].todo = Plan(j) /\ task'[w].job = j
  BY DEF Started
<1>3. ModeOf(j) = <<>> \/ ModeOf(j) = <<e>>
  BY DEF ModeOf
<1>e. e[1] = "mode" /\ \A p : Stages(p)[5] = e
  BY DEF Stages
<1> HIDE DEF e
<1>4. ASSUME NEW p \in Provider, j[p] # NoConfig, NEW m, m = <<>> \/ m = <<e>>,
             Plan(j) = m \o <<<<"key", p>>, <<"fill", p>>>> \o SaveOf(j, p)
      PROVE  MaskOK(w)'
  <2>1. SaveOf(j, p) = <<<<"row", p>>, <<"set", p>>>>
    BY <1>4 DEF SaveOf
  <2>2. m = <<>> \/ m = <<Stages(p)[5]>>
    BY <1>4, <1>e
  <2> DEFINE a == <<<<"key", p>>, <<"fill", p>>>>  b == <<<<"row", p>>, <<"set", p>>>>
  <2>3. Ends(m \o a \o b, p) /\ Len(m \o a \o b) \in {4, 5}
    BY <2>2, FormPlan
  <2>4. Plan(j) = m \o a \o b
    BY <1>4, <2>1
  <2> HIDE DEF a, b
  <2>5. Ends(Plan(j), p) /\ Len(Plan(j)) \in {4, 5}
    BY <2>3, <2>4
  <2>6. Len(Plan(j)) \notin {2, 3}
    BY <2>5
  <2>7. JobFor(j, p)
    BY <1>1, <1>4, JobFields
  <2> DEFINE s == Plan(j)
  <2> HIDE DEF s
  <2> QED BY <1>2, <2>5, <2>6, <2>7 DEF MaskOK
<1>5. CASE j.llm # NoConfig
  <2>1. Plan(j) = ModeOf(j) \o <<<<"key", "llm">>, <<"fill", "llm">>>> \o SaveOf(j, "llm")
    BY <1>1, <1>5 DEF Plan
  <2> HIDE DEF Plan, ModeOf, SaveOf
  <2> QED BY <1>3, <1>4, <1>5, <2>1 DEF Provider
<1>6. CASE j.llm = NoConfig /\ j.embedder # NoConfig
  <2> DEFINE u == <<<<"key", "embedder">>, <<"fill", "embedder">>>>  v == SaveOf(j, "embedder")
  <2>1. Plan(j) = u \o v
    BY <1>1, <1>6 DEF Plan
  <2>2. u \in Seq(Work) /\ v \in Seq(Work)
    BY <1>6 DEF Work, Provider, SaveOf
  <2>3. Plan(j) = <<>> \o u \o v
    <3> HIDE DEF u, v
    <3>1. <<>> \o u = u
      BY <2>2, ConcatEmptySeq
    <3> QED BY <2>1, <3>1
  <2>4. "embedder" \in Provider
    BY DEF Provider
  <2> QED BY <1>4, <1>6, <2>3, <2>4
<1>7. CASE j.llm = NoConfig /\ j.embedder = NoConfig
  <2>1. Plan(j) = ModeOf(j)
    BY <1>1, <1>7 DEF Plan
  <2> HIDE DEF Plan, ModeOf
  <2>2. \A k \in 1 .. Len(Plan(j)) : Plan(j)[k][1] = "mode"
    BY <1>3, <1>e, <2>1
  <2> QED BY <1>2, <2>2 DEF MaskOK
<1> QED BY <1>5, <1>6, <1>7

(* What a save with a masked key is at, and what it holds.                  *)
LEMMA MaskedAim ==
  ASSUME NEW w \in Writers, MaskInv, "key" \in task[w].job.keep,
         NEW what \in {"key", "fill", "row"}, At(w, what)
  PROVE  LET p == Aim(w)
             s == task[w].todo
             j == task[w].job
         IN /\ p \in Provider /\ Ends(s, p) /\ JobFor(j, p)
            /\ (what = "key" /\ Len(s) = 4) \/ (what = "fill" /\ Len(s) = 3) \/ (what = "row" /\ Len(s) = 2)
            /\ what # "key" /\ task[w].solo /\ table[p] # NoConfig => j[p].key = table[p].key
<1> DEFINE s == task[w].todo  j == task[w].job
<1>1. s # <<>> /\ s \in Seq(Work) /\ Head(s)[1] = what /\ Aim(w) = Head(s)[2] /\ MaskOK(w)
  BY DEF MaskInv, SaveInv, TaskOK, Orderly, At, Aim
<1>2. 1 \in 1 .. Len(s) /\ Head(s) = s[1]
  BY <1>1, HeadTailProperties, EmptySeq
<1>3. s[1][1] # "mode"
  BY <1>1, <1>2
<1>4. PICK p \in Provider :
        /\ Ends(s, p) /\ JobFor(j, p)
        /\ Len(s) \in {2, 3} /\ task[w].solo /\ table[p] # NoConfig => j[p].key = table[p].key
  BY <1>1, <1>2, <1>3 DEF MaskOK
<1>5. Aim(w) = p /\ ((what = "key" /\ Len(s) = 4) \/ (what = "fill" /\ Len(s) = 3) \/ (what = "row" /\ Len(s) = 2))
  BY <1>1, <1>4, EndsHead
<1> QED BY <1>4, <1>5

(* The task of w after a step that leaves it the job j.                     *)
LEMMA MaskedStep ==
  ASSUME MaskInv, NEW w \in Writers, NEW j, task[w].todo # <<>>, task'[w] = Advanced(w, j),
         "keep" \in DOMAIN j,
         "key" \in j.keep =>
           \/ j = task[w].job /\ ~At(w, "key") /\ ~At(w, "fill")
           \/ \E p \in Provider :
                /\ Ends(task[w].todo, p) /\ JobFor(j, p)
                /\ task[w].solo /\ table'[p] # NoConfig => j[p].key = table'[p].key
  PROVE  MaskOK(w)'
<1> DEFINE s == task[w].todo
<1>1. s \in Seq(Work) /\ MaskOK(w)
  BY DEF MaskInv, SaveInv, TaskOK, Orderly
<1>2. CASE task'[w] = Idle
  BY <1>2 DEF MaskOK, Idle
<1>3. CASE Len(s) # 1 /\ task'[w] = [job |-> j, todo |-> Tail(s), solo |-> task[w].solo]
  <2> SUFFICES ASSUME "key" \in j.keep PROVE MaskOK(w)'
    BY <1>3 DEF MaskOK
  <2>1. CASE \A k \in 1 .. Len(s) : s[k][1] = "mode"
    <3>1. /\ Len(Tail(s)) = Len(s) - 1 /\ Len(s) \in Nat
          /\ \A k \in 1 .. Len(Tail(s)) : Tail(s)[k] = s[k + 1]
      BY <1>1, HeadTailProperties, LenProperties
    <3>2. \A k \in 1 .. Len(Tail(s)) : Tail(s)[k][1] = "mode"
      BY <2>1, <3>1
    <3> QED BY <1>3, <3>2 DEF MaskOK
  <2>2. ASSUME NEW p \in Provider, Ends(s, p), JobFor(j, p),
               Len(s) \in {3, 4} => (task[w].solo /\ table'[p] # NoConfig => j[p].key = table'[p].key)
        PROVE  MaskOK(w)'
    <3>1. Ends(Tail(s), p) /\ Len(Tail(s)) = Len(s) - 1 /\ Len(s) \in 1 .. 5
      BY <1>3, <2>2, EndsTail DEF Ends
    <3>2. Len(Tail(s)) \in {2, 3} => Len(s) \in {3, 4}
      BY <3>1
    <3> QED BY <1>3, <2>2, <3>1, <3>2 DEF MaskOK
  <2>3. CASE j = task[w].job /\ ~At(w, "key") /\ ~At(w, "fill")
    <3>1. ASSUME NEW p \in Provider, Ends(s, p) PROVE Len(s) \notin {3, 4}
      BY <2>3, <3>1, EndsHead DEF At
    <3> QED BY <1>1, <2>1, <2>2, <2>3, <3>1 DEF MaskOK
  <2> QED BY <2>2, <2>3
<1> QED BY <1>2, <1>3 DEF Advanced

LEMMA IdleMasked ==
  ASSUME NEW w \in Writers, task'[w] = Idle
  PROVE  MaskOK(w)'
BY DEF MaskOK, Idle

LEMMA OtherMasked ==
  ASSUME MaskInv, SaveInv', NEW w \in Writers, MaskOK(w)', table' = table,
         task' = [task EXCEPT ![w] = task'[w]]
  PROVE  MaskInv'
<1>1. ASSUME NEW x \in Writers \ {w} PROVE MaskOK(x)'
  <2>1. task'[x] = task[x]
    BY DEF MaskInv, SaveInv, Functions
  <2> QED BY <2>1 DEF MaskInv, MaskOK
<1> QED BY <1>1 DEF MaskInv

(* A step that leaves w its job and is not about its key or its settings.   *)
LEMMA PlainMasked ==
  ASSUME MaskInv, SaveInv', NEW w \in Writers, table' = table, Advance(w),
         task[w].todo # <<>>, ~At(w, "key"), ~At(w, "fill")
  PROVE  MaskInv'
<1>1. task' = [task EXCEPT ![w] = Advanced(w, task[w].job)]
  BY DEF Advance
<1>2. task'[w] = Advanced(w, task[w].job)
  BY <1>1 DEF MaskInv, SaveInv, Functions
<1>3. MaskOK(w)'
  <2>1. "keep" \in DOMAIN task[w].job
    BY DEF MaskInv, MaskOK
  <2> QED BY <1>2, <2>1, MaskedStep
<1> QED BY <1>1, <1>2, <1>3, OtherMasked

LEMMA ReadKeyMasked ==
  ASSUME MaskInv, SaveInv', NEW w \in Writers, ReadKey(w)
  PROVE  MaskInv'
<1> DEFINE p == Aim(w)  j == task[w].job  s == task[w].todo
           blank == ""
           stored == IF table[p] = NoConfig THEN blank ELSE table[p].key
           lost == [j EXCEPT !.keep = @ \ {"key"}]
           kept == [j EXCEPT ![p].key = stored]
           dropped == [lost EXCEPT ![p].key = blank]
<1>1. PICK k :
        /\ task' = [task EXCEPT ![w] = Advanced(w, k)]
        /\ \/ "key" \notin j.keep /\ k = j
           \/ "key" \in j.keep /\ (k = kept \/ k = dropped)
  BY Zenon DEF ReadKey
<1>2. At(w, "key") /\ s # <<>> /\ table' = table /\ "keep" \in DOMAIN j
  <2>1. At(w, "key") /\ s # <<>> /\ table' = table
    BY Zenon DEF ReadKey, At, tables
  <2> QED BY <2>1 DEF MaskInv, MaskOK
<1>3. table[p] # NoConfig => stored = table[p].key
  OBVIOUS
<1> HIDE DEF stored, blank
<1>4. ASSUME "key" \in j.keep
      PROVE  /\ p \in Provider /\ Ends(s, p) /\ JobFor(kept, p) /\ kept[p].key = stored
             /\ JobFor(dropped, p) /\ "key" \notin dropped.keep
  <2>1. p \in Provider /\ Ends(s, p) /\ JobFor(j, p)
    BY <1>2, <1>4, MaskedAim
  <2>2. JobFor(lost, p) /\ lost.keep = j.keep \ {"key"}
    BY <2>1, KeepEdit
  <2>3. JobFor(kept, p) /\ kept[p].key = stored
    <3>1. JobFor([j EXCEPT ![p].key = stored], p)
      BY <2>1, KeyEdit
    <3>2. [j EXCEPT ![p].key = stored][p].key = stored
      BY <2>1 DEF JobFor
    <3> QED BY <3>1, <3>2
  <2> HIDE DEF lost
  <2>4. JobFor(dropped, p) /\ dropped.keep = lost.keep
    BY <2>1, <2>2, KeyEdit
  <2> QED BY <2>1, <2>2, <2>3, <2>4
<1> HIDE DEF kept, dropped
<1>5. /\ "keep" \in DOMAIN k
      /\ "key" \in k.keep =>
           /\ p \in Provider /\ Ends(s, p) /\ JobFor(k, p)
           /\ table[p] # NoConfig => k[p].key = table[p].key
  BY <1>1, <1>2, <1>3, <1>4 DEF JobFor
<1>6. task'[w] = Advanced(w, k)
  BY <1>1 DEF MaskInv, SaveInv, Functions
<1>7. MaskOK(w)'
  BY <1>2, <1>5, <1>6, MaskedStep
<1> QED BY <1>1, <1>2, <1>6, <1>7, OtherMasked

LEMMA FillMasked ==
  ASSUME MaskInv, SaveInv', NEW w \in Writers, Fill(w)
  PROVE  MaskInv'
<1> DEFINE p == Aim(w)  j == task[w].job  s == task[w].todo
           b == IF "backend" \in j.keep /\ p = "embedder" THEN live[p].backend ELSE j[p].backend
           backed == [j EXCEPT ![p].backend = b]
           u == IF "url" \in j.keep /\ p = "llm" THEN live[p].url ELSE backed[p].url
           k == [backed EXCEPT ![p].url = u]
<1>1. task' = [task EXCEPT ![w] = Advanced(w, k)] /\ At(w, "fill") /\ s # <<>> /\ table' = table
  BY DEF Fill, At, tables
<1>2. p \in Provider /\ "keep" \in DOMAIN j
  BY <1>1, AimOK DEF MaskInv, MaskOK
<1> HIDE DEF b, u
<1>3. backed.keep = j.keep /\ "keep" \in DOMAIN backed
  BY <1>2, KeepKept
<1>4. k.keep = j.keep /\ "keep" \in DOMAIN k
  <2> HIDE DEF backed
  <2> QED BY <1>2, <1>3, KeepKept
<1>m. ASSUME "key" \in j.keep
      PROVE  /\ Ends(s, p) /\ JobFor(k, p)
             /\ task[w].solo /\ table[p] # NoConfig => k[p].key = table[p].key
  <2>1. /\ Ends(s, p) /\ JobFor(j, p)
        /\ task[w].solo /\ table[p] # NoConfig => j[p].key = table[p].key
    BY <1>1, <1>m, MaskedAim
  <2>2. JobFor(backed, p) /\ backed[p].key = j[p].key
    BY <1>2, <2>1, BackendEdit
  <2> HIDE DEF backed
  <2>3. JobFor(k, p) /\ k[p].key = backed[p].key
    BY <1>2, <2>2, UrlEdit
  <2> QED BY <2>1, <2>2, <2>3
<1> HIDE DEF k
<1>6. task'[w] = Advanced(w, k)
  BY <1>1 DEF MaskInv, SaveInv, Functions
<1>5. MaskOK(w)'
  BY <1>1, <1>2, <1>4, <1>m, <1>6, MaskedStep
<1> QED BY <1>1, <1>5, <1>6, OtherMasked

LEMMA WriteRowMasked ==
  ASSUME MaskInv, SaveInv', NEW w \in Writers, WriteRow(w)
  PROVE  MaskInv'
<1> DEFINE p == Aim(w)  j == task[w].job  s == task[w].todo
<1>1. /\ s # <<>> /\ At(w, "row")
      /\ task' = [x \in Writers |->
                    IF x = w THEN Advanced(w, j) ELSE [task[x] EXCEPT !.solo = FALSE]]
  BY DEF WriteRow, At
<1>2. task'[w] = Advanced(w, j) /\ "keep" \in DOMAIN j /\ ~At(w, "key") /\ ~At(w, "fill")
  BY <1>1 DEF MaskInv, MaskOK, At
<1>3. MaskOK(w)'
  BY <1>1, <1>2, MaskedStep
<1>4. ASSUME NEW x \in Writers, x # w PROVE MaskOK(x)'
  <2>1. task[x] = [job |-> task[x].job, todo |-> task[x].todo, solo |-> task[x].solo]
    BY DEF MaskInv, SaveInv, TaskOK
  <2>2. task'[x] = [task[x] EXCEPT !.solo = FALSE]
    BY <1>1, <1>4
  <2>3. task'[x].job = task[x].job /\ task'[x].todo = task[x].todo /\ task'[x].solo = FALSE
    BY <2>1, <2>2
  <2>4. MaskOK(x)
    BY DEF MaskInv
  <2> QED BY <2>3, <2>4 DEF MaskOK
<1> QED BY <1>3, <1>4 DEF MaskInv

LEMMA SaveStepMasked ==
  ASSUME MaskInv, SaveInv', NEW w \in Writers, SaveStep(w)
  PROVE  MaskInv'
<1>1. CASE MakeAdmin(w)
  <2>1. CASE task' = [task EXCEPT ![w] = Idle]
    <3>1. task'[w] = Idle
      BY <2>1 DEF MaskInv, SaveInv, Functions
    <3> QED BY <1>1, <2>1, <3>1, IdleMasked, OtherMasked DEF MakeAdmin, tables
  <2>2. CASE Advance(w)
    BY <1>1, <2>2, PlainMasked DEF MakeAdmin, At, tables
  <2> QED BY <1>1, <2>1, <2>2 DEF MakeAdmin
<1>2. CASE SetRegistry(w)
  BY <1>2, PlainMasked DEF SetRegistry, At, tables
<1>3. CASE WriteMode(w)
  BY <1>3, PlainMasked DEF WriteMode, At
<1>4. CASE Abandon(w)
  <2>1. task'[w] = Idle
    BY <1>4 DEF Abandon, MaskInv, SaveInv, Functions
  <2> QED BY <1>4, <2>1, IdleMasked, OtherMasked DEF Abandon, tables
<1> QED BY <1>1, <1>2, <1>3, <1>4, ReadKeyMasked, FillMasked, WriteRowMasked DEF SaveStep

LEMMA NextMasked == MaskInv /\ [Next]_vars => MaskInv'
<1> SUFFICES ASSUME MaskInv, [Next]_vars PROVE MaskInv'
  OBVIOUS
<1> USE DEF tables, process
<1>0. SaveInv'
  BY NextSaveInv DEF MaskInv
<1>1. CASE table' = table /\ task' = task
  BY <1>0, <1>1 DEF MaskInv, MaskOK
<1>2. ASSUME NEW w \in Tasks, NEW j \in Jobs, BeginSave(w, j)
      PROVE  MaskInv'
  <2>1. w \in Writers /\ task' = [task EXCEPT ![w] = Started(j)] /\ table' = table
    BY <1>2 DEF BeginSave, Writers
  <2>2. task'[w] = Started(j)
    BY <2>1 DEF MaskInv, SaveInv, Functions
  <2>3. "keep" \in DOMAIN j
    BY JobKeeps, ConfigAssumption
  <2>4. MaskOK(w)'
    BY <2>1, <2>2, <2>3, StartedMasked
  <2> QED BY <1>0, <2>1, <2>2, <2>4, OtherMasked
<1>3. CASE CheckTable
  <2>1. CASE task' = [task EXCEPT ![Boot] = Started(Save("seed", conf))]
    <3> DEFINE j == Save("seed", conf)
    <3>1. Boot \in Writers
      BY DEF Writers
    <3>2. task'[Boot] = Started(j)
      BY <2>1, <3>1 DEF MaskInv, SaveInv, Functions
    <3>3. "keep" \in DOMAIN j /\ "key" \notin j.keep
      BY DEF Save
    <3> HIDE DEF j
    <3>4. MaskOK(Boot)'
      BY <3>1, <3>2, <3>3, StartedMasked
    <3>5. task' = [task EXCEPT ![Boot] = task'[Boot]]
      BY <2>1, <3>2 DEF j
    <3> QED BY <1>0, <1>3, <3>1, <3>4, <3>5, OtherMasked DEF CheckTable
  <2> QED BY <1>1, <1>3, <2>1 DEF CheckTable
<1>4. CASE Halt
  <2>1. \A w \in Writers : task'[w] = task[w] \/ task'[w] = Idle
    BY <1>4 DEF Halt
  <2>2. ASSUME NEW w \in Writers PROVE MaskOK(w)'
    <3>1. CASE task'[w] = Idle
      BY <3>1, IdleMasked
    <3>2. CASE task'[w] = task[w]
      BY <1>4, <3>2 DEF Halt, MaskInv, MaskOK
    <3> QED BY <2>1, <3>1, <3>2
  <2> QED BY <1>0, <2>2 DEF MaskInv
<1>5. CASE UNCHANGED vars \/ Start \/ Seeded \/ ReadMode \/ BuildService \/ LoadRegistry
  BY <1>1, <1>5 DEF vars, Start, Seeded, ReadMode, BuildService, LoadRegistry
<1> QED BY <1>0, <1>2, <1>3, <1>4, <1>5, SaveStepMasked DEF Next

(* The row of a save with a masked key, and the steps that write no row.    *)
LEMMA MaskedRow ==
  ASSUME MaskInv, [Next]_vars, NEW w \in Tasks, NEW p \in Provider,
         task[w] # Idle, Head(task[w].todo) = <<"row", p>>, task'[w].todo # task[w].todo,
         task[w].solo, "key" \in task[w].job.keep,
         table[p] # NoConfig, table'[p].backend # "local"
  PROVE  table'[p].key = table[p].key
<1> DEFINE c == task[w].job[p]
<1>w. w \in Writers
  BY DEF Writers
<1>1. CASE table' = table
  BY <1>1
<1>2. ASSUME NEW x \in Writers \ {w}, WriteRow(x) PROVE FALSE
  <2>1. task[w] = [job |-> task[w].job, todo |-> task[w].todo, solo |-> task[w].solo]
    BY <1>w DEF MaskInv, SaveInv, TaskOK
  <2>2. task'[w] = [task[w] EXCEPT !.solo = FALSE]
    BY <1>w, <1>2 DEF WriteRow
  <2> QED BY <2>1, <2>2
<1>3. CASE WriteRow(w)
  <2>1. At(w, "row") /\ Aim(w) = p
    BY <1>3 DEF WriteRow, At, Aim
  <2>2. c.key = table[p].key /\ JobFor(task[w].job, p)
    BY <1>w, <2>1, MaskedAim
  <2>3. table'[p] = RowOf(p, c)
    BY <1>3, <2>1 DEF WriteRow, MaskInv, SaveInv, Functions
  <2>4. RowOf(p, c).backend # "local" => RowOf(p, c).key = c.key
    <3>1. "backend" \in DOMAIN c
      BY <2>2 DEF JobFor
    <3>2. CASE p # "embedder"
      BY <3>2 DEF RowOf
    <3>3. CASE p = "embedder" /\ c.backend # "local"
      BY <3>3 DEF RowOf, Normalize
    <3>4. CASE p = "embedder" /\ c.backend = "local"
      <4> DEFINE blank == ""
      <4>1. RowOf(p, c) = [[c EXCEPT !.url = blank] EXCEPT !.key = blank]
        BY <3>4, Zenon DEF RowOf, Normalize
      <4> HIDE DEF blank
      <4>2. [[c EXCEPT !.url = blank] EXCEPT !.key = blank].backend = c.backend
        BY <3>1
      <4> QED BY <3>4, <4>1, <4>2
    <3> QED BY <3>2, <3>3, <3>4
  <2> QED BY <2>2, <2>3, <2>4
<1>4. CASE ~\E x \in Writers : WriteRow(x)
  BY <1>1, <1>4
  DEF Next, SaveStep, BeginSave, MakeAdmin, ReadKey, Fill, SetRegistry, WriteMode, Abandon, Start,
      CheckTable, Seeded, ReadMode, BuildService, LoadRegistry, Halt, tables, vars
<1> QED BY <1>w, <1>2, <1>3, <1>4

(* A form saved with its key masked leaves the stored key as it is, whoever  *)
(* else saves, restarts the server or gives up meanwhile: nobody can slip a  *)
(* row in between its read and its write without clearing solo.             *)
THEOREM MaskedKeyStands == Spec => MaskedKeyKept
<1>1. Init => MaskInv
  <2> SUFFICES ASSUME Init PROVE MaskInv
    OBVIOUS
  <2>1. \A w \in Writers : task[w] = Idle
    BY DEF Init
  <2>2. \A w \in Writers : MaskOK(w)
    BY <2>1 DEF MaskOK, Idle
  <2> QED BY <2>2, InitSaveInv DEF MaskInv
<1>2. MaskInv /\ [Next]_vars =>
        [\A w \in Tasks, p \in Provider :
           /\ task[w] # Idle /\ Head(task[w].todo) = <<"row", p>> /\ task'[w].todo # task[w].todo
           /\ task[w].solo /\ "key" \in task[w].job.keep
           /\ table[p] # NoConfig /\ table'[p].backend # "local"
           => table'[p].key = table[p].key]_vars
  BY MaskedRow
<1> QED BY <1>1, <1>2, NextMasked, PTL DEF Spec, MaskedKeyKept
------------------------------------------------------------------------------
(* Boot seeding: what is left of it ends the one plan that it has, and the   *)
(* rows still to come are empty unless somebody wrote one since it looked.  *)

LastSeed == <<<<"mode", "">>>>
RawSeed == <<<<"row", "embedder">>, <<"mode", "">>>>
LlmSeed == <<<<"row", "llm">>, <<"row", "embedder">>, <<"mode", "">>>>

SeedOK(b) ==
  /\ b.todo \in {<<>>, LastSeed, RawSeed, LlmSeed}
  /\ b.solo =>
       /\ b.todo \in {RawSeed, LlmSeed} => table["embedder"] = NoConfig
       /\ b.todo = LlmSeed => table["llm"] = NoConfig

SeedInv == SaveInv /\ SeedOK(task[Boot])

LEMMA SeedTodo ==
  /\ \A s : Plan(Save("seed", s)) \in {RawSeed, LlmSeed}
  /\ LastSeed # <<>> /\ Head(LastSeed)[1] = "mode" /\ Len(LastSeed) = 1
  /\ RawSeed # <<>> /\ Head(RawSeed) = <<"row", "embedder">>
     /\ Len(RawSeed) # 1 /\ Tail(RawSeed) = LastSeed
  /\ LlmSeed # <<>> /\ Head(LlmSeed) = <<"row", "llm">>
     /\ Len(LlmSeed) # 1 /\ Tail(LlmSeed) = RawSeed
  /\ LastSeed \notin {RawSeed, LlmSeed} /\ RawSeed # LlmSeed
<1> DEFINE l == <<"row", "llm">>  e == <<"row", "embedder">>  m == <<"mode", "">>
<1>1. ASSUME NEW s PROVE Plan(Save("seed", s)) \in {RawSeed, LlmSeed}
  <2>1. Plan(Save("seed", s)) = (IF s.mode = "raw" THEN <<>> ELSE <<l>>) \o <<e, m>>
    BY DEF Plan, PersistOf, Save
  <2>2. RawSeed = <<e, m>> /\ LlmSeed = <<l, e, m>>
    BY DEF RawSeed, LlmSeed
  <2> HIDE DEF l, e, m
  <2>3. <<>> \o <<e, m>> = <<e, m>> /\ <<l>> \o <<e, m>> = <<l, e, m>>
    <3>1. <<e, m>> \in Seq({l, e, m}) /\ <<l>> \in Seq({l, e, m}) /\ <<l, e, m>> \in Seq({l, e, m})
      OBVIOUS
    <3>2. <<>> \o <<e, m>> = <<e, m>>
      BY <3>1, ConcatEmptySeq
    <3>3. /\ Len(<<l>>) = 1 /\ Len(<<e, m>>) = 2 /\ Len(<<l, e, m>>) = 3
          /\ <<l>>[1] = l /\ <<e, m>>[1] = e /\ <<e, m>>[2] = m
          /\ <<l, e, m>>[1] = l /\ <<l, e, m>>[2] = e /\ <<l, e, m>>[3] = m
      OBVIOUS
    <3>4. /\ <<l>> \o <<e, m>> \in Seq({l, e, m}) /\ Len(<<l>> \o <<e, m>>) = 3
          /\ \A k \in 1 .. 3 :
               (<<l>> \o <<e, m>>)[k] = IF k <= 1 THEN <<l>>[k] ELSE <<e, m>>[k - 1]
      BY <3>1, <3>3, ConcatProperties
    <3>5. \A k \in 1 .. 3 : (<<l>> \o <<e, m>>)[k] = <<l, e, m>>[k]
      BY <3>3, <3>4
    <3> QED BY <3>1, <3>2, <3>3, <3>4, <3>5, SeqEqual
  <2> QED BY <2>1, <2>2, <2>3
<1>2. m[1] = "mode"
  OBVIOUS
<1>3. LastSeed = <<m>> /\ RawSeed = <<e, m>> /\ LlmSeed = <<l, e, m>>
  BY DEF LastSeed, RawSeed, LlmSeed
<1> HIDE DEF l, e, m
<1>4. /\ <<m>> # <<>> /\ Head(<<m>>) = m /\ Len(<<m>>) = 1
      /\ <<e, m>> # <<>> /\ Head(<<e, m>>) = e /\ Len(<<e, m>>) = 2 /\ Tail(<<e, m>>) = <<m>>
      /\ <<l, e, m>> # <<>> /\ Head(<<l, e, m>>) = l /\ Len(<<l, e, m>>) = 3
      /\ Tail(<<l, e, m>>) = <<e, m>>
  OBVIOUS
<1>5. <<m>> # <<e, m>> /\ <<m>> # <<l, e, m>> /\ <<e, m>> # <<l, e, m>>
  BY <1>4
<1> QED BY <1>1, <1>2, <1>3, <1>4, <1>5 DEF l, e

(* Steps that leave the table alone take a step of the seeding or none.      *)
LEMMA SeedAdvances ==
  ASSUME SeedInv, UNCHANGED table,
         \/ task'[Boot] = task[Boot] \/ task'[Boot] = Idle
         \/ \E j : task'[Boot] = Advanced(Boot, j) /\ ~At(Boot, "row") /\ task[Boot].todo # <<>>
  PROVE  SeedOK(task[Boot])'
<1>1. CASE task'[Boot] = task[Boot]
  BY <1>1 DEF SeedInv, SeedOK
<1>2. CASE task'[Boot] = Idle
  <2>1. Idle.todo = <<>> /\ Idle.solo = FALSE
    BY DEF Idle
  <2> QED BY <1>2, <2>1 DEF SeedOK
<1>3. ASSUME NEW j, task'[Boot] = Advanced(Boot, j), ~At(Boot, "row"), task[Boot].todo # <<>>
      PROVE  SeedOK(task[Boot])'
  <2>1. task[Boot].todo = LastSeed
    BY <1>3, SeedTodo, <<"row", "llm">>[1] = "row", <<"row", "embedder">>[1] = "row"
    DEF SeedInv, SeedOK, At
  <2> QED BY <1>2, <1>3, <2>1, SeedTodo DEF Advanced
<1> QED BY <1>1, <1>2, <1>3

LEMMA WriteRowSeed ==
  ASSUME SeedInv, NEW w \in Writers, WriteRow(w)
  PROVE  SeedOK(task[Boot])'
<1> DEFINE b == task[Boot]
<1>1. /\ Boot \in Writers
      /\ task' = [x \in Writers |->
                    IF x = w THEN Advanced(w, task[w].job) ELSE [task[x] EXCEPT !.solo = FALSE]]
  BY DEF WriteRow, Writers
<1>2. CASE w # Boot
  <2>1. b = [job |-> b.job, todo |-> b.todo, solo |-> b.solo]
    BY <1>1 DEF SeedInv, SaveInv, TaskOK
  <2>2. task'[Boot] = [b EXCEPT !.solo = FALSE]
    BY <1>1, <1>2
  <2>3. task'[Boot] = [job |-> b.job, todo |-> b.todo, solo |-> FALSE]
    BY <2>1, <2>2
  <2> QED BY <2>3 DEF SeedInv, SeedOK
<1>3. CASE w = Boot
  <2>1. /\ task'[Boot] = Advanced(Boot, b.job) /\ At(Boot, "row")
        /\ table' = [table EXCEPT ![Aim(Boot)] = RowOf(Aim(Boot), b.job[Aim(Boot)])]
    BY <1>1, <1>3 DEF WriteRow
  <2>2. b.todo \in {RawSeed, LlmSeed}
    BY <2>1, SeedTodo DEF At, SeedInv, SeedOK
  <2>3. CASE b.todo = RawSeed
    <3>1. task'[Boot].todo = LastSeed
      BY <2>1, <2>3, SeedTodo DEF Advanced
    <3> QED BY <3>1, SeedTodo DEF SeedOK
  <2>4. CASE b.todo = LlmSeed
    <3>a. Len(b.todo) # 1 /\ Tail(b.todo) = RawSeed /\ Head(b.todo) = <<"row", "llm">>
      BY <2>4, SeedTodo
    <3>b. task'[Boot] = [job |-> b.job, todo |-> RawSeed, solo |-> b.solo]
      BY <2>1, <3>a DEF Advanced
    <3>1. task'[Boot].todo = RawSeed /\ task'[Boot].solo = b.solo /\ Aim(Boot) = "llm"
      BY <3>a, <3>b DEF Aim
    <3>2. "embedder" \in Provider /\ table'["embedder"] = table["embedder"]
      BY <2>1, <3>1 DEF SeedInv, SaveInv, Functions, Provider
    <3> QED BY <2>4, <3>1, <3>2, SeedTodo DEF SeedInv, SeedOK
  <2> QED BY <2>2, <2>3, <2>4
<1> QED BY <1>2, <1>3

LEMMA NextSeedInv == SeedInv /\ [Next]_vars => SeedInv'
<1> SUFFICES ASSUME SeedInv, [Next]_vars PROVE SeedOK(task[Boot])'
  BY NextSaveInv DEF SeedInv
<1>b. Boot \in Writers /\ Boot \notin Tasks /\ task = [w \in Writers |-> task[w]]
  BY ConfigAssumption DEF Writers, SeedInv, SaveInv, Functions
<1> USE DEF tables, process
<1>1. CASE UNCHANGED vars \/ Start \/ Seeded \/ ReadMode \/ BuildService \/ LoadRegistry
  <2>1. UNCHANGED <<task, table>>
    BY <1>1 DEF vars, Start, Seeded, ReadMode, BuildService, LoadRegistry
  <2> QED BY <2>1, SeedAdvances
<1>2. ASSUME NEW w \in Tasks, NEW j \in Jobs, BeginSave(w, j)
      PROVE  SeedOK(task[Boot])'
  <2>1. w # Boot /\ task' = [task EXCEPT ![w] = Started(j)] /\ UNCHANGED table
    BY <1>b, <1>2 DEF BeginSave
  <2>2. task'[Boot] = task[Boot]
    BY <1>b, <2>1
  <2> QED BY <2>1, <2>2, SeedAdvances
<1>3. CASE CheckTable
  <2>1. CASE UNCHANGED task
    BY <1>3, <2>1, SeedAdvances DEF CheckTable
  <2>2. CASE ~UNCHANGED task
    <3>1. /\ \A p \in Provider : table[p] = NoConfig
          /\ task' = [task EXCEPT ![Boot] = Started(Save("seed", conf))] /\ UNCHANGED table
      BY <1>3, <2>2 DEF CheckTable
    <3>2. task'[Boot] = Started(Save("seed", conf))
      BY <1>b, <3>1
    <3>3. task'[Boot].todo \in {RawSeed, LlmSeed}
      BY <3>2, SeedTodo DEF Started
    <3> QED BY <3>1, <3>3 DEF SeedOK, Provider
  <2> QED BY <2>1, <2>2
<1>4. CASE Halt
  <2>1. task'[Boot] = task[Boot] \/ task'[Boot] = Idle
    BY <1>b, <1>4 DEF Halt
  <2> QED BY <1>4, <2>1, SeedAdvances DEF Halt
<1>5. ASSUME NEW w \in Writers, SaveStep(w)
      PROVE  SeedOK(task[Boot])'
  <2>1. CASE WriteRow(w)
    BY <2>1, WriteRowSeed
  <2>2. CASE ~WriteRow(w)
    <3>1. /\ UNCHANGED table
          /\ \/ task' = [task EXCEPT ![w] = Idle]
             \/ \E j : task' = [task EXCEPT ![w] = Advanced(w, j)]
                       /\ ~At(w, "row") /\ task[w].todo # <<>>
      BY <1>5, <2>2
      DEF SaveStep, MakeAdmin, ReadKey, Fill, SetRegistry, WriteMode, Abandon, Advance, At
    <3>2. w # Boot => task'[Boot] = task[Boot]
      BY <1>b, <3>1
    <3>3. w = Boot => \/ task'[Boot] = Idle
                      \/ \E j : task'[Boot] = Advanced(Boot, j)
                                /\ ~At(Boot, "row") /\ task[Boot].todo # <<>>
      BY <1>b, <3>1
    <3> QED BY <3>1, <3>2, <3>3, SeedAdvances
  <2> QED BY <2>1, <2>2
<1> QED BY <1>1, <1>2, <1>3, <1>4, <1>5 DEF Next

(* The step of the seeding boot that writes a row.                          *)
LEMMA SeededRow ==
  ASSUME SeedInv, [Next]_vars, At(Boot, "row"), task[Boot].solo,
         task'[Boot].todo # task[Boot].todo,
         NEW p \in Provider, table[p] # NoConfig
  PROVE  table'[p] = table[p]
<1>1. Boot \in Writers
  BY DEF Writers
<1>2. CASE UNCHANGED table
  BY <1>2
<1>3. ASSUME NEW w \in Writers, WriteRow(w)
      PROVE  table'[p] = table[p]
  <2>1. w = Boot
    <3> SUFFICES ASSUME w # Boot PROVE FALSE
      OBVIOUS
    <3>1. task[Boot] = [job |-> task[Boot].job, todo |-> task[Boot].todo, solo |-> task[Boot].solo]
      BY <1>1 DEF SeedInv, SaveInv, TaskOK
    <3>2. task'[Boot] = [task[Boot] EXCEPT !.solo = FALSE]
      BY <1>1, <1>3 DEF WriteRow
    <3> QED BY <3>1, <3>2
  <2>2. table[Aim(Boot)] = NoConfig
    BY SeedTodo DEF At, Aim, SeedInv, SeedOK
  <2> QED BY <1>3, <2>1, <2>2 DEF WriteRow, SeedInv, SaveInv, Functions
<1> QED BY <1>2, <1>3
    DEF Next, SaveStep, BeginSave, MakeAdmin, ReadKey, Fill, SetRegistry, WriteMode, Abandon,
        Start, CheckTable, Seeded, ReadMode, BuildService, LoadRegistry, Halt, tables, vars

(* Boot seeding writes over no row that was there when it looked, nor over   *)
(* one of its own: only a row that somebody else writes meanwhile can be     *)
(* lost to it.                                                              *)
THEOREM SeedingKeepsRows == Spec => SeedingOverwritesNothing
<1>1. Init => SeedInv
  <2> SUFFICES ASSUME Init PROVE SeedInv
    OBVIOUS
  <2>1. task[Boot].todo = <<>> /\ task[Boot].solo = FALSE
    BY DEF Init, Idle, Writers
  <2> QED BY <2>1, InitSaveInv DEF SeedInv, SeedOK
<1>2. SeedInv /\ [Next]_vars =>
        [At(Boot, "row") /\ task[Boot].solo /\ task'[Boot].todo # task[Boot].todo =>
           \A p \in Provider : table[p] # NoConfig => table'[p] = table[p]]_vars
  BY SeededRow
<1> QED BY <1>1, <1>2, NextSeedInv, PTL DEF Spec, SeedingOverwritesNothing
=============================================================================
