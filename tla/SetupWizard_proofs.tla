------------------------- MODULE SetupWizard_proofs --------------------------
(***************************************************************************)
(* Proofs about the terminal's wizards, cli and tui, for every catalog,     *)
(* every file to start from, every text typed, any number of edits and of   *)
(* steps back: which steps are behind at the end, that the local embedder   *)
(* is chosen only where it runs, and that what was answered comes back out  *)
(* of the file for a rerun and for the server.                              *)
(***************************************************************************)
EXTENDS SetupWizard, SequenceTheorems, TLAPS

(* SETUP_STEPS is in order and without repetition where steps differ.       *)
LEMMA StepsDiffer ==
  ASSUME NEW k \in 1 .. 14
  PROVE  /\ (SETUP_STEPS[k] = "DeviceCheck") = (k = 1)
         /\ (SETUP_STEPS[k] = "EmbedderBackend") = (k = 4)
         /\ (SETUP_STEPS[k] = "LocalModel") = (k = 5)
         /\ (SETUP_STEPS[k] = "EmbedderConfig") = (k = 6)
         /\ (SETUP_STEPS[k] = "ExtractionMode") = (k = 7)
         /\ (SETUP_STEPS[k] = "LlmConfig") = (k = 8)
BY DEF SETUP_STEPS

(* Three steps depend on the answers, the other eleven are always asked.    *)
LEMMA Active ==
  ASSUME NEW a
  PROVE  ActiveSteps(a) = {k \in 1 .. 14 : /\ k = 5 => a.embBackend = "local"
                                           /\ k = 6 => a.embBackend = "remote"
                                           /\ k = 8 => a.mode = "llm"}
<1>1. DOMAIN SETUP_STEPS = 1 .. 14
  BY DEF SETUP_STEPS
<1> QED BY <1>1, StepsDiffer DEF ActiveSteps, StepActive

(* Which step asks for the fields those depend on, and for the model.       *)
LEMMA FieldsLate ==
  ASSUME NEW k \in 1 .. 14, NEW a, NEW j \in DOMAIN FieldsOf(SETUP_STEPS[k], a)
  PROVE  /\ FieldsOf(SETUP_STEPS[k], a)[j] = "embBackend" => k = 4
         /\ FieldsOf(SETUP_STEPS[k], a)[j] = "mode" => k = 7
         /\ FieldsOf(SETUP_STEPS[k], a)[j] = "embModel" => k \in {5, 6}
<1>1. CASE k \in 1 .. 3
  BY <1>1 DEF SETUP_STEPS, FieldsOf
<1>2. CASE k \in 4 .. 6
  BY <1>2 DEF SETUP_STEPS, FieldsOf
<1>3. CASE k \in 7 .. 9
  BY <1>3 DEF SETUP_STEPS, FieldsOf
<1>4. CASE k \in 10 .. 12
  BY <1>4 DEF SETUP_STEPS, FieldsOf
<1>5. CASE k \in 13 .. 14
  BY <1>5 DEF SETUP_STEPS, FieldsOf
<1> QED BY <1>1, <1>2, <1>3, <1>4, <1>5

(* Every answer has a value, and nothing else does.                         *)
Shape(a) == a = [f \in DOMAIN Default |-> a[f]]

LEMMA FieldNames == {"embBackend", "embModel", "mode", "store"} \subseteq DOMAIN Default
BY DEF Default

(* A step leaves the answers of the other steps alone.                      *)
LEMMA CommitKeeps ==
  ASSUME Shape(answers), NEW k \in 1 .. 14, NEW v
  PROVE  LET c == Committed(SETUP_STEPS[k], v) IN
         /\ Shape(c)
         /\ k # 4 => c.embBackend = answers.embBackend
         /\ k # 7 => c.mode = answers.mode
         /\ k \notin {4, 5, 6} => c.embModel = answers.embModel
<1> DEFINE F == FieldsOf(SETUP_STEPS[k], answers)
           b == [f \in DOMAIN answers |->
                   IF \E j \in DOMAIN F : F[j] = f
                   THEN Stored(f, v[CHOOSE j \in DOMAIN F : F[j] = f])
                   ELSE answers[f]]
           c == Committed(SETUP_STEPS[k], v)
<1>1. DOMAIN answers = DOMAIN Default
  BY DEF Shape
<1>2. c = IF k = 4 /\ b.embBackend = "local" THEN [b EXCEPT !.embModel = DefaultModel] ELSE b
  BY StepsDiffer DEF Committed
<1>3. \A j \in DOMAIN F : /\ F[j] = "embBackend" => k = 4
                          /\ F[j] = "mode" => k = 7
                          /\ F[j] = "embModel" => k \in {5, 6}
  BY FieldsLate
<1> HIDE DEF F
<1>4. DOMAIN b = DOMAIN Default
  BY <1>1
<1>5. /\ k # 4 => b.embBackend = answers.embBackend
      /\ k # 7 => b.mode = answers.mode
      /\ k \notin {5, 6} => b.embModel = answers.embModel
  BY <1>1, <1>3, FieldNames
<1>6. b = [f \in DOMAIN Default |-> b[f]]
  BY <1>1
<1> HIDE DEF b
<1>7. /\ c = [f \in DOMAIN Default |-> c[f]]
      /\ c.mode = b.mode
      /\ k # 4 => c = b
  BY <1>2, <1>4, <1>6, FieldNames
<1> QED BY <1>5, <1>7 DEF Shape

(* Choosing local chooses the default model.                                *)
LEMMA CommitBackend ==
  ASSUME Shape(answers), NEW v
  PROVE  LET c == Committed("EmbedderBackend", v) IN
         c.embBackend = "local" => v[1] = "local" /\ c.embModel = DefaultModel
<1> DEFINE F == <<"embBackend">>
           b == [f \in DOMAIN answers |->
                   IF \E j \in DOMAIN F : F[j] = f
                   THEN Stored(f, v[CHOOSE j \in DOMAIN F : F[j] = f])
                   ELSE answers[f]]
           c == Committed("EmbedderBackend", v)
<1>1. FieldsOf("EmbedderBackend", answers) = F
  BY DEF FieldsOf
<1>2. c = IF b.embBackend = "local" THEN [b EXCEPT !.embModel = DefaultModel] ELSE b
  BY <1>1 DEF Committed
<1>3. DOMAIN b = DOMAIN Default
  BY DEF Shape
<1>4. DOMAIN F = {1} /\ F[1] = "embBackend"
  OBVIOUS
<1>5. (CHOOSE j \in DOMAIN F : F[j] = "embBackend") = 1
  BY <1>4
<1>6. b.embBackend = v[1]
  BY <1>3, <1>4, <1>5, FieldNames DEF Stored
<1> HIDE DEF b
<1> QED BY <1>2, <1>3, <1>6, FieldNames

(* The model step stores what its select shows.                             *)
LEMMA CommitModel ==
  ASSUME Shape(answers), NEW v
  PROVE  Committed("LocalModel", v).embModel = v[1]
<1> DEFINE F == <<"embModel">>
           b == [f \in DOMAIN answers |->
                   IF \E j \in DOMAIN F : F[j] = f
                   THEN Stored(f, v[CHOOSE j \in DOMAIN F : F[j] = f])
                   ELSE answers[f]]
<1>1. FieldsOf("LocalModel", answers) = F
  BY DEF FieldsOf
<1>2. Committed("LocalModel", v) = b
  BY <1>1 DEF Committed
<1>4. DOMAIN F = {1} /\ F[1] = "embModel"
  OBVIOUS
<1>5. (CHOOSE j \in DOMAIN F : F[j] = "embModel") = 1
  BY <1>4
<1> QED BY <1>2, <1>4, <1>5, FieldNames DEF Stored, Shape

(* There is a first one among the steps that follow.                        *)
LEMMA Least ==
  ASSUME NEW S \in SUBSET (1 .. 14), S # {}
  PROVE  \E j \in S : \A i \in S : j <= i
<1>1. SUFFICES ASSUME \A j \in S : \E i \in S : i < j PROVE FALSE
  OBVIOUS
<1>2. \A k \in 1 .. 14 : k \in S => \E i \in S : i \in 1 .. k - 1
  BY <1>1
<1>3. \A k \in 1 .. 5 : k \notin S
  BY <1>2
<1>4. \A k \in 6 .. 10 : k \notin S
  BY <1>2, <1>3
<1>5. \A k \in 11 .. 14 : k \notin S
  BY <1>2, <1>3, <1>4
<1>6. PICK x \in S : TRUE
  OBVIOUS
<1>7. x \in 1 .. 5 \/ x \in 6 .. 10 \/ x \in 11 .. 14
  OBVIOUS
<1> QED BY <1>3, <1>4, <1>5, <1>7
------------------------------------------------------------------------------
(* The invariant, of the terminal's wizards.                                *)

Now == asked[Len(asked)]

(* The steps behind are those the answers call for up to the one on the     *)
(* screen, whatever was chosen and taken back on the way.                   *)
PathInv ==
  /\ asked \in Seq(1 .. 14) /\ asked # <<>>
  /\ \A i, j \in DOMAIN asked : i < j => asked[i] < asked[j]
  /\ {asked[j] : j \in DOMAIN asked} = {k \in ActiveSteps(answers) : k <= Now}
  /\ phase \notin {"asking", "cancelled"} => \A k \in ActiveSteps(answers) : k <= Now

(* What the screen offers of local embedding.                               *)
EntryInv ==
  phase = "asking" =>
    /\ Now \in {4, 5} => 1 \in DOMAIN entry
    /\ Now = 4 => (entry[1] = "local" => device)
    /\ Now = 5 => entry[1] \in DOMAIN Catalog

(* What was answered of it: a step back before the report takes the choice  *)
(* off the path, too.                                                       *)
DeviceInv ==
  /\ device \in BOOLEAN
  /\ Now > 4 /\ answers.embBackend = "local" => device /\ answers.embModel \in DOMAIN Catalog

(* The file that finalize writes is that of the answers.                    *)
FileInv ==
  /\ phase \in {"write", "account", "key", "rows", "done"} /\ answers.embBackend = "local"
       => probed = Unset
  /\ phase \in {"account", "key", "rows", "done"} => file = FileOf(answers, probed)

WInv == Terminal => Shape(answers) /\ PathInv /\ EntryInv /\ DeviceInv /\ FileInv

(* The step on the screen is one of SETUP_STEPS.                            *)
LEMMA PlaceOK ==
  ASSUME PathInv
  PROVE  /\ Len(asked) \in Nat \ {0} /\ Len(asked) \in DOMAIN asked /\ DOMAIN asked = 1 .. Len(asked)
         /\ Now \in 1 .. 14
BY LenProperties, EmptySeq DEF PathInv, Now

(* At the first step, nothing is behind.                                    *)
LEMMA InitWInv == WizardInit => WInv
<1> SUFFICES ASSUME WizardInit, Terminal PROVE WInv
  BY DEF WInv
<1>1. asked = <<1>> /\ phase = "asking" /\ answers = Preseed(file) /\ device \in BOOLEAN
  BY DEF WizardInit, Terminal
<1>2. Shape(answers)
  BY <1>1 DEF Shape, Preseed
<1>3. /\ Len(asked) = 1 /\ DOMAIN asked = {1} /\ Now = 1 /\ asked \in Seq(1 .. 14) /\ asked # <<>>
      /\ asked[1] = 1
  BY <1>1 DEF Now
<1>4. {k \in ActiveSteps(answers) : k <= 1} = {1}
  BY Active
<1>5. PathInv
  BY <1>1, <1>3, <1>4 DEF PathInv
<1> QED BY <1>1, <1>2, <1>3, <1>5 DEF WInv, EntryInv, DeviceInv, FileInv

(* The next step, if there is one.                                          *)
LEMMA ProceedPath ==
  ASSUME PathInv, phase = "asking", NEW a, answers' = a, Proceed(a),
         \A k \in 1 .. Now : k \in ActiveSteps(a) <=> k \in ActiveSteps(answers)
  PROVE  /\ PathInv'
         /\ \/ phase' = "probe" /\ Now' = Now
            \/ /\ phase' = "asking"
               /\ Now' > Now /\ Now' \in ActiveSteps(a)
               /\ \A k \in ActiveSteps(a) : k > Now => k >= Now'
               /\ Show(Now', a)
<1> DEFINE next == Followers(Now, a)
<1>1. Now \in 1 .. 14 /\ Len(asked) \in Nat \ {0} /\ DOMAIN asked = 1 .. Len(asked)
  BY PlaceOK
<1>2. ActiveSteps(a) \subseteq 1 .. 14 /\ ActiveSteps(answers) \subseteq 1 .. 14
  BY Active
<1>3. next = {j \in ActiveSteps(a) : j > Now}
  BY DEF Followers
<1>4. {k \in ActiveSteps(a) : k <= Now} = {k \in ActiveSteps(answers) : k <= Now}
  BY <1>1, <1>2
<1>5. CASE next = {}
  <2>1. phase' = "probe" /\ asked' = asked
    BY <1>5 DEF Proceed, Now
  <2>2. Now' = Now
    BY <2>1 DEF Now
  <2>3. \A k \in ActiveSteps(a) : k <= Now
    BY <1>1, <1>2, <1>3, <1>5
  <2>4. ActiveSteps(answers)' = ActiveSteps(a)
    BY DEF ActiveSteps
  <2> QED BY <1>4, <2>1, <2>2, <2>3, <2>4 DEF PathInv
<1>6. CASE next # {}
  <2> DEFINE k == CHOOSE j \in next : \A i \in next : j <= i
  <2>1. k \in next /\ \A i \in next : k <= i
    BY <1>2, <1>3, <1>6, Least
  <2>2. asked' = Append(asked, k) /\ Show(k, a) /\ phase' = phase
    BY <1>6 DEF Proceed, Now
  <2> HIDE DEF k, next
  <2>3. k \in 1 .. 14 /\ k > Now /\ k \in ActiveSteps(a)
    BY <1>2, <1>3, <2>1
  <2>4. /\ asked' \in Seq(1 .. 14) /\ Len(asked') = Len(asked) + 1 /\ DOMAIN asked' = 1 .. Len(asked) + 1
        /\ \A i \in 1 .. Len(asked) : asked'[i] = asked[i]
        /\ asked'[Len(asked) + 1] = k
    BY <1>1, <2>2, <2>3, AppendProperties DEF PathInv
  <2>5. Now' = k
    BY <2>4 DEF Now
  <2>6. \A i \in DOMAIN asked : asked[i] <= Now
    BY <1>1 DEF PathInv, Now
  <2>7. \A i, j \in DOMAIN asked' : i < j => asked'[i] < asked'[j]
    <3>1. TAKE i, j \in DOMAIN asked'
    <3>2. HAVE i < j
    <3>3. i \in 1 .. Len(asked) /\ asked'[i] = asked[i] /\ asked[i] <= Now /\ asked[i] \in 1 .. 14
      BY <1>1, <2>4, <2>6, <3>2 DEF PathInv
    <3>4. CASE j = Len(asked) + 1
      BY <1>1, <2>3, <2>4, <3>3, <3>4
    <3>5. CASE j # Len(asked) + 1
      <4>1. j \in 1 .. Len(asked) /\ asked'[j] = asked[j]
        BY <1>1, <2>4, <3>5
      <4> QED BY <1>1, <3>2, <3>3, <4>1 DEF PathInv
    <3> QED BY <3>4, <3>5
  <2>8. {asked'[j] : j \in DOMAIN asked'} = {i \in ActiveSteps(a) : i <= k}
    <3>1. {asked'[j] : j \in DOMAIN asked'} = {asked[j] : j \in DOMAIN asked} \cup {k}
      BY <1>1, <2>4
    <3>2. {i \in ActiveSteps(a) : i <= k} = {i \in ActiveSteps(a) : i <= Now} \cup {k}
      BY <1>1, <1>2, <1>3, <2>1, <2>3
    <3> QED BY <1>4, <3>1, <3>2 DEF PathInv
  <2>9. ActiveSteps(answers)' = ActiveSteps(a)
    BY DEF ActiveSteps
  <2>10. PathInv'
    <3>1. asked' # <<>>
      BY <1>1, <2>4
    <3> QED BY <2>2, <2>4, <2>5, <2>7, <2>8, <2>9, <3>1 DEF PathInv
  <2>11. \A i \in ActiveSteps(a) : i > Now => i >= Now'
    BY <1>2, <1>3, <2>1, <2>3, <2>5
  <2> QED BY <2>2, <2>3, <2>5, <2>10, <2>11
<1> QED BY <1>5, <1>6

(* What the select of a step that comes up holds.                           *)
LEMMA ShowOK ==
  ASSUME NEW k \in {4, 5}, NEW a, Show(k, a), Terminal, device \in BOOLEAN
  PROVE  /\ 1 \in DOMAIN entry'
         /\ k = 4 => (entry'[1] = "local" => device)
         /\ k = 5 => entry'[1] \in DOMAIN Catalog
<1>1. CASE k = 4
  <2>1. FieldsOf(SETUP_STEPS[4], a) = <<"embBackend">> /\ SETUP_STEPS[4] = "EmbedderBackend"
    BY DEF SETUP_STEPS, FieldsOf
  <2>2. entry' = [j \in {1} |-> Shown("EmbedderBackend", "embBackend", a)]
    BY <1>1, <2>1 DEF Show
  <2>3. Shown("EmbedderBackend", "embBackend", a) = "local" => device
    BY DEF Shown
  <2>4. 1 \in DOMAIN entry' /\ entry'[1] = Shown("EmbedderBackend", "embBackend", a)
    BY <2>2
  <2> QED BY <1>1, <2>3, <2>4
<1>2. CASE k = 5
  <2>1. FieldsOf(SETUP_STEPS[5], a) = <<"embModel">> /\ SETUP_STEPS[5] = "LocalModel"
    BY DEF SETUP_STEPS, FieldsOf
  <2>2. entry' = [j \in {1} |-> Shown("LocalModel", "embModel", a)]
    BY <1>2, <2>1 DEF Show
  <2>3. Shown("LocalModel", "embModel", a) \in DOMAIN Catalog
    BY CatalogAssumption DEF Shown
  <2>4. 1 \in DOMAIN entry' /\ entry'[1] = Shown("LocalModel", "embModel", a)
    BY <2>2
  <2> QED BY <1>2, <2>3, <2>4
<1> QED BY <1>1, <1>2

(* A step is committed with values that the screen offered, and the next one*)
(* comes up.                                                                *)
LEMMA CommitWInv ==
  ASSUME WInv, Terminal, phase = "asking", NEW v,
         answers' = Committed(Step, v), Proceed(answers'),
         Now = 4 => (v[1] = "local" => device),
         Now = 5 => v[1] \in DOMAIN Catalog,
         device' \in BOOLEAN, Now # 1 => device' = device,
         presenter' = presenter
  PROVE  WInv'
<1>1. Shape(answers) /\ PathInv /\ EntryInv /\ DeviceInv
  BY DEF WInv
<1>2. Now \in 1 .. 14 /\ Step = SETUP_STEPS[Now]
  BY <1>1, PlaceOK DEF Step, Now
<1>3. /\ Shape(answers')
      /\ Now # 4 => answers'.embBackend = answers.embBackend
      /\ Now # 7 => answers'.mode = answers.mode
      /\ Now \notin {4, 5, 6} => answers'.embModel = answers.embModel
  BY <1>1, <1>2, CommitKeeps
<1>4. \A k \in 1 .. Now : k \in ActiveSteps(answers') <=> k \in ActiveSteps(answers)
  BY <1>2, <1>3, Active
<1>5. /\ PathInv'
      /\ \/ phase' = "probe" /\ Now' = Now
         \/ /\ phase' = "asking"
            /\ Now' > Now /\ Now' \in ActiveSteps(answers')
            /\ \A k \in ActiveSteps(answers') : k > Now => k >= Now'
            /\ Show(Now', answers')
  BY <1>1, <1>4, ProceedPath
<1>6. Now' \in 1 .. 14 /\ 2 \in ActiveSteps(answers') /\ 14 \in ActiveSteps(answers')
  BY <1>2, <1>5, Active
<1>7. Now' > 2 => device' = device
  BY <1>2, <1>5, <1>6
<1>8. EntryInv'
  <2>1. CASE Now' \in {4, 5} /\ phase' = "asking"
    <3>1. /\ 1 \in DOMAIN entry'
          /\ Now' = 4 => (entry'[1] = "local" => device)
          /\ Now' = 5 => entry'[1] \in DOMAIN Catalog
      BY <1>1, <1>5, <1>6, <2>1, ShowOK DEF DeviceInv
    <3> QED BY <1>7, <2>1, <3>1 DEF EntryInv
  <2> QED BY <2>1 DEF EntryInv
<1>9. DeviceInv'
  <2>1. SUFFICES ASSUME Now' > 4, answers'.embBackend = "local"
                 PROVE  device' /\ answers'.embModel \in DOMAIN Catalog
    BY DEF DeviceInv
  <2>2. device' = device
    BY <1>7, <2>1, <1>6
  <2>3. Now >= 4
    <3>1. 4 \in ActiveSteps(answers')
      BY Active
    <3> QED BY <1>2, <1>5, <1>6, <2>1, <3>1
  <2>4. CASE Now = 4
    <3>1. Step = "EmbedderBackend"
      BY <1>2, <2>4, StepsDiffer
    <3>2. v[1] = "local" /\ answers'.embModel = DefaultModel
      BY <1>1, <2>1, <3>1, CommitBackend
    <3> QED BY <2>2, <2>4, <3>2, CatalogAssumption
  <2>5. CASE Now = 5
    <3>1. Step = "LocalModel"
      BY <1>2, <2>5, StepsDiffer
    <3>2. answers'.embModel = v[1]
      BY <1>1, <3>1, CommitModel
    <3> QED BY <1>1, <1>3, <2>1, <2>2, <2>5, <3>2 DEF DeviceInv
  <2>6. CASE Now = 6
    <3>1. Now \in ActiveSteps(answers)
      BY <1>1, PlaceOK DEF PathInv, Now
    <3>2. answers.embBackend = "remote"
      BY <2>6, <3>1, Active
    <3> QED BY <1>3, <2>1, <2>6, <3>2
  <2>7. CASE Now > 6
    BY <1>1, <1>2, <1>3, <2>1, <2>2, <2>7 DEF DeviceInv
  <2> QED BY <1>2, <2>3, <2>4, <2>5, <2>6, <2>7
<1>10. FileInv'
  BY <1>5 DEF FileInv
<1> QED BY <1>3, <1>5, <1>8, <1>9, <1>10 DEF WInv, Shape

(* The steps that stay on the path.                                         *)
LEMMA StayWInv ==
  ASSUME WInv, Terminal, UNCHANGED <<presenter, device, answers, asked>>,
         EntryInv', FileInv',
         phase' \notin {"asking", "cancelled"} => phase \notin {"asking", "cancelled"}
  PROVE  WInv'
<1>1. Now' = Now /\ ActiveSteps(answers)' = ActiveSteps(answers)
  BY DEF Now, ActiveSteps
<1>2. PathInv'
  BY <1>1 DEF WInv, PathInv
<1> QED BY <1>1, <1>2 DEF WInv, Shape, DeviceInv

(* Of two positions, the earlier one.                                       *)
LEMMA BeforeIsAtMost ==
  ASSUME NEW x \in 1 .. 14, NEW y \in 1 .. 14, x < y
  PROVE  x <= y
OBVIOUS

(* Escape: the step on the screen is taken off, its answer is kept.         *)
LEMMA BackWInv ==
  ASSUME WInv, Terminal, phase = "asking", Len(asked) > 1,
         asked' = SubSeq(asked, 1, Len(asked) - 1), Show(asked[Len(asked) - 1], answers),
         UNCHANGED <<presenter, phase, device, answers, file, probed>>
  PROVE  WInv'
<1> DEFINE n == Len(asked) - 1
<1>1. Shape(answers) /\ PathInv /\ DeviceInv /\ FileInv
  BY DEF WInv
<1>2. Len(asked) \in Nat /\ n \in Nat \ {0} /\ DOMAIN asked = 1 .. n + 1 /\ Now = asked[n + 1]
  BY <1>1, PlaceOK DEF Now
<1>3. /\ asked' \in Seq(1 .. 14) /\ Len(asked') = n /\ DOMAIN asked' = 1 .. n
      /\ \A i \in 1 .. n : asked'[i] = asked[i]
  BY <1>1, <1>2, SubSeqProperties DEF PathInv
<1>4. Now' = asked[n] /\ asked[n] \in 1 .. 14 /\ asked[n] < Now
  BY <1>1, <1>2, <1>3 DEF Now, PathInv
<1>12. Show(Now', answers)
  BY <1>4
<1> HIDE DEF n
<1>5. \A i \in 1 .. n : asked[i] \in 1 .. 14 /\ asked[i] <= asked[n]
  <2> TAKE i \in 1 .. n
  <2>2. asked[i] \in 1 .. 14 /\ asked[n] \in 1 .. 14 /\ n \in Nat
    BY <1>1, <1>2 DEF PathInv
  <2>4. CASE i = n
    BY <2>2, <2>4
  <2>5. CASE i < n
    <3>1. asked[i] < asked[n]
      BY <1>1, <1>2, <2>5 DEF PathInv
    <3>2. asked[i] <= asked[n]
      BY <2>2, <3>1, BeforeIsAtMost
    <3> QED BY <2>2, <3>2
  <2>6. i = n \/ i < n
    BY <1>2
  <2> QED BY <2>4, <2>5, <2>6
<1>6. {asked'[j] : j \in DOMAIN asked'} = {k \in ActiveSteps(answers) : k <= asked[n]}
  <2>1. ActiveSteps(answers) \subseteq 1 .. 14
    BY Active
  <2>2. ASSUME NEW k, k \in {asked'[j] : j \in DOMAIN asked'}
        PROVE  k \in ActiveSteps(answers) /\ k <= asked[n]
    <3>1. k \in {asked[j] : j \in DOMAIN asked} /\ k <= asked[n]
      BY <1>2, <1>3, <1>5, <2>2
    <3> QED BY <1>1, <3>1 DEF PathInv
  <2>3. ASSUME NEW k \in ActiveSteps(answers), k <= asked[n]
        PROVE  k \in {asked'[j] : j \in DOMAIN asked'}
    <3>0. Now \in 1 .. 14
      BY <1>1, PlaceOK
    <3>1. k < Now
      <4>1. k \in 1 .. 14
        BY <2>1
      <4> QED BY <1>4, <2>3, <3>0, <4>1
    <3>2. k \in {i \in ActiveSteps(answers) : i <= Now}
      BY <2>1, <3>0, <3>1
    <3>3. PICK j \in DOMAIN asked : asked[j] = k
      BY <1>1, <3>2 DEF PathInv
    <3>4. j # n + 1
      BY <1>2, <2>1, <3>0, <3>1, <3>3
    <3>5. j \in 1 .. n
      BY <1>2, <3>3, <3>4
    <3> QED BY <1>3, <3>3, <3>5
  <2> QED BY <2>2, <2>3
<1>7. ActiveSteps(answers)' = ActiveSteps(answers)
  BY DEF ActiveSteps
<1>8. PathInv'
  <2>1. asked' # <<>>
    BY <1>2, <1>3
  <2>2. \A i, j \in DOMAIN asked' : i < j => asked'[i] < asked'[j]
    BY <1>1, <1>2, <1>3 DEF PathInv
  <2> QED BY <1>3, <1>4, <1>6, <1>7, <2>1, <2>2 DEF PathInv
<1>9. EntryInv'
  <2>1. CASE Now' \in {4, 5}
    <3>1. /\ 1 \in DOMAIN entry'
          /\ Now' = 4 => (entry'[1] = "local" => device)
          /\ Now' = 5 => entry'[1] \in DOMAIN Catalog
      BY <1>1, <1>12, <2>1, ShowOK DEF DeviceInv
    <3> QED BY <2>1, <3>1 DEF EntryInv
  <2> QED BY <2>1 DEF EntryInv
<1>10. DeviceInv'
  <2>1. Now' > 4 => Now > 4
    BY <1>1, <1>4, PlaceOK
  <2> QED BY <1>1, <2>1 DEF DeviceInv
<1>11. FileInv'
  BY DEF FileInv
<1> QED BY <1>1, <1>8, <1>9, <1>10, <1>11 DEF WInv, Shape

(* What may be chosen on the screen.                                        *)
LEMMA ScreenOK ==
  ASSUME WInv, Terminal, phase = "asking"
  PROVE  /\ Now \in 1 .. 14 /\ Step = SETUP_STEPS[Now]
         /\ Now = 4 => /\ FieldsOf(Step, answers) = <<"embBackend">>
                       /\ 1 \in DOMAIN entry
                       /\ entry[1] = "local" => device
                       /\ "local" \in Selectable(Step, "embBackend") => device
         /\ Now = 5 => /\ FieldsOf(Step, answers) = <<"embModel">>
                       /\ 1 \in DOMAIN entry
                       /\ entry[1] \in DOMAIN Catalog
                       /\ Selectable(Step, "embModel") = DOMAIN Catalog
<1>1. Now \in 1 .. 14 /\ Step = SETUP_STEPS[Now]
  BY PlaceOK DEF WInv, Step, Now
<1>2. CASE Now = 4
  <2>1. Step = "EmbedderBackend"
    BY <1>1, <1>2, StepsDiffer
  <2>2. "local" \in Selectable(Step, "embBackend") => device
    BY <2>1 DEF Selectable, IsSelect, Options
  <2> QED BY <1>1, <1>2, <2>1, <2>2 DEF WInv, EntryInv, FieldsOf
<1>3. CASE Now = 5
  <2>1. Step = "LocalModel"
    BY <1>1, <1>3, StepsDiffer
  <2>2. Selectable(Step, "embModel") = DOMAIN Catalog
    BY <2>1 DEF Selectable, IsSelect, Options
  <2> QED BY <1>1, <1>3, <2>1, <2>2 DEF WInv, EntryInv, FieldsOf
<1> QED BY <1>1, <1>2, <1>3

(* The prompts of the cli.                                                  *)
LEMMA CliWInv == ASSUME WInv, CliStep PROVE WInv'
<1>1. Terminal /\ phase = "asking"
  BY DEF CliStep, Asking, Terminal
<1> DEFINE F == FieldsOf(Step, answers)
<1>2. PICK v \in [DOMAIN F -> UNION {Selectable(Step, F[j]) \cup {entry[j]} : j \in DOMAIN F}] :
        /\ \A j \in DOMAIN F : v[j] = entry[j] \/ v[j] \in Selectable(Step, F[j]) \ {""}
        /\ answers' = Committed(Step, v)
        /\ Proceed(answers')
  BY DEF CliStep
<1>3. Now = 4 => (v[1] = "local" => device)
  <2> SUFFICES ASSUME Now = 4, v[1] = "local" PROVE device
    OBVIOUS
  <2>1. DOMAIN F = {1} /\ F[1] = "embBackend"
    BY <1>1, ScreenOK
  <2> HIDE DEF F
  <2>2. v[1] = entry[1] \/ v[1] \in Selectable(Step, "embBackend")
    BY <1>2, <2>1
  <2> QED BY <1>1, <2>2, ScreenOK
<1>4. Now = 5 => v[1] \in DOMAIN Catalog
  <2> SUFFICES ASSUME Now = 5 PROVE v[1] \in DOMAIN Catalog
    OBVIOUS
  <2>1. DOMAIN F = {1} /\ F[1] = "embModel"
    BY <1>1, ScreenOK
  <2> HIDE DEF F
  <2>2. v[1] = entry[1] \/ v[1] \in Selectable(Step, "embModel")
    BY <1>2, <2>1
  <2> QED BY <1>1, <2>2, ScreenOK
<1>5. presenter' = presenter /\ device' = device /\ device \in BOOLEAN
  BY <1>1 DEF CliStep, WInv, DeviceInv
<1> QED BY <1>1, <1>2, <1>3, <1>4, <1>5, CommitWInv

(* A key that changes the field that has the focus.                         *)
LEMMA EditWInv == ASSUME WInv, Edit PROVE WInv'
<1>1. Terminal /\ phase = "asking"
  BY DEF Edit, Asking, Terminal
<1> DEFINE f == FieldsOf(Step, answers)[field]
<1>2. PICK x \in Selectable(Step, f) : entry' = [entry EXCEPT ![field] = x]
  BY DEF Edit
<1>3. Now' = Now /\ device' = device /\ phase' = phase
  BY DEF Edit, Now
<1>4. EntryInv'
  <2>1. CASE Now = 4
    <3>1. CASE field = 1
      <4>1. entry'[1] = x /\ f = "embBackend" /\ 1 \in DOMAIN entry'
        BY <1>1, <1>2, <2>1, <3>1, ScreenOK
      <4> QED BY <1>1, <1>2, <1>3, <2>1, <4>1, ScreenOK DEF EntryInv
    <3>2. CASE field # 1
      <4>1. entry'[1] = entry[1] /\ 1 \in DOMAIN entry'
        BY <1>1, <1>2, <2>1, <3>2, ScreenOK
      <4> QED BY <1>1, <1>3, <2>1, <4>1, ScreenOK DEF EntryInv
    <3> QED BY <3>1, <3>2
  <2>2. CASE Now = 5
    <3>1. CASE field = 1
      <4>1. entry'[1] = x /\ f = "embModel" /\ 1 \in DOMAIN entry'
        BY <1>1, <1>2, <2>2, <3>1, ScreenOK
      <4> QED BY <1>1, <1>2, <1>3, <2>2, <4>1, ScreenOK DEF EntryInv
    <3>2. CASE field # 1
      <4>1. entry'[1] = entry[1] /\ 1 \in DOMAIN entry'
        BY <1>1, <1>2, <2>2, <3>2, ScreenOK
      <4> QED BY <1>1, <1>3, <2>2, <4>1, ScreenOK DEF EntryInv
    <3> QED BY <3>1, <3>2
  <2> QED BY <1>3, <2>1, <2>2 DEF EntryInv
<1> QED BY <1>1, <1>3, <1>4, StayWInv DEF Edit, FileInv, WInv, Outcome

(* Enter on the last field.                                                 *)
LEMMA CommitKeyWInv == ASSUME WInv, Commit PROVE WInv'
<1>1. Terminal /\ phase = "asking" /\ presenter' = presenter /\ answers' = Committed(Step, entry)
  BY DEF Commit, Asking, Terminal
<1>2. Now \in 1 .. 14 /\ Step = SETUP_STEPS[Now]
  BY <1>1, ScreenOK
<1>3. device' \in BOOLEAN /\ (Now # 1 => device' = device)
  BY <1>1, <1>2, StepsDiffer DEF Commit, WInv, DeviceInv
<1>4. CASE Proceed(answers')
  BY <1>1, <1>3, <1>4, ScreenOK, CommitWInv
<1>5. CASE Step = "AdminConfirm" /\ entry' = <<"">> /\ UNCHANGED <<phase, asked, field>>
  <2>1. Now \notin {1, 4, 5, 6, 7}
    BY <1>2, <1>5, StepsDiffer
  <2>2. /\ Shape(answers') /\ answers'.embBackend = answers.embBackend /\ answers'.mode = answers.mode
        /\ answers'.embModel = answers.embModel
    BY <1>1, <1>2, <2>1, CommitKeeps DEF WInv
  <2>3. ActiveSteps(answers)' = ActiveSteps(answers)
    <3>1. ActiveSteps(answers') = ActiveSteps(answers)
      BY <2>2, Active
    <3> QED BY <3>1 DEF ActiveSteps
  <2>4. Now' = Now
    BY <1>5 DEF Now
  <2>5. PathInv'
    BY <1>1, <1>5, <2>3, <2>4 DEF WInv, PathInv
  <2>6. EntryInv' /\ FileInv'
    BY <1>1, <1>5, <2>1, <2>4 DEF EntryInv, FileInv
  <2>7. DeviceInv'
    BY <1>1, <1>3, <2>1, <2>2, <2>4 DEF WInv, DeviceInv
  <2>8. Shape(answers)'
    BY <2>2 DEF Shape
  <2> QED BY <2>5, <2>6, <2>7, <2>8 DEF WInv
<1> QED BY <1>4, <1>5 DEF Commit

(* Every step of a session, finalize and what others do included.           *)
LEMMA NextWInv == ASSUME WInv, [WizardNext]_wizardvars PROVE WInv'
<1>0. presenter' = presenter /\ (Terminal <=> Terminal')
  BY DEF WizardNext, CliStep, Edit, Move, NextField, Commit, Back, Cancel, Submit, Probe, WriteFile,
         HaveAccount, MakeKey, Persist, Fail, Fill, Tab, Create, At, wizardvars, Terminal
<1>1. CASE ~Terminal
  BY <1>0, <1>1 DEF WInv
<1>2. CASE Terminal /\ UNCHANGED wizardvars
  <2>1. EntryInv' /\ FileInv'
    BY <1>2 DEF wizardvars, WInv, EntryInv, FileInv, Now
  <2> QED BY <1>2, <2>1, StayWInv DEF wizardvars
<1>3. CASE Terminal /\ (Move \/ NextField)
  <2>1. EntryInv' /\ FileInv'
    BY <1>3 DEF Move, NextField, Outcome, WInv, EntryInv, FileInv, Now
  <2> QED BY <1>3, <2>1, StayWInv DEF Move, NextField
<1>4. CASE Terminal /\ Back
  <2>1. CASE field > 1 /\ field' = field - 1 /\ UNCHANGED <<asked, entry>>
    <3>1. EntryInv' /\ FileInv'
      BY <1>4, <2>1 DEF Back, Outcome, WInv, EntryInv, FileInv, Now
    <3> QED BY <1>4, <2>1, <3>1, StayWInv DEF Back
  <2>2. CASE ~(field > 1)
    BY <1>4, <2>2, BackWInv DEF Back, Outcome, Asking
  <2> QED BY <1>4, <2>1, <2>2 DEF Back
<1>5. CASE Terminal /\ (Cancel \/ Fail)
  <2>1. EntryInv' /\ FileInv'
    BY <1>5 DEF Cancel, Fail, Terminal, EntryInv, FileInv
  <2>2. answers' = answers
    BY <1>5 DEF Cancel, Fail, Terminal
  <2> QED BY <1>5, <2>1, <2>2, StayWInv DEF Cancel, Fail, Screen, Terminal
<1>6. CASE Terminal /\ Probe
  <2>1. EntryInv' /\ FileInv'
    BY <1>6 DEF Probe, At, EntryInv, FileInv
  <2> QED BY <1>6, <2>1, StayWInv DEF Probe, At, Screen
<1>7. CASE Terminal /\ WriteFile
  <2>1. EntryInv' /\ FileInv'
    BY <1>7 DEF WriteFile, At, WInv, EntryInv, FileInv
  <2> QED BY <1>7, <2>1, StayWInv DEF WriteFile, At, Screen
<1>8. CASE Terminal /\ (HaveAccount \/ MakeKey \/ Persist)
  <2>1. EntryInv' /\ FileInv'
    BY <1>8 DEF HaveAccount, MakeKey, Persist, At, Outcome, WInv, EntryInv, FileInv
  <2> QED BY <1>8, <2>1, StayWInv DEF HaveAccount, MakeKey, Persist, At, Screen
<1>9. CASE Terminal /\ (Submit \/ Fill \/ Tab \/ Create)
  BY <1>9 DEF Terminal, Submit, Fill, Tab, Create, Asking
<1> QED BY <1>1, <1>2, <1>3, <1>4, <1>5, <1>6, <1>7, <1>8, <1>9, CliWInv, EditWInv, CommitKeyWInv
       DEF WizardNext

------------------------------------------------------------------------------
(* "No presenter can silently add or drop a step": for every catalog, every *)
(* file to start from and whatever is typed, taken back and chosen again.   *)
THEOREM StepsAreAsked == WizardSpec => []EveryStepAsked
<1>1. WInv => EveryStepAsked
  <2> SUFFICES ASSUME WInv, Asked PROVE EveryStepAsked
    BY DEF EveryStepAsked
  <2>1. PathInv /\ phase \notin {"asking", "cancelled"}
    BY DEF WInv, Asked
  <2> QED BY <2>1 DEF PathInv, EveryStepAsked
<1> QED BY <1>1, InitWInv, NextWInv, PTL DEF WizardSpec

(* The local embedder gets into the answers and into the file only on a     *)
(* device whose last report allows it, with a model of the catalog and its  *)
(* dimension, although a step back may change the report.                   *)
THEOREM LocalIsAble == WizardSpec => []LocalRunsHere
<1>1. WInv => LocalRunsHere
  <2> SUFFICES ASSUME WInv, Asked, answers.embBackend = "local"
               PROVE  /\ device
                      /\ answers.embModel \in DOMAIN Catalog
                      /\ Written /\ phase # "failed" => file["dim"] = Catalog[file["embModel"]]
    BY DEF LocalRunsHere
  <2>1. Shape(answers) /\ PathInv /\ DeviceInv /\ FileInv /\ phase \notin {"asking", "cancelled"}
    BY DEF WInv, Asked
  <2>2. Now > 4
    <3>1. 14 \in ActiveSteps(answers)
      BY Active
    <3> QED BY <2>1, <3>1, PlaceOK DEF PathInv
  <2>3. device /\ answers.embModel \in DOMAIN Catalog
    BY <2>1, <2>2 DEF DeviceInv
  <2>4. ASSUME Written, phase # "failed" PROVE file["dim"] = Catalog[file["embModel"]]
    <3>1. file = FileOf(answers, probed) /\ probed = Unset
      BY <2>1, <2>4 DEF FileInv, Written
    <3>2. file["embModel"] = answers["embModel"]
      BY <3>1 DEF FileOf, Fields
    <3>3. file["dim"] = EffectiveDim(answers, Unset)
      BY <3>1 DEF FileOf, Fields
    <3>4. EffectiveDim(answers, Unset) = Catalog[answers.embModel]
      BY <2>3 DEF EffectiveDim
    <3> QED BY <3>2, <3>3, <3>4
  <2> QED BY <2>3, <2>4
<1> QED BY <1>1, InitWInv, NextWInv, PTL DEF WizardSpec
------------------------------------------------------------------------------
(* What a restart finds.  First the values: no answer is ever missing, and   *)
(* what a select asked for is one of its options.                           *)

TextFields == {"libsqlPath", "databaseUrl", "embUrl", "embKey", "embModel", "llmUrl", "llmKey",
               "llmModel", "email", "password", "confirm", "bindAddr", "port", "label"}

(* The fields of each step: one of a select, or texts.                      *)
LEMMA StepFields ==
  ASSUME NEW k \in 1 .. 14, NEW a, NEW j \in DOMAIN FieldsOf(SETUP_STEPS[k], a)
  PROVE  LET F == FieldsOf(SETUP_STEPS[k], a) IN
         /\ F[j] \in DOMAIN Default \cup {"confirm"}
         /\ F[j] = "store" => k = 2
         /\ k = 2 => F = <<"store">>
         /\ k = 4 => F = <<"embBackend">>
         /\ k = 5 => F = <<"embModel">>
         /\ k = 7 => F = <<"mode">>
         /\ k \notin {2, 4, 5, 7} => F[j] \in TextFields
         /\ F[j] \in {"llmUrl", "llmKey", "llmModel"} => k = 8
<1>1. CASE k \in 1 .. 3
  BY <1>1 DEF SETUP_STEPS, FieldsOf, Default, TextFields
<1>2. CASE k \in 4 .. 6
  BY <1>2 DEF SETUP_STEPS, FieldsOf, Default, TextFields
<1>3. CASE k \in 7 .. 9
  BY <1>3 DEF SETUP_STEPS, FieldsOf, Default, TextFields
<1>4. CASE k \in 10 .. 12
  BY <1>4 DEF SETUP_STEPS, FieldsOf, Default, TextFields
<1>5. CASE k \in 13 .. 14
  BY <1>5 DEF SETUP_STEPS, FieldsOf, Default, TextFields
<1> QED BY <1>1, <1>2, <1>3, <1>4, <1>5

LEMMA SelectSteps ==
  ASSUME NEW k \in 1 .. 14
  PROVE  /\ IsSelect(SETUP_STEPS[k]) = (k \in {2, 4, 5, 7})
         /\ SETUP_STEPS[k] = "LocalModel" => k = 5
         /\ SETUP_STEPS[k] = "AdminConfirm" => k = 11
BY DEF SETUP_STEPS, IsSelect

Values(a) == a.store \in Stores /\ \A f \in DOMAIN Default : a[f] # Unset

(* What the fields of step k hold.                                          *)
ScreenVals(k, a, e) ==
  /\ DOMAIN e = DOMAIN FieldsOf(SETUP_STEPS[k], a)
  /\ \A j \in DOMAIN e : e[j] # Unset
  /\ k = 2 => e[1] \in Stores
  /\ k = 4 => e[1] \in {"local", "remote"}
  /\ k = 7 => e[1] \in Modes

ValuesInv ==
  /\ Values(answers)
  /\ phase = "asking" => ScreenVals(Now, answers, entry)
  /\ Now > 4 => answers.embBackend \in {"local", "remote"}
  /\ Now > 7 => answers.mode \in Modes

(* The account and the rows are those of the answers.                       *)
OutcomeInv ==
  /\ phase \in {"key", "rows", "done"} => StorageOf(answers) \in accounts
  /\ phase = "done" => \E old : rows = Persisted(old, answers)

VInv == Terminal => ValuesInv /\ OutcomeInv

(* Where the answers start.                                                 *)
LEMMA PreseedValues == ASSUME NEW f PROVE Values(Preseed(f))
<1> DEFINE a == Preseed(f)
<1>1. Default.store = "libsql" /\ "store" \in DOMAIN Default /\ "store" \in Fields
  BY DEF Default, Fields
<1>2. \A x \in DOMAIN Default : Default[x] # Unset
  BY TextAssumption
<1>3. a.store = IF f["store"] \in Stores THEN f["store"] ELSE Default["store"]
  BY <1>1 DEF Preseed
<1>4. a.store \in Stores
  BY <1>1, <1>3 DEF Stores
<1>5. ASSUME NEW x \in DOMAIN Default PROVE a[x] # Unset
  <2>1. CASE x = "store"
    BY <1>4, <2>1, TextAssumption
  <2>2. CASE x # "store" /\ x \in Fields
    <3>1. a[x] = IF f[x] # Unset THEN f[x] ELSE Default[x]
      BY <2>2 DEF Preseed
    <3> QED BY <1>2, <3>1
  <2>3. CASE x \notin Fields
    <3>1. a[x] = Default[x]
      BY <1>1, <2>3 DEF Preseed
    <3> QED BY <1>2, <3>1
  <2> QED BY <2>1, <2>2, <2>3
<1> QED BY <1>4, <1>5 DEF Values

(* What comes up.                                                           *)
LEMMA ShowVals ==
  ASSUME NEW k \in 1 .. 14, NEW a, Values(a), Show(k, a)
  PROVE  ScreenVals(k, a, entry')
<1> DEFINE F == FieldsOf(SETUP_STEPS[k], a)
<1>1. entry' = [j \in DOMAIN F |-> Shown(SETUP_STEPS[k], F[j], a)]
  BY DEF Show
<1>2. "" # Unset /\ "remote" # Unset /\ "local" # Unset /\ "raw" # Unset /\ "llm" # Unset
      /\ DefaultModel # Unset /\ LocalPostgres # Unset
  BY ConfigAssumption, CatalogAssumption, TextAssumption DEF Modes, LocalPostgres
<1>3. ASSUME NEW j \in DOMAIN F
      PROVE  /\ Shown(SETUP_STEPS[k], F[j], a) # Unset
             /\ k = 2 => Shown(SETUP_STEPS[k], F[j], a) \in Stores
             /\ k = 4 => Shown(SETUP_STEPS[k], F[j], a) \in {"local", "remote"}
             /\ k = 7 => Shown(SETUP_STEPS[k], F[j], a) \in Modes
  <2>1. F[j] \in DOMAIN Default \cup {"confirm"}
    BY StepFields
  <2>2. F[j] # "confirm" => a[F[j]] # Unset
    BY <2>1 DEF Values
  <2>3. \/ Shown(SETUP_STEPS[k], F[j], a) \in {"", "remote", "local", "raw", "llm", DefaultModel, LocalPostgres}
        \/ Shown(SETUP_STEPS[k], F[j], a) = a[F[j]] /\ F[j] # "confirm"
    <3>0. SETUP_STEPS[k] = "LocalModel" => F[j] = "embModel"
      BY StepFields, SelectSteps
    <3> HIDE DEF F
    <3> DEFINE g == F[j]
               s == SETUP_STEPS[k]
    <3>1. CASE g = "confirm"
      <4> HIDE DEF s, g
      <4> QED BY <3>0, <3>1 DEF Shown
    <3>2. CASE g = "embBackend"
      BY <3>0, <3>2 DEF Shown
    <3>3. CASE g = "mode"
      BY <3>0, <3>3 DEF Shown
    <3>4. CASE g \notin {"confirm", "embBackend", "mode"}
      <4>1. CASE s = "LocalModel"
        BY <3>0, <4>1 DEF Shown
      <4>2. CASE s # "LocalModel" /\ g = "password" /\ presenter = "cli"
        BY <4>2 DEF Shown
      <4>3. CASE s # "LocalModel" /\ g = "databaseUrl" /\ presenter = "cli" /\ a[g] = ""
        BY <4>3 DEF Shown
      <4>4. CASE /\ s # "LocalModel"
                 /\ ~(g = "password" /\ presenter = "cli")
                 /\ ~(g = "databaseUrl" /\ presenter = "cli" /\ a[g] = "")
        BY <3>4, <4>4 DEF Shown
      <4> QED BY <4>1, <4>2, <4>3, <4>4
    <3> QED BY <3>1, <3>2, <3>3, <3>4
  <2>4. k = 2 => Shown(SETUP_STEPS[k], F[j], a) \in Stores
    <3> SUFFICES ASSUME k = 2 PROVE Shown(SETUP_STEPS[2], F[j], a) \in Stores
      OBVIOUS
    <3>1. F[j] = "store" /\ SETUP_STEPS[2] # "LocalModel"
      BY StepFields, SelectSteps
    <3>2. Shown(SETUP_STEPS[2], "store", a) = a["store"]
      BY <3>1 DEF Shown
    <3> QED BY <3>1, <3>2 DEF Values
  <2>5. k = 4 => Shown(SETUP_STEPS[k], F[j], a) \in {"local", "remote"}
    <3> SUFFICES ASSUME k = 4 PROVE Shown(SETUP_STEPS[4], F[j], a) \in {"local", "remote"}
      OBVIOUS
    <3>1. F[j] = "embBackend" /\ SETUP_STEPS[4] # "LocalModel"
      BY StepFields, SelectSteps
    <3> QED BY <3>1 DEF Shown
  <2>6. k = 7 => Shown(SETUP_STEPS[k], F[j], a) \in Modes
    <3> SUFFICES ASSUME k = 7 PROVE Shown(SETUP_STEPS[7], F[j], a) \in Modes
      OBVIOUS
    <3>1. F[j] = "mode" /\ SETUP_STEPS[7] # "LocalModel"
      BY StepFields, SelectSteps
    <3> QED BY <3>1 DEF Shown, Modes
  <2> QED BY <1>2, <2>2, <2>3, <2>4, <2>5, <2>6
<1>4. \A j \in DOMAIN F : entry'[j] = Shown(SETUP_STEPS[k], F[j], a)
  BY <1>1
<1>5. k \in {2, 4, 7} => 1 \in DOMAIN F
  <2>1. SETUP_STEPS[2] = "StorageBackend" /\ SETUP_STEPS[4] = "EmbedderBackend"
        /\ SETUP_STEPS[7] = "ExtractionMode"
    BY DEF SETUP_STEPS
  <2> QED BY <2>1 DEF FieldsOf
<1> HIDE DEF F
<1>6. DOMAIN entry' = DOMAIN F
  BY <1>1
<1> QED BY <1>3, <1>4, <1>5, <1>6 DEF ScreenVals, F

(* What a select offers or a text holds is no missing value.                *)
LEMMA SelectableVals ==
  ASSUME NEW k \in 1 .. 14, NEW a, NEW j \in DOMAIN FieldsOf(SETUP_STEPS[k], a),
         NEW x \in Selectable(SETUP_STEPS[k], FieldsOf(SETUP_STEPS[k], a)[j])
  PROVE  /\ x # Unset
         /\ k = 2 => x \in Stores
         /\ k = 4 => x \in {"local", "remote"}
         /\ k = 7 => x \in Modes
<1> DEFINE F == FieldsOf(SETUP_STEPS[k], a)
           s == SETUP_STEPS[k]
<1>1. /\ k = 2 => F = <<"store">>
      /\ k = 4 => F = <<"embBackend">>
      /\ k = 5 => F = <<"embModel">>
      /\ k = 7 => F = <<"mode">>
      /\ k \notin {2, 4, 5, 7} => F[j] \in TextFields
  BY StepFields
<1>2. IsSelect(s) = (k \in {2, 4, 5, 7})
  BY SelectSteps
<1>3. x \in Selectable(s, F[j]) /\ j \in DOMAIN F
  OBVIOUS
<1>4. CASE k \notin {2, 4, 5, 7}
  <2>1. x \in Typed[F[j]]
    BY <1>2, <1>3, <1>4 DEF Selectable
  <2>2. Unset \notin Typed[F[j]]
    BY <1>1, <1>4, TextAssumption DEF TextFields
  <2> QED BY <1>4, <2>1, <2>2
<1>5. CASE k \in {2, 4, 5, 7}
  <2>1. x \in Options(F[j])
    BY <1>2, <1>3, <1>5 DEF Selectable
  <2> HIDE DEF F
  <2>2. /\ k = 2 => F[j] = "store"
        /\ k = 4 => F[j] = "embBackend"
        /\ k = 5 => F[j] = "embModel"
        /\ k = 7 => F[j] = "mode"
    BY <1>1, <1>3
  <2>3. Options("store") = Stores /\ Options("embBackend") \subseteq {"local", "remote"}
        /\ Options("embModel") = DOMAIN Catalog /\ Options("mode") = Modes
    BY DEF Options
  <2> QED BY <1>5, <2>1, <2>2, <2>3, TextAssumption
<1> QED BY <1>4, <1>5

(* A step that is committed.                                                *)
LEMMA CommitVals ==
  ASSUME Shape(answers), Values(answers), NEW k \in 1 .. 14, NEW v, ScreenVals(k, answers, v)
  PROVE  LET c == Committed(SETUP_STEPS[k], v) IN
         /\ Values(c)
         /\ k = 4 => c.embBackend = v[1]
         /\ k = 7 => c.mode = v[1]
<1> DEFINE F == FieldsOf(SETUP_STEPS[k], answers)
           b == [f \in DOMAIN answers |->
                   IF \E j \in DOMAIN F : F[j] = f
                   THEN Stored(f, v[CHOOSE j \in DOMAIN F : F[j] = f])
                   ELSE answers[f]]
           c == Committed(SETUP_STEPS[k], v)
<1>1. DOMAIN answers = DOMAIN Default
  BY DEF Shape
<1>2. c = IF k = 4 /\ b.embBackend = "local" THEN [b EXCEPT !.embModel = DefaultModel] ELSE b
  BY StepsDiffer DEF Committed
<1>3. \A j \in DOMAIN F : /\ F[j] = "store" => k = 2
                          /\ k = 2 => F = <<"store">>
                          /\ k = 4 => F = <<"embBackend">>
                          /\ k = 7 => F = <<"mode">>
  BY StepFields
<1>4. DOMAIN v = DOMAIN F /\ \A j \in DOMAIN F : v[j] # Unset
  BY DEF ScreenVals
<1>5. k \in {2, 4, 7} => 1 \in DOMAIN F
  <2>1. SETUP_STEPS[2] = "StorageBackend" /\ SETUP_STEPS[4] = "EmbedderBackend"
        /\ SETUP_STEPS[7] = "ExtractionMode"
    BY DEF SETUP_STEPS
  <2> QED BY <2>1 DEF FieldsOf
<1>6. k = 2 => v[1] \in Stores
  BY DEF ScreenVals
<1> HIDE DEF F
<1>7. \A f, x : x # Unset => Stored(f, x) # Unset
  BY ConfigAssumption DEF Stored
<1>8. ASSUME NEW f \in DOMAIN Default PROVE b[f] # Unset
  <2>1. CASE \E j \in DOMAIN F : F[j] = f
    <3>1. (CHOOSE j \in DOMAIN F : F[j] = f) \in DOMAIN F
      BY <2>1
    <3> QED BY <1>1, <1>4, <1>7, <2>1, <3>1
  <2>2. CASE ~\E j \in DOMAIN F : F[j] = f
    BY <1>1, <2>2 DEF Values
  <2> QED BY <2>1, <2>2
<1>9. {"store", "embBackend", "mode", "embModel"} \subseteq DOMAIN Default
  BY DEF Default
<1>10. ASSUME NEW f \in {"store", "embBackend", "mode"}, F = <<f>> PROVE b[f] = v[1]
  <2>1. DOMAIN F = {1} /\ F[1] = f
    BY <1>10
  <2>2. (CHOOSE j \in DOMAIN F : F[j] = f) = 1
    BY <2>1
  <2>3. f # "port"
    OBVIOUS
  <2> QED BY <1>1, <1>9, <2>1, <2>2, <2>3 DEF Stored
<1>11. b.store \in Stores
  <2>1. CASE k = 2
    BY <1>3, <1>5, <1>6, <1>10, <2>1
  <2>2. CASE k # 2
    <3>1. ~\E j \in DOMAIN F : F[j] = "store"
      BY <1>3, <2>2
    <3> QED BY <1>1, <1>9, <3>1 DEF Values
  <2> QED BY <2>1, <2>2
<1>12. /\ k = 4 => b.embBackend = v[1]
       /\ k = 7 => b.mode = v[1]
  BY <1>3, <1>5, <1>10
<1>13. DOMAIN b = DOMAIN Default
  BY <1>1
<1>14. DefaultModel # Unset
  BY CatalogAssumption, TextAssumption
<1> HIDE DEF b
<1>15. /\ c.store = b.store /\ c.embBackend = b.embBackend /\ c.mode = b.mode
       /\ \A f \in DOMAIN Default : c[f] # Unset
  BY <1>2, <1>8, <1>9, <1>13, <1>14
<1> QED BY <1>11, <1>12, <1>15 DEF Values

LEMMA CommitVInv ==
  ASSUME WInv, Terminal, ValuesInv, phase = "asking", NEW v,
         answers' = Committed(Step, v), Proceed(answers'), ScreenVals(Now, answers, v)
  PROVE  ValuesInv'
<1>1. Shape(answers) /\ PathInv
  BY DEF WInv
<1>2. Now \in 1 .. 14 /\ Step = SETUP_STEPS[Now]
  BY <1>1, PlaceOK DEF Step, Now
<1>3. /\ Now # 4 => answers'.embBackend = answers.embBackend
      /\ Now # 7 => answers'.mode = answers.mode
  BY <1>1, <1>2, CommitKeeps
<1>4. /\ Values(answers')
      /\ Now = 4 => answers'.embBackend \in {"local", "remote"}
      /\ Now = 7 => answers'.mode \in Modes
  BY <1>1, <1>2, CommitVals DEF ValuesInv, ScreenVals
<1>5. \A k \in 1 .. Now : k \in ActiveSteps(answers') <=> k \in ActiveSteps(answers)
  BY <1>2, <1>3, Active
<1>6. \/ phase' = "probe" /\ Now' = Now
      \/ /\ phase' = "asking"
         /\ Now' > Now /\ Now' \in ActiveSteps(answers')
         /\ \A k \in ActiveSteps(answers') : k > Now => k >= Now'
         /\ Show(Now', answers')
  BY <1>1, <1>5, ProceedPath
<1>7. 4 \in ActiveSteps(answers') /\ 7 \in ActiveSteps(answers') /\ ActiveSteps(answers') \subseteq 1 .. 14
  BY Active
<1>8. /\ Now' > 4 => Now >= 4
      /\ Now' > 7 => Now >= 7
      /\ Now' \in 1 .. 14
  BY <1>2, <1>6, <1>7
<1>9. phase' = "asking" => ScreenVals(Now, answers, entry)'
  <2>1. phase' = "asking" => ScreenVals(Now', answers', entry')
    BY <1>4, <1>6, <1>8, ShowVals
  <2> QED BY <2>1 DEF ScreenVals
<1>10. /\ Now' > 4 => answers'.embBackend \in {"local", "remote"}
       /\ Now' > 7 => answers'.mode \in Modes
  <2>1. Now > 4 => answers.embBackend \in {"local", "remote"}
    BY DEF ValuesInv
  <2>2. Now > 7 => answers.mode \in Modes
    BY DEF ValuesInv
  <2> QED BY <1>2, <1>3, <1>4, <1>8, <2>1, <2>2
<1>11. Values(answers)'
  BY <1>4 DEF Values
<1> QED BY <1>9, <1>10, <1>11 DEF ValuesInv

LEMMA CliVals ==
  ASSUME WInv, Terminal, ValuesInv, CliStep
  PROVE  ValuesInv'
<1> DEFINE F == FieldsOf(Step, answers)
<1>1. phase = "asking" /\ ScreenVals(Now, answers, entry)
  BY DEF CliStep, Asking, ValuesInv
<1>2. Now \in 1 .. 14 /\ Step = SETUP_STEPS[Now]
  BY <1>1, ScreenOK
<1>3. PICK v \in [DOMAIN F -> UNION {Selectable(Step, F[j]) \cup {entry[j]} : j \in DOMAIN F}] :
        /\ \A j \in DOMAIN F : v[j] = entry[j] \/ v[j] \in Selectable(Step, F[j]) \ {""}
        /\ answers' = Committed(Step, v)
        /\ Proceed(answers')
  BY DEF CliStep
<1>4. ScreenVals(Now, answers, v)
  <2>1. DOMAIN entry = DOMAIN F /\ DOMAIN v = DOMAIN F
    BY <1>1, <1>2, <1>3 DEF ScreenVals
  <2>2. ASSUME NEW j \in DOMAIN F
        PROVE  /\ v[j] # Unset
               /\ Now = 2 /\ j = 1 => v[j] \in Stores
               /\ Now = 4 /\ j = 1 => v[j] \in {"local", "remote"}
               /\ Now = 7 /\ j = 1 => v[j] \in Modes
    <3>1. CASE v[j] = entry[j]
      BY <1>1, <2>1, <3>1 DEF ScreenVals
    <3>2. CASE v[j] \in Selectable(Step, F[j])
      BY <1>2, <3>2, SelectableVals
    <3> QED BY <1>3, <3>1, <3>2
  <2>3. Now \in {2, 4, 7} => 1 \in DOMAIN F
    <3>1. SETUP_STEPS[2] = "StorageBackend" /\ SETUP_STEPS[4] = "EmbedderBackend"
          /\ SETUP_STEPS[7] = "ExtractionMode"
      BY DEF SETUP_STEPS
    <3> QED BY <1>2, <3>1 DEF FieldsOf
  <2>4. DOMAIN v = DOMAIN FieldsOf(SETUP_STEPS[Now], answers)
    BY <1>2, <2>1
  <2> HIDE DEF F
  <2> QED BY <2>1, <2>2, <2>3, <2>4 DEF ScreenVals
<1> QED BY <1>1, <1>3, <1>4, CommitVInv

LEMMA EditVals ==
  ASSUME WInv, Terminal, ValuesInv, Edit
  PROVE  ValuesInv'
<1> DEFINE F == FieldsOf(Step, answers)
<1>1. phase = "asking" /\ ScreenVals(Now, answers, entry) /\ Now' = Now
      /\ UNCHANGED <<phase, answers>>
  BY DEF Edit, Asking, ValuesInv, Now
<1>2. Now \in 1 .. 14 /\ Step = SETUP_STEPS[Now]
  BY <1>1, ScreenOK
<1>3. PICK x \in Selectable(Step, F[field]) : entry' = [entry EXCEPT ![field] = x]
  BY DEF Edit
<1>4. DOMAIN entry = DOMAIN F /\ DOMAIN entry' = DOMAIN entry
  BY <1>1, <1>2, <1>3 DEF ScreenVals
<1>5. ASSUME field \in DOMAIN F
      PROVE  /\ x # Unset
             /\ Now = 2 => x \in Stores
             /\ Now = 4 => x \in {"local", "remote"}
             /\ Now = 7 => x \in Modes
  BY <1>2, <1>3, <1>5, SelectableVals
<1> HIDE DEF F
<1>6. ASSUME NEW j \in DOMAIN entry
      PROVE  entry'[j] = IF j = field THEN x ELSE entry[j]
  BY <1>3
<1>7. Now \in {2, 4, 7} => 1 \in DOMAIN F
  <2>1. SETUP_STEPS[2] = "StorageBackend" /\ SETUP_STEPS[4] = "EmbedderBackend"
        /\ SETUP_STEPS[7] = "ExtractionMode"
    BY DEF SETUP_STEPS
  <2> QED BY <1>2, <2>1 DEF FieldsOf, F
<1>8. ScreenVals(Now, answers, entry')
  BY <1>1, <1>4, <1>5, <1>6, <1>7 DEF ScreenVals
<1>9. ScreenVals(Now, answers, entry)'
  BY <1>1, <1>8 DEF ScreenVals
<1> QED BY <1>1, <1>9 DEF ValuesInv, Values

LEMMA CommitKeyVals ==
  ASSUME WInv, Terminal, ValuesInv, Commit
  PROVE  ValuesInv'
<1>1. phase = "asking" /\ ScreenVals(Now, answers, entry) /\ answers' = Committed(Step, entry)
  BY DEF Commit, Asking, ValuesInv
<1>2. Now \in 1 .. 14 /\ Step = SETUP_STEPS[Now] /\ Shape(answers) /\ Values(answers)
  BY <1>1, ScreenOK DEF WInv, ValuesInv
<1>3. CASE Proceed(answers')
  BY <1>1, <1>3, CommitVInv
<1>4. CASE Step = "AdminConfirm" /\ entry' = <<"">> /\ UNCHANGED <<phase, asked, field>>
  <2>1. Now = 11 /\ Now' = Now
    BY <1>2, <1>4, SelectSteps DEF Now
  <2>2. Values(answers') /\ answers'.embBackend = answers.embBackend /\ answers'.mode = answers.mode
    BY <1>1, <1>2, <2>1, CommitVals, CommitKeeps
  <2>3. FieldsOf(SETUP_STEPS[11], answers') = <<"confirm">>
    BY DEF SETUP_STEPS, FieldsOf
  <2>4. ScreenVals(11, answers', entry')
    <3>0. entry' = <<"">> /\ "" # Unset
      BY <1>4, ConfigAssumption
    <3>1. DOMAIN entry' = {1} /\ entry'[1] = ""
      <4>1. \A x : DOMAIN <<x>> = {1} /\ <<x>>[1] = x
        OBVIOUS
      <4> QED BY <3>0, <4>1
    <3>2. DOMAIN FieldsOf(SETUP_STEPS[11], answers') = {1}
      BY <2>3
    <3>3. \A j \in DOMAIN entry' : entry'[j] # Unset
      BY <3>0, <3>1
    <3>4. DOMAIN entry' = DOMAIN FieldsOf(SETUP_STEPS[11], answers')
      BY <3>1, <3>2
    <3> HIDE DEF FieldsOf
    <3> QED BY <3>3, <3>4 DEF ScreenVals
  <2>5. ScreenVals(Now, answers, entry)' /\ Values(answers)'
    BY <2>1, <2>2, <2>4 DEF ScreenVals, Values
  <2>6. /\ Now' > 4 => answers'.embBackend \in {"local", "remote"}
        /\ Now' > 7 => answers'.mode \in Modes
    BY <2>1, <2>2 DEF ValuesInv
  <2> QED BY <2>5, <2>6 DEF ValuesInv
<1> QED BY <1>3, <1>4 DEF Commit

LEMMA BackVals ==
  ASSUME WInv, WInv', Terminal, ValuesInv, Back, presenter' = presenter
  PROVE  ValuesInv'
<1>1. phase = "asking" /\ UNCHANGED <<phase, answers>> /\ PathInv /\ PathInv'
  BY DEF Back, Asking, WInv, Terminal
<1>2. CASE field > 1
  BY <1>1, <1>2 DEF Back, ValuesInv, Values, ScreenVals, Now
<1>3. CASE ~(field > 1)
  <2> DEFINE n == Len(asked) - 1
  <2>1. asked' = SubSeq(asked, 1, n) /\ Show(asked[n], answers) /\ n >= 1
    BY <1>3, PlaceOK, <1>1 DEF Back
  <2>2. /\ Len(asked') = n /\ asked'[n] = asked[n] /\ n \in Nat
        /\ n \in DOMAIN asked /\ n + 1 \in DOMAIN asked /\ Now = asked[n + 1]
    BY <1>1, <2>1, PlaceOK, SubSeqProperties DEF PathInv, Now
  <2>3. Now' = asked[n] /\ asked[n] \in 1 .. 14 /\ asked[n] < Now
    <3>1. Now' = asked[n]
      BY <2>2 DEF Now
    <3> QED BY <1>1, <2>2, <3>1 DEF PathInv
  <2>4. ScreenVals(Now', answers, entry')
    BY <2>1, <2>3, ShowVals DEF ValuesInv
  <2>5. ScreenVals(Now, answers, entry)' /\ Values(answers)'
    BY <1>1, <2>4 DEF ScreenVals, Values, ValuesInv
  <2>6. (Now' > 4 => Now > 4) /\ (Now' > 7 => Now > 7)
    <3>1. Now \in 1 .. 14
      BY <1>1, PlaceOK
    <3> HIDE DEF n
    <3> QED BY <2>3, <3>1
  <2> QED BY <1>1, <2>5, <2>6 DEF ValuesInv
<1>4. (field > 1) \in BOOLEAN
  OBVIOUS
<1> QED BY <1>2, <1>3

(* Everything after the questions.                                          *)
LEMMA FinalizeVals ==
  ASSUME Terminal, ValuesInv, answers' = answers, asked' = asked,
         phase' # "asking" \/ (phase' = phase /\ entry' = entry)
  PROVE  ValuesInv'
BY DEF ValuesInv, Values, ScreenVals, Now

LEMMA OutcomeStep ==
  ASSUME Terminal, OutcomeInv, [WizardNext]_wizardvars
  PROVE  OutcomeInv'
<1>1. CASE phase' \notin {"key", "rows", "done"}
  BY <1>1 DEF OutcomeInv
<1>2. CASE phase' \in {"key", "rows", "done"}
  <2>1. CASE HaveAccount
    <3>1. Target = StorageOf(answers) /\ UNCHANGED answers
      BY <2>1 DEF HaveAccount, At, Target, Terminal
    <3>2. Target \in accounts' /\ phase' = "key"
      BY <2>1 DEF HaveAccount, Terminal
    <3> QED BY <3>1, <3>2 DEF OutcomeInv, StorageOf
  <2>2. CASE MakeKey \/ UNCHANGED wizardvars
    BY <2>2 DEF OutcomeInv, MakeKey, At, Outcome, wizardvars, StorageOf, Persisted, Normalize, LlmOf,
                EmbedderOf
  <2>3. CASE Persist
    <3>1. rows' = Persisted(rows, answers) /\ UNCHANGED <<answers, accounts>> /\ phase = "rows"
      BY <2>3 DEF Persist, At
    <3>2. answers' = answers
      BY <3>1
    <3>3. rows' = Persisted(rows, answers')
      BY <3>1
    <3>4. StorageOf(answers) \in accounts
      BY <3>1 DEF OutcomeInv
    <3>5. (StorageOf(answers) \in accounts)'
      BY <3>1, <3>4 DEF StorageOf
    <3>6. (\E old : rows = Persisted(old, answers))'
      BY <3>3 DEF Persisted, LlmOf, EmbedderOf
    <3> QED BY <3>5, <3>6 DEF OutcomeInv
  <2>4. CASE Probe \/ WriteFile \/ Fail \/ Cancel \/ Commit \/ CliStep \/ Edit \/ Move \/ NextField \/ Back
    BY <1>2, <2>4 DEF Probe, WriteFile, Fail, Cancel, Commit, CliStep, Edit, Move, NextField, Back,
                      Proceed, Asking, Terminal
  <2>5. CASE Submit \/ Fill \/ Tab \/ Create
    BY <2>5 DEF Submit, Fill, Tab, Create, Asking, Terminal
  <2> QED BY <2>1, <2>2, <2>3, <2>4, <2>5 DEF WizardNext
<1> QED BY <1>1, <1>2

LEMMA InitVInv == WizardInit => VInv
<1> SUFFICES ASSUME WizardInit, Terminal PROVE ValuesInv /\ OutcomeInv
  BY DEF VInv
<1>1. asked = <<1>> /\ phase = "asking" /\ answers = Preseed(file) /\ entry = <<>>
  BY DEF WizardInit, Terminal
<1>2. Now = 1 /\ FieldsOf(SETUP_STEPS[1], answers) = <<>>
  BY <1>1 DEF Now, SETUP_STEPS, FieldsOf
<1>3. DOMAIN entry = {} /\ DOMAIN FieldsOf(SETUP_STEPS[1], answers) = {}
  BY <1>1, <1>2
<1>4. ScreenVals(1, answers, entry)
  BY <1>3 DEF ScreenVals
<1>5. Values(answers)
  BY <1>1, PreseedValues
<1> QED BY <1>1, <1>2, <1>4, <1>5 DEF ValuesInv, OutcomeInv

LEMMA NextVInv == ASSUME WInv, WInv', VInv, [WizardNext]_wizardvars PROVE VInv'
<1>0. presenter' = presenter /\ (Terminal <=> Terminal')
  BY DEF WizardNext, CliStep, Edit, Move, NextField, Commit, Back, Cancel, Submit, Probe, WriteFile,
         HaveAccount, MakeKey, Persist, Fail, Fill, Tab, Create, At, wizardvars, Terminal
<1> SUFFICES ASSUME Terminal PROVE ValuesInv' /\ OutcomeInv'
  BY <1>0 DEF VInv
<1>1. ValuesInv /\ OutcomeInv
  BY DEF VInv
<1>2. ASSUME CliStep \/ Edit \/ Commit \/ Back PROVE ValuesInv'
  <2>1. CASE CliStep
    BY <1>1, <2>1, CliVals
  <2>2. CASE Edit
    BY <1>1, <2>2, EditVals
  <2>3. CASE Commit
    BY <1>1, <2>3, CommitKeyVals
  <2>4. CASE Back
    BY <1>0, <1>1, <2>4, BackVals
  <2> QED BY <1>2, <2>1, <2>2, <2>3, <2>4
<1>3. ASSUME \/ UNCHANGED wizardvars \/ Move \/ NextField \/ Cancel \/ Probe \/ WriteFile
             \/ HaveAccount \/ MakeKey \/ Persist \/ Fail
      PROVE  ValuesInv'
  <2>1. answers' = answers /\ asked' = asked /\ (phase' # "asking" \/ (phase' = phase /\ entry' = entry))
    BY <1>3 DEF wizardvars, Move, NextField, Cancel, Probe, WriteFile, HaveAccount, MakeKey, Persist,
                Fail, At, Screen, Terminal
  <2> QED BY <1>1, <2>1, FinalizeVals
<1>4. CASE Submit \/ Fill \/ Tab \/ Create
  BY <1>4 DEF Submit, Fill, Tab, Create, Asking, Terminal
<1>5. ValuesInv'
  BY <1>2, <1>3, <1>4 DEF WizardNext
<1> QED BY <1>1, <1>5, OutcomeStep

LEMMA WizardInvariance == WizardSpec => [](WInv /\ VInv)
<1>1. WizardInit => WInv /\ VInv
  BY InitWInv, InitVInv
<1>2. WInv /\ VInv /\ [WizardNext]_wizardvars => (WInv /\ VInv)'
  BY NextWInv, NextVInv
<1> QED BY <1>1, <1>2, PTL DEF WizardSpec
------------------------------------------------------------------------------
(* The file of the answers a, read again: the probed dimension p apart, it   *)
(* gives back every answer that is not empty and that the mode has a use    *)
(* for.                                                                     *)

LlmFields == {"llmUrl", "llmKey", "llmModel"}

LEMMA FileAnswer ==
  ASSUME NEW a, NEW p, Values(a), NEW f \in Fields \ {"dim"}, f \in LlmFields => a.mode # "raw"
  PROVE  /\ f \in DOMAIN Default
         /\ a[f] # Unset
         /\ a[f] # "" => FileOf(a, p)[f] = a[f]
         /\ FileOf(a, p)[f] \in {a[f], Unset}
         /\ f \in {"store", "embModel", "mode", "bindAddr", "port"} => FileOf(a, p)[f] = a[f]
<1>1. f \in DOMAIN Default
  BY DEF Fields, Default
<1>2. a[f] # Unset
  BY <1>1 DEF Values
<1> DEFINE optional == f \in {"libsqlPath", "databaseUrl", "llmKey", "embUrl", "embKey"}
           empty == a[f] = ""
<1>3. optional /\ empty => FileOf(a, p)[f] = Unset
  BY DEF FileOf, LlmFields
<1>4. ~(optional /\ empty) => FileOf(a, p)[f] = a[f]
  BY DEF FileOf, LlmFields
<1>5. f \in {"store", "embModel", "mode", "bindAddr", "port"} => ~optional
  OBVIOUS
<1> HIDE DEF optional, empty
<1>6. /\ ~empty => FileOf(a, p)[f] = a[f]
      /\ FileOf(a, p)[f] \in {a[f], Unset}
      /\ f \in {"store", "embModel", "mode", "bindAddr", "port"} => FileOf(a, p)[f] = a[f]
  BY <1>3, <1>4, <1>5
<1>7. (a[f] # "") => FileOf(a, p)[f] = a[f]
  BY <1>6 DEF empty
<1> QED BY <1>1, <1>2, <1>6, <1>7

LEMMA FileNonEmpty ==
  ASSUME NEW a, NEW p, Values(a), NEW f \in Fields \ {"dim"}, f \in LlmFields => a.mode # "raw"
  PROVE  NonEmpty(f, FileOf(a, p), NoEnv) = OrUnset(a[f])
<1> DEFINE F == FileOf(a, p)
<1>1. NoEnv[f] = Unset
  BY DEF NoEnv, Variables
<1>2. F[f] \in {a[f], Unset} /\ (a[f] # "" => F[f] = a[f]) /\ a[f] # Unset
  <2>1. F[f] \in {a[f], Unset}
    BY FileAnswer
  <2>2. a[f] # "" => F[f] = a[f]
    BY FileAnswer
  <2>3. a[f] # Unset
    BY FileAnswer
  <2> QED BY <2>1, <2>2, <2>3
<1> HIDE DEF F
<1>3. NonEmpty(f, F, NoEnv) = IF F[f] \notin {Unset, ""} THEN F[f] ELSE Unset
  <2>1. CASE F[f] \notin {Unset, ""}
    BY <1>1, <2>1 DEF NonEmpty
  <2>2. CASE F[f] \in {Unset, ""}
    BY <1>1, <2>2 DEF NonEmpty
  <2> QED BY <2>1, <2>2
<1>4. NonEmpty(f, F, NoEnv) = OrUnset(a[f])
  BY <1>2, <1>3 DEF OrUnset
<1> QED BY <1>4 DEF F

LEMMA RawHasNoLlm ==
  ASSUME NEW a, NEW p, a.mode = "raw", NEW f \in LlmFields
  PROVE  NonEmpty(f, FileOf(a, p), NoEnv) = Unset
<1>1. NoEnv[f] = Unset
  BY DEF NoEnv, Variables, Fields, LlmFields
<1>2. FileOf(a, p)[f] = Unset
  BY DEF FileOf, Fields, LlmFields
<1> QED BY <1>1, <1>2 DEF NonEmpty

LEMMA FileLayered ==
  ASSUME NEW a, NEW p, Values(a), NEW f \in Fields \ ({"dim"} \cup LlmFields), NEW d,
         \/ a[f] # ""
         \/ f \in {"store", "embModel", "mode", "bindAddr", "port"}
  PROVE  Layered(f, FileOf(a, p), NoEnv, d) = a[f]
<1>1. NoEnv[f] = Unset
  BY DEF NoEnv, Variables
<1>2. FileOf(a, p)[f] = a[f] /\ a[f] # Unset
  BY FileAnswer
<1> QED BY <1>1, <1>2 DEF Layered

(* The wizard that is run again.                                            *)
LEMMA PreseedAnswer ==
  ASSUME NEW a, NEW p, Values(a), NEW f \in AskedFields(a) \cap (Fields \ {"dim"}), a[f] # ""
  PROVE  Preseed(FileOf(a, p))[f] = a[f]
<1>1. f \in LlmFields => a.mode # "raw"
  <2>1. PICK k \in ActiveSteps(a) : \E j \in DOMAIN FieldsOf(SETUP_STEPS[k], a) :
                                     f = FieldsOf(SETUP_STEPS[k], a)[j]
    BY DEF AskedFields
  <2>2. k \in 1 .. 14 /\ (k = 8 => a.mode = "llm")
    BY Active
  <2> QED BY <2>1, <2>2, StepFields DEF LlmFields
<1>2. FileOf(a, p)[f] = a[f] /\ a[f] # Unset /\ f \in DOMAIN Default
  BY <1>1, FileAnswer
<1>3. CASE f = "store"
  BY <1>2, <1>3 DEF Preseed, Values
<1>4. CASE f # "store"
  BY <1>2, <1>4 DEF Preseed
<1> QED BY <1>3, <1>4

(* A wizard that is run again starts from what this one was told: for every  *)
(* answer asked for, whatever was taken back and whatever the probe found.  *)
THEOREM AnswersComeBack == WizardSpec => []RerunStartsFromAnswers
<1>1. WInv /\ VInv => RerunStartsFromAnswers
  <2> SUFFICES ASSUME WInv, VInv, Written, phase # "failed",
                      NEW f \in AskedFields(answers) \cap (Fields \ {"dim"}), answers[f] # ""
               PROVE  Preseed(file)[f] = answers[f]
    BY DEF RerunStartsFromAnswers
  <2>1. file = FileOf(answers, probed) /\ Values(answers)
    BY DEF WInv, FileInv, VInv, ValuesInv, Written
  <2> QED BY <2>1, PreseedAnswer
<1> QED BY <1>1, WizardInvariance, PTL

------------------------------------------------------------------------------
(* The server that starts after the setup, whose file is F.                 *)

Chosen(a) == Values(a) /\ a.mode \in Modes /\ a.embBackend \in {"local", "remote"}

LEMMA LoadedMode ==
  ASSUME NEW a, NEW p, Chosen(a)
  PROVE  ModeOf(FileOf(a, p), NoEnv) = a.mode
<1>1. NonEmpty("mode", FileOf(a, p), NoEnv) = OrUnset(a["mode"])
  BY FileNonEmpty DEF Chosen, Fields, LlmFields
<1>2. OrUnset(a["mode"]) = a.mode /\ a.mode # Unset
  BY TextAssumption DEF Chosen, OrUnset, Modes
<1> QED BY <1>1, <1>2 DEF ModeOf

LEMMA LoadedBackend ==
  ASSUME NEW a, NEW p, Chosen(a)
  PROVE  BackendOf(FileOf(a, p), NoEnv) = a.embBackend
<1>1. a["embBackend"] # "" /\ a.embBackend \in Backends /\ Backend(a.embBackend) = a.embBackend
  BY DEF Chosen, Backends, Backend
<1>2. Layered("embBackend", FileOf(a, p), NoEnv, "remote") = a["embBackend"]
  BY <1>1, FileLayered DEF Chosen, Fields, LlmFields
<1> QED BY <1>1, <1>2 DEF BackendOf, Parsed

(* When the terminal is done, every step that is asked is behind it.        *)
LEMMA AllChosen ==
  ASSUME PathInv, ValuesInv, phase = "done"
  PROVE  Chosen(answers)
<1>1. Now \in 1 .. 14
  BY PlaceOK
<1>2. 14 \in ActiveSteps(answers)
  BY Active
<1>3. 14 <= Now
  BY <1>2 DEF PathInv
<1>4. Now > 4 /\ Now > 7
  BY <1>1, <1>3
<1> QED BY <1>4 DEF ValuesInv, Chosen

(* The file loads unless a URL or a model is not one.                       *)
LEMMA LoadsIfUsable ==
  ASSUME NEW a, NEW p, Chosen(a)
  PROVE  Refuses(FileOf(a, p), NoEnv) <=> ~Usable(a)
<1> DEFINE F == FileOf(a, p)
           url == NonEmpty("llmUrl", F, NoEnv)
           model == NonEmpty("llmModel", F, NoEnv)
<1>1. ModeOf(F, NoEnv) = a.mode /\ a.mode \in {"llm", "raw"}
  BY LoadedMode DEF Chosen, Modes
<1>2. BackendOf(F, NoEnv) = a.embBackend /\ a.embBackend \in {"local", "remote"}
  BY LoadedBackend DEF Chosen
<1>3. NonEmpty("embUrl", F, NoEnv) = OrUnset(a.embUrl) /\ NonEmpty("embModel", F, NoEnv) = OrUnset(a.embModel)
  BY FileNonEmpty DEF Chosen, Fields, LlmFields
<1>4. /\ a.mode = "llm" => url = OrUnset(a.llmUrl) /\ model = OrUnset(a.llmModel)
      /\ a.mode = "raw" => url = Unset /\ model = Unset
  <2>1. CASE a.mode = "llm"
    BY <2>1, FileNonEmpty DEF Chosen, Fields, LlmFields
  <2>2. CASE a.mode = "raw"
    BY <2>2, RawHasNoLlm DEF LlmFields
  <2> QED BY <1>1, <2>1, <2>2
<1>5. ~Cloud(NoEnv) /\ ~Malformed(NoEnv) /\ NoEnv["embBackend"] = Unset /\ NoEnv["dim"] = Unset
  BY DEF NoEnv, Variables, Fields, Cloud, Malformed
<1>6. /\ a.llmUrl # Unset /\ a.llmModel # Unset /\ a.embUrl # Unset /\ a.embModel # Unset
  BY DEF Chosen, Values, Default
<1>7. "" \notin Urls /\ Unset \notin Urls /\ Unset # ""
  BY ConfigAssumption
<1> HIDE DEF F, url, model
<1>8. Refuses(F, NoEnv) <=>
        \/ a.mode = "llm" /\ Unset \in {url, model}
        \/ url \notin Urls \cup {Unset}
        \/ a.embBackend = "remote" /\ NonEmpty("embUrl", F, NoEnv) \notin Urls
        \/ NonEmpty("embModel", F, NoEnv) = Unset
  BY <1>1, <1>2, <1>5 DEF Refuses, Modes, Backends, url, model
<1>9. Usable(a) <=>
        /\ a.mode = "llm" => a.llmUrl \in Urls /\ a.llmModel # ""
        /\ a.embBackend # "local" => a.embUrl \in Urls
        /\ a.embModel # ""
  BY DEF Usable
<1>10. Refuses(F, NoEnv) <=> ~Usable(a)
  <2>1. CASE a.mode = "llm"
    BY <1>2, <1>3, <1>4, <1>6, <1>7, <1>8, <1>9, <2>1 DEF OrUnset
  <2>2. CASE a.mode = "raw"
    BY <1>2, <1>3, <1>4, <1>6, <1>7, <1>8, <1>9, <2>2 DEF OrUnset
  <2> QED BY <1>1, <2>1, <2>2
<1> QED BY <1>10 DEF F

(* It names the store that setup opened.                                    *)
LEMMA LoadedStore ==
  ASSUME NEW a, NEW p, Chosen(a), StorageOf(a).at # ""
  PROVE  LoadedStorage(FileOf(a, p), NoEnv) = StorageOf(a)
<1> DEFINE F == FileOf(a, p)
<1>1. a.store \in Stores
  BY DEF Chosen, Values
<1>2. Layered("store", F, NoEnv, "libsql") = a["store"]
  BY FileLayered DEF Chosen, Fields, LlmFields
<1>3. CASE a.store = "postgres"
  <2>1. a["databaseUrl"] # ""
    BY <1>3 DEF StorageOf
  <2>2. Layered("databaseUrl", F, NoEnv, "") = a["databaseUrl"]
    BY <2>1, FileLayered DEF Chosen, Fields, LlmFields
  <2> HIDE DEF F
  <2>3. LoadedStorage(F, NoEnv) = StorageOf(a)
    BY <1>1, <1>2, <1>3, <2>2 DEF LoadedStorage, Parsed, StorageOf
  <2> QED BY <2>3 DEF F
<1>4. CASE a.store = "libsql"
  <2>1. a["libsqlPath"] # ""
    BY <1>4 DEF StorageOf
  <2>2. Layered("libsqlPath", F, NoEnv, DefaultPath) = a["libsqlPath"]
    BY <2>1, FileLayered DEF Chosen, Fields, LlmFields
  <2> HIDE DEF F
  <2>3. LoadedStorage(F, NoEnv) = StorageOf(a)
    BY <1>1, <1>2, <1>4, <2>2 DEF LoadedStorage, Parsed, StorageOf
  <2> QED BY <2>3 DEF F
<1> QED BY <1>1, <1>3, <1>4 DEF Stores

(* And the providers of the rows.                                           *)
LEMMA LoadedProviders ==
  ASSUME NEW a, NEW p, Chosen(a), Usable(a)
  PROVE  LET c == Loaded(FileOf(a, p), NoEnv) IN
         /\ c.mode = a.mode
         /\ c.embedder = EmbedderOf(a)
         /\ c.mode = "llm" => c.llm = LlmOf(a)
<1> DEFINE F == FileOf(a, p)
<1>1. ModeOf(F, NoEnv) = a.mode
  BY LoadedMode
<1>2. BackendOf(F, NoEnv) = a.embBackend /\ a.embBackend \in Backends /\ Backend(a.embBackend) = a.embBackend
  BY LoadedBackend DEF Chosen, Backends, Backend
<1>3. \A x : x # Unset => OrEmpty(OrUnset(x)) = x
  BY DEF OrEmpty, OrUnset
<1>4. /\ a.llmUrl # Unset /\ a.llmModel # Unset /\ a.embUrl # Unset /\ a.embModel # Unset
  BY DEF Chosen, Values, Default
<1>5. /\ OrEmpty(NonEmpty("embUrl", F, NoEnv)) = a.embUrl
      /\ NonEmpty("embKey", F, NoEnv) = OrUnset(a.embKey)
      /\ OrEmpty(NonEmpty("embModel", F, NoEnv)) = a.embModel
  BY <1>3, <1>4, FileNonEmpty DEF Chosen, Fields, LlmFields
<1>6. a.mode = "llm" =>
        /\ OrEmpty(NonEmpty("llmUrl", F, NoEnv)) = a.llmUrl
        /\ NonEmpty("llmKey", F, NoEnv) = OrUnset(a.llmKey)
        /\ OrEmpty(NonEmpty("llmModel", F, NoEnv)) = a.llmModel
  BY <1>3, <1>4, FileNonEmpty DEF Chosen, Fields, LlmFields
<1> HIDE DEF F
<1>7. Loaded(F, NoEnv).mode = a.mode
  BY <1>1 DEF Loaded
<1>8. Loaded(F, NoEnv).embedder = EmbedderOf(a)
  BY <1>2, <1>5 DEF Loaded, EmbedderOf
<1>9. a.mode = "llm" => Loaded(F, NoEnv).llm = LlmOf(a)
  BY <1>6 DEF Loaded, LlmOf
<1> QED BY <1>7, <1>8, <1>9 DEF F

LEMMA RowsOf ==
  ASSUME NEW old, NEW a, Chosen(a)
  PROVE  LET r == Persisted(old, a) IN
         /\ r.mode = a.mode
         /\ r.embedder = Normalize(EmbedderOf(a))
         /\ a.mode = "llm" => r.llm = LlmOf(a)
<1>1. a.mode \in Modes
  BY DEF Chosen
<1>2. LlmOf(a).backend = "remote"
  BY DEF LlmOf
<1>3. Normalize(LlmOf(a)) = LlmOf(a)
  BY <1>2 DEF Normalize
<1> QED BY <1>1, <1>3 DEF Persisted

(* Nothing is missing of a configuration that loads.                        *)
LEMMA NoIssues ==
  ASSUME NEW a, NEW p, Chosen(a), Usable(a), StorageOf(a).at # ""
  PROVE  Issues(Loaded(FileOf(a, p), NoEnv)) = {}
<1> DEFINE c == Loaded(FileOf(a, p), NoEnv)
<1>1. c.mode = a.mode /\ c.embedder = EmbedderOf(a) /\ (c.mode = "llm" => c.llm = LlmOf(a))
  BY LoadedProviders
<1>2. c.storage = StorageOf(a)
  BY LoadedStore DEF Loaded
<1> HIDE DEF c
<1>3. a.mode \in {"llm", "raw"} /\ a.embBackend \in {"local", "remote"} /\ "" \notin Urls
  BY ConfigAssumption DEF Chosen, Modes
<1>4. c.embedder.backend = a.embBackend /\ c.embedder.url = a.embUrl /\ c.embedder.model = a.embModel
  <2>1. a.embBackend \in Backends /\ Backend(a.embBackend) = a.embBackend
    BY <1>3 DEF Backends, Backend
  <2>2. /\ EmbedderOf(a).backend = a.embBackend /\ EmbedderOf(a).url = a.embUrl
        /\ EmbedderOf(a).model = a.embModel
    BY <2>1 DEF EmbedderOf
  <2> QED BY <1>1, <2>2
<1>5. c.mode # "raw" => c.llm.url = a.llmUrl /\ c.llm.model = a.llmModel
  <2>1. a.mode # "raw" => LlmOf(a).url = a.llmUrl /\ LlmOf(a).model = a.llmModel
    BY DEF LlmOf
  <2>2. c.mode # "raw" => a.mode # "raw" /\ c.llm = LlmOf(a)
    BY <1>1, <1>3
  <2> QED BY <2>1, <2>2
<1>6. /\ ~(c.mode # "raw" /\ c.llm.url = "")
      /\ ~(c.mode # "raw" /\ c.llm.model = "")
      /\ ~(c.embedder.backend = "remote" /\ c.embedder.url = "")
      /\ c.embedder.model # "" /\ c.storage.at # ""
  BY <1>1, <1>2, <1>3, <1>4, <1>5 DEF Usable
<1>7. Issues(c) = {}
  BY <1>6 DEF Issues
<1> QED BY <1>7 DEF c

(* The two readers of the file agree: whatever the file and the environment  *)
(* hold, unless the server refuses them, and the store is not the cloud,     *)
(* Config::load and the infrastructure that main starts with find the same  *)
(* storage, address and port.                                               *)
THEOREM ReadersAgree ==
  ASSUME NEW F, NEW env, ~Refuses(F, env), ~Cloud(env)
  PROVE  Infrastructure(F, env) =
           [storage |-> Loaded(F, env).storage, bindAddr |-> Loaded(F, env).bindAddr,
            port |-> Loaded(F, env).port]
<1> DEFINE i == CASE env["store"] # Unset -> env["store"]
                  [] env["store"] = Unset /\ F["store"] \in Stores -> F["store"]
                  [] OTHER -> "libsql"
           b == Parsed("store", F, env, Stores, "libsql")
<1>1. env["store"] \in Stores \cup {Unset}
  BY DEF Refuses, Malformed
<1>2. Unset \notin Stores /\ "libsql" \in Stores
  BY TextAssumption DEF Stores
<1>3. i = b
  <2>1. CASE env["store"] # Unset
    BY <1>1, <1>2, <2>1 DEF Parsed, Layered
  <2>2. CASE env["store"] = Unset /\ F["store"] \in Stores
    BY <1>2, <2>2 DEF Parsed, Layered
  <2>3. CASE env["store"] = Unset /\ F["store"] \notin Stores
    BY <1>2, <2>3 DEF Parsed, Layered
  <2> QED BY <2>1, <2>2, <2>3
<1> DEFINE store(x) == [backend |-> x,
                        at |-> IF x = "postgres" THEN Layered("databaseUrl", F, env, "")
                               ELSE Layered("libsqlPath", F, env, DefaultPath)]
<1>4. Infrastructure(F, env) =
        [storage |-> store(i), bindAddr |-> Layered("bindAddr", F, env, DefaultBind),
         port |-> Parsed("port", F, env, Ports, DefaultPort)]
  BY DEF Infrastructure
<1>5. /\ Loaded(F, env).storage = store(b)
      /\ Loaded(F, env).bindAddr = Layered("bindAddr", F, env, DefaultBind)
      /\ Loaded(F, env).port = Parsed("port", F, env, Ports, DefaultPort)
  BY DEF Loaded, LoadedStorage
<1> HIDE DEF i, b, store
<1> QED BY <1>3, <1>4, <1>5

(* After the terminal's setup the server finds what setup left, whatever was *)
(* typed, for every catalog, every file to start from and every environment *)
(* to restart in.                                                           *)
THEOREM SetupIsFound == WizardSpec => []RestartFindsSetup
<1>1. WInv /\ VInv => RestartFindsSetup
  <2> SUFFICES ASSUME WInv, VInv, Terminal, phase = "done", StorageOf(answers).at # ""
               PROVE  /\ Refuses(file, NoEnv) = ~Usable(answers)
                      /\ ~Refuses(file, NoEnv) =>
                           LET c == Loaded(file, NoEnv) IN
                           /\ c.storage \in accounts
                           /\ c.mode = rows.mode
                           /\ Normalize(c.embedder) = rows.embedder
                           /\ c.mode = "llm" => c.llm = rows.llm
                           /\ Issues(c) = {}
                      /\ \A env \in Environments :
                           ~Refuses(file, env) /\ ~Cloud(env) =>
                             Infrastructure(file, env) =
                               [storage |-> Loaded(file, env).storage,
                                bindAddr |-> Loaded(file, env).bindAddr,
                                port |-> Loaded(file, env).port]
    BY DEF RestartFindsSetup
  <2> DEFINE a == answers
             p == probed
  <2>1. PathInv /\ FileInv /\ ValuesInv /\ OutcomeInv
    BY DEF WInv, VInv
  <2>2. Chosen(a)
    BY <2>1, AllChosen
  <2>3. file = FileOf(a, p)
    BY <2>1 DEF FileInv
  <2>4. StorageOf(a) \in accounts
    BY <2>1 DEF OutcomeInv
  <2>5. PICK old : rows = Persisted(old, a)
    BY <2>1 DEF OutcomeInv
  <2>6. /\ rows.mode = a.mode /\ rows.embedder = Normalize(EmbedderOf(a))
        /\ a.mode = "llm" => rows.llm = LlmOf(a)
    BY <2>2, <2>5, RowsOf
  <2>7. Refuses(file, NoEnv) <=> ~Usable(a)
    BY <2>2, <2>3, LoadsIfUsable
  <2>8. ASSUME ~Refuses(file, NoEnv)
        PROVE  LET c == Loaded(file, NoEnv) IN
               /\ c.storage \in accounts
               /\ c.mode = rows.mode
               /\ Normalize(c.embedder) = rows.embedder
               /\ c.mode = "llm" => c.llm = rows.llm
               /\ Issues(c) = {}
    <3> DEFINE c == Loaded(file, NoEnv)
    <3>1. Usable(a)
      BY <2>7, <2>8
    <3>2. c.storage \in accounts
      <4>1. c.storage = LoadedStorage(file, NoEnv)
        BY DEF Loaded
      <4> QED BY <2>2, <2>3, <2>4, <4>1, LoadedStore
    <3>3. c.mode = a.mode /\ c.embedder = EmbedderOf(a) /\ (c.mode = "llm" => c.llm = LlmOf(a))
      BY <2>2, <2>3, <3>1, LoadedProviders
    <3>4. Issues(c) = {}
      BY <2>2, <2>3, <3>1, NoIssues
    <3> HIDE DEF c
    <3>5. /\ c.mode = rows.mode /\ Normalize(c.embedder) = rows.embedder
          /\ c.mode = "llm" => c.llm = rows.llm
      BY <2>6, <3>3
    <3> QED BY <3>2, <3>4, <3>5 DEF c
  <2>9. ASSUME NEW env \in Environments, ~Refuses(file, env), ~Cloud(env)
         PROVE  Infrastructure(file, env) =
                  [storage |-> Loaded(file, env).storage, bindAddr |-> Loaded(file, env).bindAddr,
                   port |-> Loaded(file, env).port]
    BY <2>9, ReadersAgree
  <2>10. Refuses(file, NoEnv) \in BOOLEAN /\ Usable(a) \in BOOLEAN
    BY DEF Refuses, Usable
  <2>11. Refuses(file, NoEnv) = ~Usable(answers)
    BY <2>7, <2>10
  <2> QED BY <2>8, <2>9, <2>11
<1> QED BY <1>1, WizardInvariance, PTL
=============================================================================
