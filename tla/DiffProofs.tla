----------------------------- MODULE DiffProofs ------------------------------
(***************************************************************************)
(* A diff of any outputs, repositories, workers and commits, and the       *)
(* comment it leaves: a verdict is of its own tree, a comment is complete, *)
(* no thread outlives its diff, and what the comment leaves out is noise,  *)
(* a line without a key or named in its summary.  And for any number of    *)
(* diffs, retries, tokens, pages and comments of a pull request: an        *)
(* operation refused its token never comes back to it unless idcat hands   *)
(* it out again, a second comment is posted only if one may have been      *)
(* missed, and otherwise the newest is edited.                             *)
(***************************************************************************)
EXTENDS DiffGeneration, PullRequestComment, SequenceTheorems, WellFoundedInduction, TLAPS

(***************************************************************************)
(* DiffGeneration                                                          *)
(***************************************************************************)

\* An edit of a hunk is as a hunk's edits are.
LEMMA EditIsTyped ==
  ASSUME NEW diff \in Diffs, NEW h \in diff, NEW e \in h.edits
  PROVE  /\ e \in EditedLine
         /\ e.path \in Seq(STRING) \ {<<>>}
         /\ e.from \in Nat \ {0}
         /\ e.keyed => e.from <= Len(e.path) /\ (e.from = 1 \/ h.labelled)
         /\ ~e.keyed => e.from <= Len(e.path) + 1
         /\ e.keyed \in BOOLEAN /\ h.labelled \in BOOLEAN
<1>1. h \in Hunk
  BY ManifestDiffAssumption
<1>2. e \in EditedLine
  BY <1>1 DEF Hunk
<1>3. IF e.keyed THEN e.from <= Len(e.path) /\ (e.from = 1 \/ h.labelled)
      ELSE e.from <= Len(e.path) + 1
  BY ManifestDiffAssumption
<1>4. e.path \in Path
  BY <1>2 DEF EditedLine
<1>5. e.path \in Seq(STRING) \ {<<>>}
  BY <1>4, ManifestDiffAssumption
<1> QED
  BY <1>1, <1>2, <1>3, <1>5 DEF EditedLine, Hunk

\* Reading an edit's path yields a path again.
LEMMA SeenIsPath ==
  ASSUME NEW diff \in Diffs, NEW h \in diff, NEW e \in h.edits
  PROVE  Seen(h, e) \in Seq(STRING)
<1>1. e.path \in Seq(STRING) \ {<<>>} /\ e.from \in Nat \ {0}
  BY EditIsTyped
<1>2. SubSeq(e.path, e.from, Len(e.path)) \in Seq(STRING)
  BY <1>1, EditIsTyped
<1>3. (IF h.labelled THEN <<e.path[1]>> ELSE <<>>) \in Seq(STRING)
  <2>1. <<e.path[1]>> \in Seq(STRING) /\ <<>> \in Seq(STRING)
    BY <1>1
  <2> QED
    BY <2>1
<1>4. CASE e.from = 1
  BY <1>1, <1>4 DEF Seen
<1>5. CASE e.from # 1
  BY <1>2, <1>3, <1>5, ConcatProperties DEF Seen
<1> QED
  BY <1>4, <1>5

\* The path of a key is read as one that ends in its name.
LEMMA SeenKeepsName ==
  ASSUME NEW diff \in Diffs, NEW h \in diff, NEW e \in h.edits, e.keyed
  PROVE  Seen(h, e) # <<>> /\ Name(Seen(h, e)) = Name(e.path)
<1> DEFINE p == e.path
           rest == SubSeq(p, e.from, Len(p))
<1>1. /\ p \in Seq(STRING) \ {<<>>} /\ e.from \in Nat \ {0}
      /\ e.from <= Len(p) /\ (e.from = 1 \/ h.labelled)
  BY EditIsTyped
<1>2. CASE e.from = 1
  BY <1>1, <1>2 DEF Seen
<1>3. CASE e.from # 1
  <2>1. h.labelled
    BY <1>1, <1>3
  <2>2. Seen(h, e) = <<p[1]>> \o rest
    BY <1>3, <2>1 DEF Seen
  <2>3. /\ rest \in Seq(STRING) /\ Len(rest) = Len(p) - e.from + 1
        /\ rest[Len(p) - e.from + 1] = p[e.from + (Len(p) - e.from + 1) - 1]
    <3>1. /\ e.from \in Int /\ Len(p) \in Int /\ e.from <= Len(p)
          /\ \A i \in e.from..Len(p) : p[i] \in STRING
      BY <1>1
    <3>2. /\ rest \in Seq(STRING)
          /\ Len(rest) = IF e.from <= Len(p) THEN Len(p) - e.from + 1 ELSE 0
          /\ \A i \in 1..(Len(p) - e.from + 1) : rest[i] = p[e.from + i - 1]
      <4> HIDE DEF p
      <4> QED
        BY <3>1, SubSeqProperties
    <3> HIDE DEF p, rest
    <3> QED
      BY <1>1, <3>2
  <2>4. e.from + (Len(p) - e.from + 1) - 1 = Len(p) /\ Len(rest) >= 1
    BY <1>1, <2>3
  <2>5. <<p[1]>> \in Seq(STRING) /\ Len(<<p[1]>>) = 1
    BY <1>1
  <2>6. /\ Len(<<p[1]>> \o rest) = 1 + Len(rest)
        /\ (<<p[1]>> \o rest)[1 + Len(rest)] = rest[Len(rest)]
    <3>1. /\ Len(<<p[1]>> \o rest) = Len(<<p[1]>>) + Len(rest)
          /\ \A i \in 1..(Len(<<p[1]>>) + Len(rest)) :
               (<<p[1]>> \o rest)[i] = IF i <= Len(<<p[1]>>) THEN <<p[1]>>[i]
                                        ELSE rest[i - Len(<<p[1]>>)]
      BY <2>3, <2>5, ConcatProperties
    <3>2. Len(rest) \in Nat /\ Len(rest) >= 1
      BY <2>3, <2>4
    <3> HIDE DEF rest
    <3> QED
      BY <2>5, <3>1, <3>2
  <2>7. Name(Seen(h, e)) = p[Len(p)]
    BY <2>2, <2>3, <2>4, <2>6 DEF Name
  <2>8. <<p[1]>> \o rest # <<>>
    BY <2>3, <2>4, <2>6
  <2> QED
    BY <2>2, <2>7, <2>8 DEF Name
<1> QED
  BY <1>2, <1>3

\* Only in a hunk with a label is a key read otherwise than it is written.
LEMMA SeenUnlabelled ==
  ASSUME NEW diff \in Diffs, NEW h \in diff, NEW e \in h.edits,
         e.keyed, ~h.labelled
  PROVE  Seen(h, e) = e.path
BY EditIsTyped DEF Seen

\* What is below what is below a key is below it.
LEMMA UnderIsTransitive ==
  ASSUME NEW p \in Seq(STRING), NEW q \in Seq(STRING), NEW r \in Seq(STRING),
         Under(p, q), Under(q, r)
  PROVE  Under(p, r)
BY DEF Under

\* A key goes together with all that changed below it.
LEMMA BelowGoesToo ==
  ASSUME NEW diff \in Diffs, NEW h \in diff, NEW e \in h.edits, NEW suppress,
         Seen(h, e) \in OnlyNoiseBelow(h, suppress),
         NEW f \in h.edits, Under(Seen(h, e), Seen(h, f))
  PROVE  f \in LeftOut(h, suppress)
<1> DEFINE p == Seen(h, e)
           q == Seen(h, f)
<1>1. q \in Below(h, p)
  <2>1. q # <<>>
    BY SeenIsPath DEF Under
  <2> QED
    BY <2>1 DEF Below, SeenPaths
<1>2. CASE q \in Noise(h, suppress)
  BY <1>2 DEF LeftOut, Suppressed
<1>3. CASE Below(h, q) # {}
  <2>1. \A r \in Below(h, q) : r \in Below(h, p)
    BY SeenIsPath, UnderIsTransitive DEF Below, SeenPaths
  <2>2. q \in OnlyNoiseBelow(h, suppress)
    BY <1>1, <1>3, <2>1 DEF OnlyNoiseBelow, Below
  <2> QED
    BY <2>2 DEF LeftOut, Suppressed
<1> QED
  BY <1>1, <1>2, <1>3 DEF OnlyNoiseBelow

\* What a suppressed path says of the line that has it.
LEMMA SuppressedIsNoise ==
  ASSUME NEW diff \in Diffs, NEW h \in diff, NEW e \in h.edits, NEW suppress,
         Seen(h, e) \in Suppressed(h, suppress), LeftOut(h, suppress) \subseteq h.edits
  PROVE  LET seen == Seen(h, e)
             below == {f \in h.edits : Under(seen, Seen(h, f))}
         IN  /\ seen # <<>>
             /\ \/ Name(seen) \in Checksums
                \/ (IF e.keyed THEN e.path ELSE seen) \in suppress
                \/ h.labelled /\ e.keyed /\ Name(e.path) \in {Name(p) : p \in suppress}
                \/ below # {} /\ below \subseteq LeftOut(h, suppress)
<1> DEFINE seen == Seen(h, e)
           below == {f \in h.edits : Under(seen, Seen(h, f))}
<1>1. seen # <<>>
  BY DEF Suppressed, Noise, OnlyNoiseBelow, SeenPaths
<1>2. CASE Name(seen) \in Checksums
  BY <1>1, <1>2
<1>3. CASE seen \in suppress
  <2>1. CASE ~e.keyed
    BY <1>1, <1>3, <2>1
  <2>2. CASE e.keyed /\ h.labelled
    <3>1. Name(e.path) \in {Name(p) : p \in suppress}
      BY <1>3, <2>2, SeenKeepsName
    <3> QED
      BY <1>1, <2>2, <3>1
  <2>3. CASE e.keyed /\ ~h.labelled
    BY <1>1, <1>3, <2>3, SeenUnlabelled
  <2> QED
    BY <2>1, <2>2, <2>3, EditIsTyped
<1>4. CASE seen \in OnlyNoiseBelow(h, suppress)
  <2>1. below # {}
    BY <1>4 DEF OnlyNoiseBelow, Below, SeenPaths
  <2>2. below \subseteq LeftOut(h, suppress)
    BY <1>4, BelowGoesToo
  <2> QED
    BY <1>1, <2>1, <2>2
<1> QED
  BY <1>2, <1>3, <1>4 DEF Suppressed, Noise

\* What is hidden of any diff is noise or named in its summary.
LEMMA FilterHidesNoiseOnly ==
  ASSUME NEW diff \in Diffs
  PROVE  HidesNoiseOnly(diff)
<1> DEFINE named == SuppressPaths(diff)
<1> SUFFICES ASSUME NEW h \in diff, NEW e \in Hidden(diff, h)
             PROVE  LET seen == Seen(h, e)
                        below == {f \in h.edits : Under(seen, Seen(h, f))}
                    IN  IF seen = <<>> THEN ~e.keyed /\ Hidden(diff, h) = h.edits
                        ELSE \/ Name(seen) \in Checksums
                             \/ (IF e.keyed THEN e.path ELSE seen) \in named
                             \/ /\ h.labelled /\ e.keyed
                                /\ Name(e.path) \in {Name(p) : p \in named}
                             \/ below # {} /\ below \subseteq Hidden(diff, h)
  BY DEF HidesNoiseOnly
<1> DEFINE whole == SeenPaths(h) # {} /\ SeenPaths(h) \subseteq Suppressed(h, named)
<1>1. /\ LeftOut(h, named) \subseteq h.edits
      /\ Hidden(diff, h) = IF whole THEN h.edits ELSE LeftOut(h, named)
      /\ e \in h.edits
  BY DEF Hidden, LeftOut
<1>2. LeftOut(h, named) \subseteq Hidden(diff, h)
  BY <1>1
<1>3. CASE Seen(h, e) = <<>>
  <2>1. ~e.keyed
    BY <1>1, <1>3, SeenKeepsName
  <2>2. Seen(h, e) \notin Suppressed(h, named)
    BY <1>3 DEF Suppressed, Noise, OnlyNoiseBelow, SeenPaths
  <2>3. e \notin LeftOut(h, named)
    BY <2>1, <2>2 DEF LeftOut
  <2> QED
    BY <1>1, <1>3, <2>1, <2>3
<1>4. CASE Seen(h, e) \in Suppressed(h, named)
  BY <1>1, <1>2, <1>4, SuppressedIsNoise
<1>5. CASE Seen(h, e) # <<>> /\ Seen(h, e) \notin Suppressed(h, named)
  <2>1. ~whole
    BY <1>1, <1>5 DEF SeenPaths
  <2>2. h.labelled /\ e.keyed /\ Name(e.path) \in {Name(p) : p \in named}
    BY <1>1, <1>5, <2>1 DEF LeftOut
  <2> QED
    BY <1>5, <2>2
<1> QED
  BY <1>3, <1>4, <1>5

\* A comment carries a diff that was taken, or none.
CarriesADiff == comment.diff \in Diffs \union {{}}

\* Whatever a diff's hunks, the comment hides only noise and what its summary
\* tells of (smart_manifest_diff).
THEOREM CommentHidesOnlyNoise == Spec => []HidesOnlyNoise
<1>1. Init => CarriesADiff
  BY DEF Init, NoComment, CarriesADiff
<1>2. CarriesADiff /\ [Next]_vars => CarriesADiff'
  <2> SUFFICES ASSUME CarriesADiff, [Next]_vars
               PROVE  CarriesADiff'
    OBVIOUS
  <2>1. CASE RebaseConflicts
    BY <2>1 DEF RebaseConflicts, NoComment, CarriesADiff
  <2>2. CASE Join
    BY <2>2 DEF Join, CarriesADiff
  <2>3. CASE UNCHANGED comment
    BY <2>3 DEF CarriesADiff
  <2>4. ASSUME NEW declared \in Declarations, Select(declared)
        PROVE  UNCHANGED comment
    BY <2>4 DEF Select
  <2>5. ASSUME NEW r \in Repo, TaskStep(r)
        PROVE  UNCHANGED comment
    BY <2>5 DEF TaskStep
  <2>6. ASSUME NEW o \in Output, ValidationStep(o)
        PROVE  UNCHANGED comment
    BY <2>6 DEF ValidationStep
  <2>7. CASE Plan \/ CheckoutSource \/ NoDeployConfig \/ FetchPlugins \/ JoinFails
             \/ Comment
    BY <2>3, <2>7
    DEF Plan, CheckoutSource, NoDeployConfig, FetchPlugins, JoinFails, Comment
  <2>8. CASE UNCHANGED vars
    BY <2>3, <2>8 DEF vars
  <2>9. ASSUME NEW built \in Declarations, SelectSection(built)
        PROVE  UNCHANGED comment
    BY <2>9 DEF SelectSection
  <2> QED
    BY <2>1, <2>2, <2>3, <2>4, <2>5, <2>6, <2>7, <2>8, <2>9
    DEF Next, DiffStep, Ended
<1>3. CarriesADiff => HidesOnlyNoise
  <2>1. HidesNoiseOnly({})
    BY DEF HidesNoiseOnly
  <2> QED
    BY <2>1, FilterHidesNoiseOnly DEF CarriesADiff, HidesOnlyNoise
<1> QED
  BY <1>1, <1>2, <1>3, PTL DEF Spec

-----------------------------------------------------------------------------
(* The invariant of a diff *)

\* The first of some outputs is one of them, before the others.
LEMMA FirstOutputIsFirst ==
  ASSUME NEW S \in SUBSET Output, S # {}
  PROVE  /\ FirstOutput(S) \in S
         /\ \A p \in S : Position[FirstOutput(S)] <= Position[p]
<1> DEFINE places == {Position[o] : o \in S}
<1>1. places \subseteq Nat /\ places # {}
  BY DiffAssumption
<1>2. PICK n \in places : \A m \in places : <<m, n>> \notin OpToRel(<, Nat)
  BY <1>1, NatLessThanWellFounded, WFMin, Zenon
<1>3. PICK o \in S : n = Position[o]
  BY <1>2
<1>4. ASSUME NEW p \in S
      PROVE  Position[o] <= Position[p]
  <2>1. <<Position[p], n>> \in Nat \X Nat /\ Position[p] \in places
    BY <1>1
  <2>2. ~(<<Position[p], n>>[1] < <<Position[p], n>>[2])
    BY <1>2, <2>1, Zenon DEF OpToRel
  <2>3. ~(Position[p] < n)
    BY <2>2
  <2> QED
    BY <1>1, <1>3, <2>1, <2>3
<1> QED
  BY <1>3, <1>4 DEF FirstOutput

\* What a request may reach are outputs.
LEMMA PermittedAreOutputs == TypeOK => Permitted \subseteq Output
BY DiffAssumption DEF TypeOK, Permitted, Handed, Granted, Request

\* A task that is left as it is stays as it should be while no validation is
\* taken back.
LEMMA OtherTasksAsBefore ==
  ASSUME NEW r \in Repo, TaskTakesInOrder(r), CheckoutIsGenerated(r),
         task'[r] = task[r], checkout'[r] = checkout[r], shown'[r] = shown[r],
         selected' = selected, affected' = affected, settings' = settings,
         selected \subseteq Output,
         \A o \in Output :
           validation[o].state # "none" => validation'[o].state # "none"
  PROVE  TaskTakesInOrder(r)' /\ CheckoutIsGenerated(r)'
<1>1. Mine(r)' = Mine(r) /\ Mine(r) \subseteq Output
  BY DEF Mine, OutputsOf
<1>2. Taken(r)' = Taken(r) /\ Taken(r) \subseteq Output
  BY <1>1 DEF Taken
<1>3. Generated(r)' = Generated(r)
  BY <1>2 DEF Generated
<1>4. TaskTakesInOrder(r)'
  BY <1>1, <1>2 DEF TaskTakesInOrder
<1>5. CheckoutIsGenerated(r)'
  BY <1>3 DEF CheckoutIsGenerated
<1> QED
  BY <1>4, <1>5

\* Whatever a step of a task or a validation leaves: the parts of the invariant
\* that only the diff's own thread changes.
LEMMA PoolsKeepTheRest ==
  ASSUME DiffInvariant, pc = "pools",
         UNCHANGED <<choiceVars, pc, selected, comment, failure>>
  PROVE  /\ (selected \subseteq Permitted)'
         /\ NothingYet'
         /\ QuietAfterwards'
         /\ CommentedAfterwards'
         /\ CommentIsComplete'
<1>1. comment.kind # "diff" /\ comment' = comment /\ pc' = "pools"
  BY DEF DiffInvariant, CommentedAfterwards
<1>2. Permitted' = Permitted
  BY DEF choiceVars, Permitted, Handed, Granted
<1> QED
  BY <1>1, <1>2
  DEF DiffInvariant, NothingYet, QuietAfterwards, CommentedAfterwards,
      CommentIsComplete

\* A step of one of the threads that generate.
LEMMA TaskStepKeepsInvariant ==
  ASSUME DiffInvariant, NEW r \in Repo, TaskStep(r)
  PROVE  DiffInvariant'
<1> DEFINE o == FirstOutput(task[r].todo)
<1>1. /\ pc = "pools" /\ pc' = "pools"
      /\ UNCHANGED <<choiceVars, pc, selected, comment, failure>>
      /\ UNCHANGED <<request, settings, affected, flawed>>
  BY DEF TaskStep, choiceVars
<1>2. /\ TypeOK
      /\ selected \subseteq Output
      /\ task \in [Repo -> Task]
      /\ task[r] \in Task
      /\ checkout \in [Repo -> SUBSET Output]
      /\ shown \in [Repo -> SUBSET Output]
      /\ validation \in [Output -> Validation]
  BY DEF DiffInvariant, TypeOK
<1>3. \A s \in Repo : TaskTakesInOrder(s) /\ CheckoutIsGenerated(s)
  BY <1>1 DEF DiffInvariant, PoolsInOrder
<1>4. ValidationOfItsTree
  BY DEF DiffInvariant
<1>5. task[r].todo \subseteq Output
  BY <1>2 DEF Task
<1>6. task[r].todo # {} => /\ o \in task[r].todo
                           /\ \A p \in task[r].todo : Position[o] <= Position[p]
  BY <1>5, FirstOutputIsFirst
<1>7. Mine(r)' = Mine(r) /\ Mine(r) \subseteq Output
  BY <1>1, <1>2 DEF Mine, OutputsOf
<1>8. \A p \in Output : CommittedBy(p)' = CommittedBy(p)
  BY <1>1 DEF CommittedBy
<1> DEFINE OthersStay == \A s \in Repo \ {r} : /\ task'[s] = task[s]
                                               /\ checkout'[s] = checkout[s]
                                               /\ shown'[s] = shown[s]
           TypeStays == /\ task' \in [Repo -> Task]
                        /\ checkout' \in [Repo -> SUBSET Output]
                        /\ shown' \in [Repo -> SUBSET Output]
                        /\ validation' \in [Output -> Validation]
           NoneTakenBack == \A p \in Output :
             validation[p].state # "none" => validation'[p].state # "none"
           Good == /\ TypeStays
                   /\ OthersStay
                   /\ NoneTakenBack
                   /\ TaskTakesInOrder(r)' /\ CheckoutIsGenerated(r)'
                   /\ ValidationOfItsTree'
<1>9. ASSUME validation' = validation
      PROVE  NoneTakenBack /\ ValidationOfItsTree'
  BY <1>1, <1>4, <1>8, <1>9 DEF ValidationOfItsTree
<1>10. ASSUME StartTask(r) PROVE Good
  <2>1. UNCHANGED <<checkout, shown, validation>> /\ task[r].state = "queued"
    BY <1>10 DEF StartTask
  <2>2. task' = [task EXCEPT ![r].state = "cloning"]
    BY <1>10 DEF StartTask
  <2>3. task' \in [Repo -> Task]
    BY <1>2, <2>2 DEF Task
  <2>4. task'[r].state = "cloning" /\ task'[r].todo = task[r].todo
    BY <1>2, <2>2 DEF Task
  <2>5. TypeStays /\ OthersStay
    BY <1>2, <2>1, <2>2, <2>3
  <2>6. Taken(r)' = Taken(r) /\ Generated(r)' = Generated(r)
    BY <1>7, <2>1, <2>4 DEF Taken, Generated
  <2>7. TaskTakesInOrder(r)'
    BY <1>1, <1>3, <1>7, <2>1, <2>4, <2>6 DEF TaskTakesInOrder
  <2>8. CheckoutIsGenerated(r)'
    BY <1>1, <1>3, <2>1, <2>4, <2>6 DEF CheckoutIsGenerated
  <2> QED
    BY <1>9, <2>1, <2>5, <2>7, <2>8
<1>11. ASSUME Clone(r) PROVE Good
  <2> DEFINE next == IF task[r].todo = {} THEN "diffing" ELSE "generating"
  <2>1. UNCHANGED <<checkout, shown, validation>> /\ task[r].state = "cloning"
    BY <1>11 DEF Clone
  <2>2. task' = [task EXCEPT ![r].state = next]
    BY <1>11 DEF Clone
  <2>3. task' \in [Repo -> Task]
    BY <1>2, <2>2 DEF Task
  <2>4. task'[r].state = next /\ task'[r].todo = task[r].todo
    BY <1>2, <2>2 DEF Task
  <2>5. TypeStays /\ OthersStay
    BY <1>2, <2>1, <2>2, <2>3
  <2>6. Taken(r)' = Taken(r) /\ Generated(r)' = Generated(r)
    BY <1>7, <2>1, <2>4 DEF Taken, Generated
  <2>7. TaskTakesInOrder(r)'
    BY <1>1, <1>3, <1>7, <2>1, <2>4, <2>6 DEF TaskTakesInOrder
  <2>8. CheckoutIsGenerated(r)'
    BY <1>1, <1>3, <2>1, <2>4, <2>6 DEF CheckoutIsGenerated
  <2> QED
    BY <1>9, <2>1, <2>5, <2>7, <2>8
<1>12. ASSUME Generate(r) PROVE Good
  <2>1. UNCHANGED <<shown, validation>> /\ task[r].state = "generating"
    BY <1>12 DEF Generate
  <2>2. /\ task' = [task EXCEPT ![r].state = "reading"]
        /\ checkout' = [checkout EXCEPT ![r] = @ \union ({o} \intersect affected)]
    BY <1>12 DEF Generate
  <2>3. task[r].todo # {}
    BY <1>3, <2>1 DEF TaskTakesInOrder
  <2>4. task' \in [Repo -> Task] /\ checkout' \in [Repo -> SUBSET Output]
    BY <1>2, <1>5, <1>6, <2>2, <2>3 DEF Task
  <2>5. task'[r].state = "reading" /\ task'[r].todo = task[r].todo
    BY <1>2, <2>2 DEF Task
  <2>6. TypeStays /\ OthersStay
    BY <1>2, <2>1, <2>2, <2>4
  <2>7. Taken(r)' = Taken(r)
    BY <1>7, <2>5 DEF Taken
  <2>8. Generated(r) = Taken(r) /\ Generated(r)' = Taken(r) \union {o}
    BY <2>1, <2>5, <2>7 DEF Generated
  <2>9. TaskTakesInOrder(r)'
    BY <1>1, <1>3, <1>7, <2>1, <2>3, <2>5, <2>7 DEF TaskTakesInOrder
  <2>10. checkout'[r] = Generated(r)' \intersect affected
    BY <1>2, <1>3, <2>1, <2>2, <2>8 DEF CheckoutIsGenerated
  <2>11. CheckoutIsGenerated(r)'
    BY <1>1, <1>3, <2>1, <2>5, <2>10 DEF CheckoutIsGenerated
  <2> QED
    BY <1>9, <2>1, <2>6, <2>9, <2>11
<1>13. ASSUME Submit(r) PROVE Good
  <2> DEFINE rest == task[r].todo \ {o}
             next == IF rest = {} THEN "diffing" ELSE "generating"
             submitted == [state |-> "queued", tree |-> TreeOf(o)]
  <2>1. UNCHANGED <<checkout, shown>> /\ task[r].state = "reading"
    BY <1>13 DEF Submit
  <2>2. /\ validation' = IF settings.validator
                           THEN [validation EXCEPT ![o] = submitted]
                           ELSE validation
        /\ task' = [task EXCEPT ![r] = [state |-> next, todo |-> rest]]
    BY <1>13 DEF Submit
  <2>3. task[r].todo # {} /\ o \in task[r].todo /\ o \in Output
    BY <1>3, <1>5, <1>6, <2>1 DEF TaskTakesInOrder
  <2>4. task' \in [Repo -> Task]
    BY <1>2, <1>5, <2>2 DEF Task
  <2>5. submitted \in Validation
    BY <1>2, <2>3, DiffAssumption DEF Validation, TreeOf
  <2>6. validation' \in [Output -> Validation]
    BY <1>2, <2>2, <2>5
  <2>7. TypeStays /\ OthersStay
    BY <1>2, <2>1, <2>2, <2>4, <2>6
  <2>8. task'[r].state = next /\ task'[r].todo = rest
    BY <1>2, <2>2
  <2>9. \A p \in Output :
          validation'[p] = IF settings.validator /\ p = o
                             THEN submitted ELSE validation[p]
    BY <1>2, <2>2
  <2>10. NoneTakenBack
    BY <2>9
  <2>11. task[r].todo \subseteq Mine(r)
    BY <1>3 DEF TaskTakesInOrder
  <2>12. Taken(r)' = Taken(r) \union {o}
    BY <1>7, <2>3, <2>8, <2>11 DEF Taken
  <2>13. Generated(r) = Taken(r) \union {o} /\ Generated(r)' = Taken(r) \union {o}
    BY <2>1, <2>8, <2>12 DEF Generated
  <2>14. /\ \A p \in Taken(r)' : \A q \in rest : Position[p] <= Position[q]
         /\ settings.validator =>
              \A p \in Taken(r)' : validation'[p].state # "none"
    <3>1. \A p \in Taken(r) : \A q \in task[r].todo : Position[p] <= Position[q]
      BY <1>3 DEF TaskTakesInOrder
    <3>2. \A p \in Taken(r) :
            p \in Output /\ (settings.validator => validation[p].state # "none")
      BY <1>3, <1>7 DEF TaskTakesInOrder, Taken
    <3> QED
      BY <1>6, <2>3, <2>9, <2>12, <3>1, <3>2
  <2>15. TaskTakesInOrder(r)'
    <3>1. task'[r].todo \subseteq Mine(r)'
      BY <1>7, <2>8, <2>11
    <3> QED
      BY <1>1, <2>8, <2>14, <3>1 DEF TaskTakesInOrder
  <2>16. checkout[r] = (Taken(r) \union {o}) \intersect affected
    BY <1>3, <2>1, <2>13 DEF CheckoutIsGenerated
  <2>17. CheckoutIsGenerated(r)'
    BY <1>1, <1>3, <2>1, <2>8, <2>13, <2>16 DEF CheckoutIsGenerated
  <2>18. TreeOf(o) = CommittedBy(o)
    <3>1. RepoOf[o] = r /\ o \in selected
      BY <2>3, <2>11 DEF Mine, OutputsOf
    <3>6. \A p \in settings.within[o] : p \in Output => RepoOf[p] = r
      BY <1>2, <2>3, <3>1, DiffAssumption DEF TypeOK
    <3>2. \A p \in Taken(r) : p \in Mine(r) /\ Position[p] <= Position[o]
      BY <1>3, <2>3 DEF TaskTakesInOrder, Taken
    <3>3. \A p \in Mine(r) :
            Position[p] <= Position[o] => p \in Taken(r) \union {o}
      <4> SUFFICES ASSUME NEW p \in Mine(r), Position[p] <= Position[o],
                          p \in task[r].todo
                   PROVE  p = o
        BY DEF Taken
      <4>1. Position[o] <= Position[p]
        BY <1>6, <2>3
      <4>2. p \in Output /\ Position[p] \in Nat /\ Position[o] \in Nat
        BY <1>7, <2>3, DiffAssumption
      <4>3. Position[o] = Position[p]
        BY <4>1, <4>2
      <4> QED
        BY <2>3, <4>2, <4>3, DiffAssumption
    <3>4. Position[o] <= Position[o]
      BY <2>3, DiffAssumption
    <3>5. \A p \in Output : p \in Mine(r) <=> p \in selected /\ RepoOf[p] = r
      BY <1>2 DEF Mine, OutputsOf
    <3> QED
      BY <1>2, <1>7, <2>3, <2>16, <3>1, <3>2, <3>3, <3>4, <3>5, <3>6
      DEF CommittedBy, TreeOf
  <2>19. ValidationOfItsTree'
    BY <1>1, <1>4, <1>8, <2>9, <2>18 DEF ValidationOfItsTree
  <2> QED
    BY <2>7, <2>10, <2>15, <2>17, <2>19
<1>14. ASSUME TakeDiff(r) PROVE Good
  <2>1. UNCHANGED <<checkout, validation>> /\ task[r].state = "diffing"
    BY <1>14 DEF TakeDiff
  <2>2. /\ task' = [task EXCEPT ![r].state = "ok"]
        /\ shown' = [shown EXCEPT ![r] = checkout[r]]
    BY <1>14 DEF TakeDiff
  <2>3. task' \in [Repo -> Task] /\ shown' \in [Repo -> SUBSET Output]
    BY <1>2, <2>2 DEF Task
  <2>4. task'[r].state = "ok" /\ task'[r].todo = task[r].todo
    BY <1>2, <2>2 DEF Task
  <2>5. TypeStays /\ OthersStay
    BY <1>2, <2>1, <2>2, <2>3
  <2>6. Taken(r)' = Taken(r) /\ Generated(r)' = Generated(r)
    BY <1>7, <2>1, <2>4 DEF Taken, Generated
  <2>7. TaskTakesInOrder(r)'
    BY <1>1, <1>3, <1>7, <2>1, <2>4, <2>6 DEF TaskTakesInOrder
  <2>8. CheckoutIsGenerated(r)'
    BY <1>1, <1>2, <1>3, <2>1, <2>2, <2>4, <2>6 DEF CheckoutIsGenerated
  <2> QED
    BY <1>9, <2>1, <2>5, <2>7, <2>8
<1>15. ASSUME TaskFails(r) PROVE Good
  <2>1. UNCHANGED <<checkout, shown, validation>> /\ task[r].state # "none"
    BY <1>15 DEF TaskFails, Active, InState
  <2>2. task' = [task EXCEPT ![r].state = "failed"]
    BY <1>15 DEF TaskFails
  <2>3. task' \in [Repo -> Task]
    BY <1>2, <2>2 DEF Task
  <2>4. task'[r].state = "failed" /\ task'[r].todo = task[r].todo
    BY <1>2, <2>2 DEF Task
  <2>5. TypeStays /\ OthersStay
    BY <1>2, <2>1, <2>2, <2>3
  <2>6. Taken(r)' = Taken(r)
    BY <1>7, <2>4 DEF Taken
  <2>7. TaskTakesInOrder(r)'
    BY <1>1, <1>3, <1>7, <2>1, <2>4, <2>6 DEF TaskTakesInOrder
  <2>8. CheckoutIsGenerated(r)'
    BY <2>4 DEF CheckoutIsGenerated
  <2> QED
    BY <1>9, <2>1, <2>5, <2>7, <2>8
<1>16. Good
  BY <1>10, <1>11, <1>12, <1>13, <1>14, <1>15 DEF TaskStep
<1>17. TypeOK'
  <2>1. TypeStays
    BY <1>16
  <2> HIDE DEF Good, TypeStays
  <2> QED
    BY <1>1, <1>2, <2>1 DEF TypeOK, TypeStays
<1>18. PoolsInOrder'
  <2> SUFFICES ASSUME NEW s \in Repo
               PROVE  TaskTakesInOrder(s)' /\ CheckoutIsGenerated(s)'
    BY DEF PoolsInOrder
  <2>1. CASE s = r
    BY <1>16, <2>1
  <2>2. CASE s # r
    BY <1>1, <1>2, <1>3, <1>16, <2>2, OtherTasksAsBefore
  <2> QED
    BY <2>1, <2>2
<1> QED
  BY <1>1, <1>16, <1>17, <1>18, PoolsKeepTheRest DEF DiffInvariant

\* A step of the judging of a tree.
LEMMA ValidationStepKeepsInvariant ==
  ASSUME DiffInvariant, pc = "pools", NEW o \in Output, ValidationStep(o)
  PROVE  DiffInvariant'
<1>1. /\ pc' = "pools"
      /\ UNCHANGED <<choiceVars, pc, selected, comment, failure>>
      /\ UNCHANGED <<request, settings, affected, flawed>>
      /\ UNCHANGED <<task, checkout, shown>>
  BY DEF ValidationStep, choiceVars
<1>2. /\ TypeOK
      /\ selected \subseteq Output
      /\ validation \in [Output -> Validation]
      /\ validation[o] \in Validation
  BY DEF DiffInvariant, TypeOK
<1>3. ValidationOfItsTree
  BY DEF DiffInvariant
<1>4. \A p \in Output : CommittedBy(p)' = CommittedBy(p)
  BY <1>1 DEF CommittedBy
<1>5. PICK state \in {"running"} \union Verdict :
        /\ validation' = [validation EXCEPT ![o].state = state]
        /\ validation[o].state # "none"
        /\ state = "passed" => validation[o].tree \intersect flawed = {}
        /\ state = "failed" => validation[o].tree \intersect flawed # {}
  <2>1. CASE StartValidation(o)
    <3> WITNESS "running" \in {"running"} \union Verdict
    <3> QED
      BY <2>1 DEF StartValidation
  <2>2. CASE EndValidation(o)
    <3>1. PICK verdict \in {VerdictOf(end) : end \in StreamEnds(validation[o].tree)}
                             \union {"nothing", "broken"} :
            validation' = [validation EXCEPT ![o].state = verdict]
      BY <2>2 DEF EndValidation
    <3>2. verdict \in Verdict
      BY <3>1 DEF VerdictOf, StreamEnds, Verdict
    <3>3. /\ verdict = "passed" => validation[o].tree \intersect flawed = {}
          /\ verdict = "failed" => validation[o].tree \intersect flawed # {}
      BY <3>1 DEF VerdictOf, StreamEnds
    <3>4. validation[o].state = "running"
      BY <2>2 DEF EndValidation
    <3> QED
      BY <3>1, <3>2, <3>3, <3>4
  <2> QED
    BY <2>1, <2>2 DEF ValidationStep
<1>6. /\ validation'[o].state = state
      /\ validation'[o].tree = validation[o].tree
      /\ \A p \in Output \ {o} : validation'[p] = validation[p]
  BY <1>2, <1>5 DEF Validation
<1>7. validation' \in [Output -> Validation]
  BY <1>2, <1>5 DEF Validation
<1>8. state # "none"
  BY DEF Verdict
<1>9. TypeOK'
  BY <1>1, <1>2, <1>7 DEF TypeOK
<1>10. ValidationOfItsTree'
  <2> SUFFICES ASSUME NEW p \in Output
               PROVE  /\ validation'[p].state # "none" =>
                           validation'[p].tree = CommittedBy(p)
                      /\ validation'[p].state = "passed" =>
                           validation'[p].tree \intersect flawed = {}
                      /\ validation'[p].state = "failed" =>
                           validation'[p].tree \intersect flawed # {}
    BY <1>1, <1>4 DEF ValidationOfItsTree
  <2>1. CASE p = o
    BY <1>3, <1>5, <1>6, <2>1 DEF ValidationOfItsTree
  <2>2. CASE p # o
    BY <1>3, <1>6, <2>2 DEF ValidationOfItsTree
  <2> QED
    BY <2>1, <2>2
<1>11. PoolsInOrder'
  <2>1. \A p \in Output :
          validation[p].state # "none" => validation'[p].state # "none"
    BY <1>6, <1>8
  <2> SUFFICES ASSUME NEW s \in Repo
               PROVE  TaskTakesInOrder(s)' /\ CheckoutIsGenerated(s)'
    BY DEF PoolsInOrder
  <2>2. TaskTakesInOrder(s) /\ CheckoutIsGenerated(s)
    BY DEF DiffInvariant, PoolsInOrder
  <2> QED
    BY <1>1, <1>2, <2>1, <2>2, OtherTasksAsBefore
<1> QED
  BY <1>1, <1>9, <1>10, <1>11, PoolsKeepTheRest DEF DiffInvariant

\* Trees are judged only while the pools are.
LEMMA JudgedInPools ==
  ASSUME DiffInvariant, NEW o \in Output, ValidationStep(o)
  PROVE  pc = "pools"
<1>1. validation[o].state \in {"queued", "running"}
  BY DEF ValidationStep, StartValidation, EndValidation
<1>2. o \in Validations({"queued", "running"})
  BY <1>1 DEF Validations
<1>3. pc \notin {"comment", "end"}
  BY <1>2 DEF DiffInvariant, QuietAfterwards
<1>4. pc \notin {"plan", "source", "select", "plugins", "section"}
  BY <1>1 DEF DiffInvariant, NothingYet, NoValidation
<1> QED
  BY <1>3, <1>4 DEF DiffInvariant, TypeOK

\* With no task left and none failed, the checkouts show all that is selected.
LEMMA JoinedIsComplete ==
  ASSUME DiffInvariant, Join
  PROVE  CommentIsComplete' /\ comment' \in [kind : {"none", "rebase", "diff"},
                  shows : SUBSET Output, diff : Diffs \union {{}},
                  passed : SUBSET Output]
<1> DEFINE shows == UNION {shown[r] : r \in Repo}
<1>1. PICK diff \in IF shows = {} THEN {{}} ELSE Diffs :
        comment' = [kind |-> "diff", shows |-> shows, diff |-> diff,
                    passed |-> Validations({"passed"})]
  BY DEF Join
<1>2. UNCHANGED <<selected, affected, settings, validation>>
  BY DEF Join, choiceVars
<1>3. /\ TypeOK
      /\ selected \subseteq Output
      /\ task \in [Repo -> Task]
      /\ shown \in [Repo -> SUBSET Output]
      /\ validation \in [Output -> Validation]
  BY DEF DiffInvariant, TypeOK
<1>4. \A r \in Repo : /\ TaskTakesInOrder(r) /\ CheckoutIsGenerated(r)
                      /\ task[r].state \in {"none", "ok"}
  <2> TAKE r \in Repo
  <2>1. TaskTakesInOrder(r) /\ CheckoutIsGenerated(r)
    BY DEF DiffInvariant, PoolsInOrder, Join
  <2>2. /\ r \notin Active /\ r \notin InState({"failed"})
        /\ r \notin InState({"queued"})
    BY DEF Join, TasksFinished
  <2>3. task[r].state \in {"none", "queued", "cloning", "generating", "reading",
                           "diffing", "ok", "failed"}
    BY <1>3 DEF Task
  <2> QED
    BY <2>1, <2>2, <2>3 DEF Active, InState
<1>5. \A r \in Repo : shown[r] = Mine(r) \intersect affected
  <2> TAKE r \in Repo
  <2>1. CASE task[r].state = "none"
    BY <1>4, <2>1 DEF TaskTakesInOrder, CheckoutIsGenerated
  <2>2. CASE task[r].state = "ok"
    <3>1. Generated(r) = Mine(r)
      BY <1>4, <2>2 DEF Generated, Taken, TaskTakesInOrder
    <3> QED
      BY <1>4, <2>2, <3>1 DEF CheckoutIsGenerated
  <2> QED
    BY <1>4, <2>1, <2>2
<1>6. \A o \in selected : RepoOf[o] \in Repo /\ o \in Mine(RepoOf[o])
  BY <1>3, DiffAssumption DEF Mine, OutputsOf
<1>7. shows = selected \intersect affected
  <2>1. \A r \in Repo : shown[r] \subseteq selected \intersect affected
    BY <1>5 DEF Mine
  <2>2. \A o \in selected \intersect affected : o \in shown[RepoOf[o]]
    BY <1>5, <1>6
  <2> QED
    BY <1>6, <2>1, <2>2
<1>8. settings.validator => selected \subseteq Validations(Verdict)
  <2> SUFFICES ASSUME settings.validator, NEW o \in selected
               PROVE  o \in Validations(Verdict)
    OBVIOUS
  <2>1. o \in Output /\ validation[o].state \in {"none", "queued", "running"} \union Verdict
    BY <1>3 DEF Validation
  <2>2. validation[o].state \notin {"queued", "running"}
    BY <2>1 DEF Join, PoolsLeft, Validations
  <2>3. o \in Taken(RepoOf[o])
    BY <1>4, <1>6 DEF TaskTakesInOrder, Taken
  <2>4. validation[o].state # "none"
    BY <1>4, <1>6, <2>3 DEF TaskTakesInOrder
  <2> QED
    BY <2>1, <2>2, <2>4 DEF Validations
<1>9. Validations(Verdict)' = Validations(Verdict)
  BY <1>2 DEF Validations
<1>10. CommentIsComplete'
  BY <1>1, <1>2, <1>7, <1>8, <1>9 DEF CommentIsComplete
<1>11. Validations({"passed"}) \subseteq Output
  BY DEF Validations
<1> QED
  BY <1>1, <1>3, <1>7, <1>10, <1>11

\* A step of the diff's own thread before the pools, whether it goes on or ends
\* the diff.
LEMMA EarlyStepKeepsInvariant ==
  ASSUME DiffInvariant, pc \in {"plan", "source", "select", "plugins", "section"},
         UNCHANGED <<choiceVars, task, checkout, shown, validation>>,
         pc' \in {"source", "select", "plugins", "section", "comment", "end"},
         selected' \subseteq Permitted, failure' \in Failures,
         comment' = comment \/ comment' = [NoComment EXCEPT !.kind = "rebase"]
  PROVE  DiffInvariant'
<1>1. TypeOK /\ NothingYet /\ comment.kind # "diff"
  BY DEF DiffInvariant, CommentedAfterwards
<1>2. UNCHANGED <<request, settings, affected, flawed>>
  BY DEF choiceVars
<1>3. Permitted' = Permitted /\ Permitted \subseteq Output
  BY <1>1, <1>2, PermittedAreOutputs DEF Permitted, Handed, Granted
<1>4. /\ task = [r \in Repo |-> NoTask] /\ task' = task
      /\ validation = [o \in Output |-> NoValidation] /\ validation' = validation
  BY <1>1 DEF NothingYet
<1>5. comment' \in [kind : {"none", "rebase", "diff"},
                    shows : SUBSET Output, diff : Diffs \union {{}},
                    passed : SUBSET Output]
      /\ comment'.kind # "diff"
  <2>1. CASE comment' = comment
    BY <1>1, <2>1 DEF TypeOK
  <2>2. CASE comment' = [NoComment EXCEPT !.kind = "rebase"]
    BY <2>2 DEF NoComment
  <2> QED
    BY <2>1, <2>2
<1>6. pc' \in {"plan", "source", "select", "plugins", "section", "pools",
            "comment", "end"}
  OBVIOUS
<1>7. TypeOK'
  BY <1>1, <1>2, <1>3, <1>5, <1>6 DEF TypeOK
<1>8. NothingYet'
  BY <1>1 DEF NothingYet
<1>9. PoolsInOrder'
  BY DEF PoolsInOrder
<1>10. ValidationOfItsTree'
  BY <1>4 DEF ValidationOfItsTree, NoValidation
<1>11. QuietAfterwards'
  BY <1>4 DEF QuietAfterwards, Active, InState, Validations, NoTask, NoValidation
<1>12. CommentedAfterwards' /\ CommentIsComplete'
  BY <1>5 DEF CommentedAfterwards, CommentIsComplete
<1> QED
  BY <1>3, <1>7, <1>8, <1>9, <1>10, <1>11, <1>12 DEF DiffInvariant

\* The pools begin with no output of a repository taken.
LEMMA PoolsBegin ==
  ASSUME DiffInvariant, pc \in {"plugins", "section"},
         NEW outputs \in SUBSET Permitted, QueueTasks(outputs), selected' = outputs,
         UNCHANGED <<choiceVars, checkout, shown, validation, comment, failure>>
  PROVE  DiffInvariant'
<1> DEFINE begun(r) == [state |-> "queued", todo |-> OutputsOf(r) \intersect outputs]
<1>1. /\ task' = [r \in Repo |-> IF OutputsOf(r) \intersect Permitted = {}
                                 THEN NoTask ELSE begun(r)]
      /\ pc' = "pools"
  BY DEF QueueTasks
<1>2. UNCHANGED <<request, settings, affected, flawed>>
  BY DEF choiceVars
<1>3. comment.kind # "diff"
  BY DEF DiffInvariant, CommentedAfterwards
<1>4. /\ TypeOK
      /\ Permitted \subseteq Output
      /\ checkout = [r \in Repo |-> {}] /\ shown = [r \in Repo |-> {}]
      /\ validation = [o \in Output |-> NoValidation]
  BY PermittedAreOutputs DEF DiffInvariant, NothingYet
<1>5. Permitted' = Permitted
  BY <1>2 DEF Permitted, Handed, Granted
<1>6. task' \in [Repo -> Task]
  BY <1>1 DEF Task, NoTask, OutputsOf
<1>7. TypeOK'
  BY <1>1, <1>2, <1>4, <1>6 DEF TypeOK
<1>8. PoolsInOrder'
  <2> SUFFICES ASSUME NEW r \in Repo
               PROVE  TaskTakesInOrder(r)' /\ CheckoutIsGenerated(r)'
    BY DEF PoolsInOrder
  <2>1. /\ Mine(r)' = OutputsOf(r) \intersect outputs
        /\ checkout'[r] = {} /\ shown'[r] = {}
    BY <1>4 DEF Mine, OutputsOf
  <2>2. task'[r].todo = Mine(r)' /\ task'[r].state \in {"none", "queued"}
    BY <1>1, <2>1 DEF NoTask
  <2>3. task'[r].state = "none" => Mine(r)' = {}
    BY <1>1, <2>1
  <2>4. Taken(r)' = {} /\ Generated(r)' = {}
    BY <2>2 DEF Taken, Generated
  <2> QED
    BY <2>1, <2>2, <2>3, <2>4 DEF TaskTakesInOrder, CheckoutIsGenerated
<1>9. ValidationOfItsTree'
  BY <1>2, <1>4 DEF ValidationOfItsTree, NoValidation
<1>10. /\ NothingYet' /\ QuietAfterwards'
       /\ CommentedAfterwards' /\ CommentIsComplete'
  BY <1>1, <1>3
  DEF NothingYet, QuietAfterwards, CommentedAfterwards, CommentIsComplete
<1> QED
  BY <1>2, <1>4, <1>5, <1>7, <1>8, <1>9, <1>10 DEF DiffInvariant

\* A step after which only the comment is left to make, or nothing.
LEMMA LateStepKeepsInvariant ==
  ASSUME DiffInvariant,
         UNCHANGED <<choiceVars, selected, task, checkout, shown, validation>>,
         Active = {}, Validations({"queued", "running"}) = {},
         pc' \in {"comment", "end"}, failure' \in Failures,
         comment' \in [kind : {"none", "rebase", "diff"},
                       shows : SUBSET Output, diff : Diffs \union {{}},
                       passed : SUBSET Output],
         CommentIsComplete'
  PROVE  DiffInvariant'
<1>1. UNCHANGED <<request, settings, affected, flawed>>
  BY DEF choiceVars
<1>2. Permitted' = Permitted
  BY <1>1 DEF Permitted, Handed, Granted
<1>3. pc' \in {"plan", "source", "select", "plugins", "section", "pools",
            "comment", "end"}
  OBVIOUS
<1>4. TypeOK'
  BY <1>1, <1>3 DEF DiffInvariant, TypeOK
<1>5. NothingYet' /\ PoolsInOrder' /\ CommentedAfterwards'
  BY DEF NothingYet, PoolsInOrder, CommentedAfterwards
<1>6. QuietAfterwards'
  BY DEF QuietAfterwards, Active, InState, Validations
<1>7. ValidationOfItsTree'
  <2>1. \A o \in Output : CommittedBy(o)' = CommittedBy(o)
    BY <1>1 DEF CommittedBy
  <2> QED
    BY <1>1, <2>1 DEF DiffInvariant, ValidationOfItsTree
<1> QED
  BY <1>2, <1>4, <1>5, <1>6, <1>7 DEF DiffInvariant

\* A step of the diff's own thread.
LEMMA DiffStepKeepsInvariant ==
  ASSUME DiffInvariant, DiffStep
  PROVE  DiffInvariant'
<1>1. TypeOK /\ selected \subseteq Permitted
  BY DEF DiffInvariant
<1>2. failure \in Failures
  BY <1>1 DEF TypeOK
<1>3. CASE Plan
  BY <1>1, <1>2, <1>3, EarlyStepKeepsInvariant DEF Plan, Fail, Failures
<1>4. CASE CheckoutSource
  BY <1>1, <1>2, <1>4, EarlyStepKeepsInvariant DEF CheckoutSource, Fail, Failures
<1>5. CASE RebaseConflicts
  BY <1>1, <1>2, <1>5, EarlyStepKeepsInvariant DEF RebaseConflicts
<1>6. ASSUME NEW declared \in Declarations, Select(declared)
      PROVE  DiffInvariant'
  <2>1. selected' \subseteq Permitted
    BY <1>1, <1>6 DEF Select
  <2> QED
    BY <1>2, <1>6, <2>1, EarlyStepKeepsInvariant DEF Select, Fail, Failures
<1>7. CASE NoDeployConfig
  BY <1>1, <1>2, <1>7, EarlyStepKeepsInvariant DEF NoDeployConfig, Fail, Failures
<1>8. CASE FetchPlugins
  <2>1. CASE QueueTasks(selected) /\ UNCHANGED failure
    BY <1>1, <1>8, <2>1, PoolsBegin DEF FetchPlugins
  <2>2. CASE Fail("transport") /\ UNCHANGED task
    BY <1>1, <1>8, <2>2, EarlyStepKeepsInvariant DEF FetchPlugins, Fail, Failures
  <2>3. CASE pc' = "section" /\ UNCHANGED <<task, failure>>
    BY <1>1, <1>2, <1>8, <2>3, EarlyStepKeepsInvariant DEF FetchPlugins
  <2> QED
    BY <1>8, <2>1, <2>2, <2>3 DEF FetchPlugins
<1>14. ASSUME NEW built \in Declarations, SelectSection(built)
       PROVE  DiffInvariant'
  <2>1. CASE built # {} /\ built \subseteq Permitted
    BY <1>14, <2>1, PoolsBegin DEF SelectSection
  <2>2. CASE ~(built # {} /\ built \subseteq Permitted)
    BY <1>1, <1>14, <2>2, EarlyStepKeepsInvariant DEF SelectSection, Fail, Failures
  <2> QED
    BY <2>1, <2>2
<1>9. ASSUME UNCHANGED <<selected, affected, settings, validation, comment>>
      PROVE  CommentIsComplete'
  BY <1>9 DEF DiffInvariant, CommentIsComplete, Validations
<1>10. comment \in [kind : {"none", "rebase", "diff"},
                    shows : SUBSET Output, diff : Diffs \union {{}},
                    passed : SUBSET Output]
  BY <1>1 DEF TypeOK
<1>11. CASE JoinFails
  <2>1. CommentIsComplete'
    BY <1>9, <1>11 DEF JoinFails, choiceVars
  <2> QED
    BY <1>10, <1>11, <2>1, LateStepKeepsInvariant
    DEF JoinFails, TasksFinished, PoolsLeft, Fail, Failures
<1>12. CASE Join
  BY <1>2, <1>12, JoinedIsComplete, LateStepKeepsInvariant
  DEF Join, TasksFinished, PoolsLeft
<1>13. CASE Comment
  <2>1. CommentIsComplete'
    BY <1>9, <1>13 DEF Comment, choiceVars
  <2>2. Active = {} /\ Validations({"queued", "running"}) = {}
    BY <1>13 DEF Comment, DiffInvariant, QuietAfterwards
  <2> QED
    BY <1>2, <1>10, <1>13, <2>1, <2>2, LateStepKeepsInvariant
    DEF Comment, Fail, Failures
<1> QED
  BY <1>3, <1>4, <1>5, <1>6, <1>7, <1>8, <1>11, <1>12, <1>13, <1>14
  DEF DiffStep

\* The invariant holds of every diff: of any outputs in any repositories, any
\* restriction, and any number of threads.
THEOREM DiffHolds == Spec => []DiffInvariant
<1>1. Init => DiffInvariant
  <2> SUFFICES ASSUME Init
               PROVE  DiffInvariant
    OBVIOUS
  <2>1. flawed \subseteq Output
    BY DEF Init
  <2>2. TypeOK
    BY <2>1 DEF Init, TypeOK, Task, NoTask, Validation, NoValidation, Failures,
                NoComment
  <2>3. NothingYet /\ PoolsInOrder /\ QuietAfterwards
    BY DEF Init, NothingYet, PoolsInOrder, QuietAfterwards
  <2>4. ValidationOfItsTree
    BY DEF Init, ValidationOfItsTree, NoValidation
  <2>5. CommentedAfterwards /\ CommentIsComplete
    BY DEF Init, NoComment, CommentedAfterwards, CommentIsComplete
  <2> QED
    BY <2>2, <2>3, <2>4, <2>5 DEF Init, DiffInvariant
<1>2. DiffInvariant /\ [Next]_vars => DiffInvariant'
  <2> SUFFICES ASSUME DiffInvariant, [Next]_vars
               PROVE  DiffInvariant'
    OBVIOUS
  <2>1. CASE DiffStep
    BY <2>1, DiffStepKeepsInvariant
  <2>2. ASSUME NEW r \in Repo, TaskStep(r)
        PROVE  DiffInvariant'
    BY <2>2, TaskStepKeepsInvariant
  <2>3. ASSUME NEW o \in Output, ValidationStep(o)
        PROVE  DiffInvariant'
    BY <2>3, JudgedInPools, ValidationStepKeepsInvariant
  <2>4. CASE UNCHANGED vars
    <3>1. /\ UNCHANGED <<request, settings, affected, flawed>>
          /\ UNCHANGED <<choiceVars, pc, selected, task, checkout, shown,
                         validation, comment, failure>>
      BY <2>4 DEF vars, choiceVars
    <3>2. TypeOK'
      BY <3>1 DEF DiffInvariant, TypeOK
    <3>3. (selected \subseteq Permitted)' /\ NothingYet'
      BY <3>1 DEF DiffInvariant, Permitted, Handed, Granted, NothingYet
    <3>4. PoolsInOrder'
      <4>1. selected \subseteq Output
        BY DEF DiffInvariant, TypeOK
      <4> QED
        BY <3>1, <4>1, OtherTasksAsBefore DEF DiffInvariant, PoolsInOrder
    <3>5. ValidationOfItsTree'
      <4>1. \A o \in Output : CommittedBy(o)' = CommittedBy(o)
        BY <3>1 DEF CommittedBy
      <4> QED
        BY <3>1, <4>1 DEF DiffInvariant, ValidationOfItsTree
    <3>6. QuietAfterwards' /\ CommentedAfterwards' /\ CommentIsComplete'
      BY <3>1 DEF DiffInvariant, QuietAfterwards, CommentedAfterwards,
                  CommentIsComplete, Active, InState, Validations
    <3> QED
      BY <3>2, <3>3, <3>4, <3>5, <3>6 DEF DiffInvariant
  <2> QED
    BY <2>1, <2>2, <2>3, <2>4 DEF Next, Ended
<1> QED
  BY <1>1, <1>2, PTL DEF Spec

\* A verdict is that of the tree its output was generated into, however the two
\* pools interleave (_diff_repository).
THEOREM VerdictsAreOfTheirTrees == Spec => []VerdictIsOfItsTree
<1>1. DiffInvariant => VerdictIsOfItsTree
  BY DEF DiffInvariant, ValidationOfItsTree, VerdictIsOfItsTree
<1> QED
  BY <1>1, DiffHolds, PTL

\* A diff that is commented shows every change to what was selected, and each
\* selected output was judged or could not be (DiffCommentProcessor).
THEOREM CommentsAreComplete == Spec => []CommentIsComplete
<1>1. DiffInvariant => CommentIsComplete
  BY DEF DiffInvariant
<1> QED
  BY <1>1, DiffHolds, PTL

\* None of a diff's threads outlives it, whatever failed (the processor leaves
\* both pools before it returns).
THEOREM NoThreadOutlivesItsDiff == Spec => []NothingRunsOn
<1>1. DiffInvariant => NothingRunsOn
  BY DEF DiffInvariant, QuietAfterwards, NothingRunsOn
<1> QED
  BY <1>1, DiffHolds, PTL

-----------------------------------------------------------------------------
(***************************************************************************)
(* PullRequestComment and InstallationTokens                               *)
(***************************************************************************)

LEMMA TokenInvariantInit == CommentInit => TokenInvariant
  BY TokenAssumption
  DEF CommentInit, TokenInit, TokenInvariant, TokenTypeOK, Op, OpState, Idle,
      KnownTokensIssued, StoringIsAlone, RefusedIsReplaced

-----------------------------------------------------------------------------
(* Each step of an operation keeps the invariant *)

LEMMA LookUpKeeps ==
  ASSUME TokenInvariant, NEW t \in Thread, LookUp(t)
  PROVE  TokenInvariant'
<1>1. PICK state \in {"fetch", "try"} :
        op' = [op EXCEPT ![t] = [@ EXCEPT !.state = state, !.token = cache]]
  BY DEF LookUp
<1>2. TokenTypeOK /\ KnownTokensIssued /\ StoringIsAlone /\ RefusedIsReplaced
  BY DEF TokenInvariant
<1>3. /\ op'[t].state = state
      /\ op'[t].token = cache
      /\ op'[t].refused = op[t].refused
      /\ \A u \in Thread \ {t} : op'[u] = op[u]
  BY <1>1, <1>2 DEF TokenTypeOK, Op
<1>4. UNCHANGED <<cache, issued, reused, refusedUpTo>>
  BY DEF LookUp
<1>5. TokenTypeOK'
  BY <1>1, <1>2, <1>4 DEF TokenTypeOK, Op, OpState
<1>6. KnownTokensIssued'
  BY <1>2, <1>3, <1>4 DEF KnownTokensIssued, TokenTypeOK
<1>7. StoringIsAlone' /\ RefusedIsReplaced'
  BY <1>2, <1>3, <1>4 DEF StoringIsAlone, RefusedIsReplaced
<1> QED
  BY <1>5, <1>6, <1>7 DEF TokenInvariant

LEMMA FetchKeeps ==
  ASSUME TokenInvariant, NEW t \in Thread, Fetch(t)
  PROVE  TokenInvariant'
  BY TokenAssumption
  DEF TokenInvariant, TokenTypeOK, Op, OpState, KnownTokensIssued,
      StoringIsAlone, RefusedIsReplaced, Fetch, Hold

LEMMA StoreKeeps ==
  ASSUME TokenInvariant, NEW t \in Thread, Store(t)
  PROVE  TokenInvariant'
  BY TokenAssumption
  DEF TokenInvariant, TokenTypeOK, Op, OpState, KnownTokensIssued,
      StoringIsAlone, RefusedIsReplaced, Store, To

LEMMA InvalidateKeeps ==
  ASSUME TokenInvariant, NEW t \in Thread, Invalidate(t)
  PROVE  TokenInvariant'
  BY TokenAssumption
  DEF TokenInvariant, TokenTypeOK, Op, OpState, KnownTokensIssued,
      StoringIsAlone, RefusedIsReplaced, Invalidate, StartAgain, Starting

\* An operation that starts knows no token.
LEMMA StartingKeeps ==
  ASSUME TokenInvariant, NEW t \in Thread, op' = [op EXCEPT ![t] = Starting],
         UNCHANGED <<cache, issued, reused, refusedUpTo>>
  PROVE  TokenInvariant'
  BY TokenAssumption
  DEF TokenInvariant, TokenTypeOK, Op, OpState, KnownTokensIssued,
      StoringIsAlone, RefusedIsReplaced, Starting

\* A step that only changes where the operation is, or how often it may still be
\* retried, leaves its tokens alone.
LEMMA MoveKeeps ==
  ASSUME TokenInvariant, NEW t \in Thread, NEW o \in Op,
         o.state # "store", o.token = op[t].token, o.refused = op[t].refused,
         op' = [op EXCEPT ![t] = o],
         UNCHANGED <<cache, issued, reused, refusedUpTo>>
  PROVE  TokenInvariant'
  BY DEF TokenInvariant, TokenTypeOK, KnownTokensIssued, StoringIsAlone,
         RefusedIsReplaced

LEMMA ToKeeps ==
  ASSUME TokenInvariant, NEW t \in Thread, NEW state \in OpState \ {"store"},
         To(t, state), UNCHANGED <<cache, issued, reused, refusedUpTo>>
  PROVE  TokenInvariant'
<1>1. op[t] \in Op
  BY DEF TokenInvariant, TokenTypeOK
<1> DEFINE o == [op[t] EXCEPT !.state = state]
<1>2. /\ o \in Op /\ o.state # "store"
      /\ o.token = op[t].token /\ o.refused = op[t].refused
  BY <1>1 DEF Op
<1>3. op' = [op EXCEPT ![t] = o]
  BY DEF To
<1> HIDE DEF o
<1> QED
  BY <1>2, <1>3, MoveKeeps

LEMMA FailTransientlyKeeps ==
  ASSUME TokenInvariant, NEW t \in Thread, FailTransiently(t)
  PROVE  TokenInvariant'
<1>1. op[t] \in Op
  BY DEF TokenInvariant, TokenTypeOK
<1>2. CASE op[t].retries = 0
  BY <1>2, ToKeeps DEF FailTransiently, OpState
<1>3. CASE op[t].retries # 0
  <2> DEFINE o == [op[t] EXCEPT !.state = "credentials", !.retries = @ - 1]
  <2>1. op[t].retries - 1 \in 0..Retries
    BY <1>1, <1>3, TokenAssumption DEF Op
  <2>2. /\ o \in Op /\ o.state # "store"
        /\ o.token = op[t].token /\ o.refused = op[t].refused
    BY <1>1, <2>1 DEF Op, OpState
  <2>3. op' = [op EXCEPT ![t] = o]
    BY <1>1, <1>3 DEF FailTransiently, TokenInvariant, TokenTypeOK
  <2> HIDE DEF o
  <2> QED
    BY <2>2, <2>3, MoveKeeps DEF FailTransiently
<1> QED
  BY <1>2, <1>3

LEMMA CredentialsKeep ==
  ASSUME TokenInvariant, NEW t \in Thread, CredentialStep(t)
  PROVE  TokenInvariant'
<1>1. CASE FetchFails(t)
  BY <1>1, ToKeeps DEF FetchFails, OpState
<1> QED
  BY <1>1, LookUpKeeps, FetchKeeps, StoreKeeps DEF CredentialStep

LEMMA TriesKeep ==
  ASSUME TokenInvariant, NEW t \in Thread, TryStep(t)
  PROVE  TokenInvariant'
<1>1. CASE Succeed(t)
  BY <1>1, ToKeeps DEF Succeed, OpState
<1>2. CASE Refuse(t)
  BY <1>2, ToKeeps DEF Refuse, OpState
<1>3. CASE FailForGood(t)
  BY <1>3, ToKeeps DEF FailForGood, OpState
<1> QED
  BY <1>1, <1>2, <1>3, FailTransientlyKeeps, InvalidateKeeps DEF TryStep

LEMMA EnvironmentKeeps ==
  ASSUME TokenInvariant, TokenEnvironment
  PROVE  TokenInvariant'
<1>1. CASE Age
  BY <1>1, TokenAssumption
  DEF TokenInvariant, TokenTypeOK, Op, KnownTokensIssued, StoringIsAlone,
      RefusedIsReplaced, Age
<1>2. CASE Revoke
  BY <1>2
  DEF TokenInvariant, TokenTypeOK, KnownTokensIssued, StoringIsAlone,
      RefusedIsReplaced, Revoke
<1> QED
  BY <1>1, <1>2 DEF TokenEnvironment

LEMMA IdleKeeps ==
  ASSUME TokenInvariant, UNCHANGED tokenVars
  PROVE  TokenInvariant'
  BY DEF TokenInvariant, TokenTypeOK, KnownTokensIssued, StoringIsAlone,
         RefusedIsReplaced, tokenVars

-----------------------------------------------------------------------------
LEMMA DiffStepKeeps ==
  ASSUME TokenInvariant, NEW d \in Thread, CommentStep(d)
  PROVE  TokenInvariant'
<1>1. CASE StartClone(d)
  BY <1>1, StartingKeeps DEF StartClone
<1>2. CASE CloneRepo(d)
  BY <1>2, CredentialsKeep, TriesKeep DEF CloneRepo
<1>3. CASE Diff(d)
  <2>1. CASE op' = [op EXCEPT ![d] = Starting]
    BY <1>3, <2>1, StartingKeeps DEF Diff
  <2>2. CASE UNCHANGED op
    BY <1>3, <2>2, IdleKeeps DEF Diff, tokenVars
  <2> QED
    BY <1>3, <2>1, <2>2 DEF Diff
<1>4. CASE Credentials(d)
  BY <1>4, CredentialsKeep DEF Credentials
<1>5. CASE EndClone(d) \/ EndCredentials(d) \/ List(d) \/ ListMalformed(d)
          \/ Write(d) \/ CommentFails(d)
  BY <1>5, IdleKeeps
  DEF EndClone, EndCredentials, List, ListMalformed, GoThrough, Write, CommentFails
<1> QED
  BY <1>1, <1>2, <1>3, <1>4, <1>5 DEF CommentStep

\* The tokens that threads hold, have been refused and share in the cache are
\* always as TokenInvariant says, the types of the cache's state included
\* (InstallationTokenCache, with_fresh_token_on_unauthorized).
THEOREM TokensHold == CommentSpec => []TokenInvariant
<1>1. TokenInvariant /\ [CommentNext]_pullVars => TokenInvariant'
  <2> SUFFICES ASSUME TokenInvariant, [CommentNext]_pullVars PROVE TokenInvariant'
    OBVIOUS
  <2>1. CASE \E d \in Thread : CommentStep(d)
    BY <2>1, DiffStepKeeps
  <2>2. CASE TokenEnvironment /\ UNCHANGED commentVars
    BY <2>2, EnvironmentKeeps
  <2>3. CASE SomebodyPosts \/ SomebodyDeletes \/ CommentsEnded \/ UNCHANGED pullVars
    BY <2>3, IdleKeeps DEF SomebodyPosts, SomebodyDeletes, CommentsEnded, pullVars
  <2> QED
    BY <2>1, <2>2, <2>3 DEF CommentNext
<1> QED
  BY <1>1, TokenInvariantInit, PTL DEF CommentSpec

\* An operation refused its token goes on with another one and never comes back
\* to it, whatever other threads fetch, store and drop meanwhile (git.py,
\* get_or_fetch and invalidate), unless idcat has handed that token out again.
THEOREM RefusedIsAlwaysReplaced == CommentSpec => []RefusedIsReplaced
<1>1. TokenInvariant => RefusedIsReplaced
  BY DEF TokenInvariant
<1> QED
  BY <1>1, TokensHold, PTL

-----------------------------------------------------------------------------
(* The newest marked comment *)

LEMMA NewestIsGreatest ==
  ASSUME NEW S \in SUBSET Id, S # {}
  PROVE  /\ NewestOf(S) \in S
         /\ \A j \in S : j <= NewestOf(S)
<1> DEFINE P == {MaxComments - i : i \in S}
<1>1. MaxComments \in Nat /\ \A i \in S : i \in Nat /\ i <= MaxComments
  BY CommentAssumption DEF Id
<1>2. P \subseteq Nat /\ P # {}
  BY <1>1
<1>3. PICK n \in P : \A m \in P : <<m, n>> \notin OpToRel(<, Nat)
  <2> HIDE DEF P
  <2> QED
    BY <1>2, NatLessThanWellFounded, WFMin, Zenon
<1>4. PICK k \in S : MaxComments - k = n
  BY <1>3
<1>5. ASSUME NEW j \in S
      PROVE  j <= k
  <2> DEFINE m == MaxComments - j
  <2>1. <<m, n>> \in Nat \X Nat /\ m \in P
    BY <1>2, <1>3
  <2>2. ~(<<m, n>>[1] < <<m, n>>[2])
    <3> HIDE DEF m, P
    <3> QED
      BY <1>3, <2>1, Zenon DEF OpToRel
  <2>3. ~(m < n)
    <3> HIDE DEF m
    <3> QED
      BY <2>2
  <2> QED
    BY <1>1, <1>4, <2>3
<1> QED
  BY <1>4, <1>5 DEF NewestOf

\* No other is newest than the one no other is newer than.
LEMMA NewestIsThatOne ==
  ASSUME NEW S \in SUBSET Id, NEW k \in S, \A j \in S : j <= k
  PROVE  NewestOf(S) = k
<1>1. NewestOf(S) \in S /\ k <= NewestOf(S) /\ NewestOf(S) <= k
  BY NewestIsGreatest
<1>2. \A j \in S : j \in Nat
  BY CommentAssumption DEF Id
<1> QED
  BY <1>1, <1>2

\* A comment of a pull request's, as a sequence and each by itself.
LEMMA CommentsAreSequence ==
  ASSUME CommentTypeOK
  PROVE  /\ Len(comments) \in Nat
         /\ DOMAIN comments = 1..Len(comments)
         /\ \A i \in DOMAIN comments :
              comments[i].id \in Id /\ comments[i] \in [id : Id, by : Author]
<1> DEFINE C == [id : Id, by : Author]
<1>1. comments \in Seq(C)
  BY DEF CommentTypeOK
<1>2. \A c \in C : c.id \in Id
  OBVIOUS
<1> HIDE DEF C
<1>3. Len(comments) \in Nat /\ DOMAIN comments = 1..Len(comments)
  BY <1>1
<1>4. \A i \in DOMAIN comments : comments[i] \in C
  BY <1>1, <1>3
<1> QED
  BY <1>2, <1>3, <1>4 DEF C

LEMMA MarkedAreIds ==
  ASSUME CommentTypeOK
  PROVE  /\ MarkedIds(comments) \in SUBSET Id
         /\ \A n : MarkedUpTo(n) \in SUBSET Id
<1>1. \A i \in DOMAIN comments : comments[i].id \in Id
  BY CommentsAreSequence
<1> QED
  BY <1>1 DEF MarkedIds, MarkedUpTo

\* A diff that found the newest of the pages before and takes the newest of the
\* next, if it has any, has found the newest of all of these.
LEMMA NewestOfMorePages ==
  ASSUME CommentTypeOK, IdsAscend, NEW n \in Nat, NEW m \in Nat, n <= m,
         NEW later, later = MarkedUpTo(m) \ MarkedUpTo(n)
  PROVE  NewestOf(MarkedUpTo(m)) =
           IF later = {} THEN NewestOf(MarkedUpTo(n)) ELSE NewestOf(later)
<1>1. MarkedUpTo(n) \subseteq MarkedUpTo(m)
  BY DEF MarkedUpTo, CommentTypeOK
<1>2. CASE later = {}
  BY <1>1, <1>2
<1>3. CASE later # {}
  <2>1. later \in SUBSET Id /\ MarkedUpTo(m) \in SUBSET Id
    BY MarkedAreIds
  <2>2. NewestOf(later) \in later /\ \A j \in later : j <= NewestOf(later)
    BY <1>3, <2>1, NewestIsGreatest
  <2>3. PICK i \in DOMAIN comments :
          i <= m /\ Marked(comments[i]) /\ comments[i].id = NewestOf(later)
    BY <2>2 DEF MarkedUpTo
  <2>4. ~(i <= n)
    BY <2>2, <2>3 DEF MarkedUpTo
  <2>5. ASSUME NEW j \in MarkedUpTo(n)
        PROVE  j <= NewestOf(later)
    <3>1. PICK l \in DOMAIN comments : l <= n /\ comments[l].id = j
      BY DEF MarkedUpTo
    <3>2. l < i
      BY <2>4, <3>1 DEF CommentTypeOK
    <3>3. comments[l].id < comments[i].id
      BY <3>2 DEF IdsAscend
    <3>4. j \in Nat /\ NewestOf(later) \in Nat
      BY <2>1, <2>2, MarkedAreIds, CommentAssumption DEF Id
    <3> QED
      BY <2>3, <3>1, <3>3, <3>4
  <2>6. \A j \in MarkedUpTo(m) : j <= NewestOf(later)
    BY <2>2, <2>5
  <2>7. NewestOf(later) \in MarkedUpTo(m)
    BY <2>2
  <2>8. NewestOf(MarkedUpTo(m)) = NewestOf(later)
    BY <2>1, <2>6, <2>7, NewestIsThatOne
  <2> QED
    BY <1>3, <2>8
<1> QED
  BY <1>2, <1>3

\* Where a page ends among n comments.
LEMMA PageEnds ==
  ASSUME NEW start \in Nat, NEW n \in Nat, start <= n, NEW end,
         end = Min({start + PageSize, n})
  PROVE  /\ end \in Nat /\ start <= end /\ end <= n
         /\ end <= start + PageSize
         /\ end < start + PageSize => end = n
         /\ start + PageSize <= n => end - start = PageSize
         /\ ~(start + PageSize <= n) => end = n
<1>1. PageSize \in Nat
  BY CommentAssumption
<1> DEFINE both == {start + PageSize, n}
<1>2. \E k \in both : \A j \in both : k <= j
  <2>1. CASE start + PageSize <= n
    BY <1>1, <2>1
  <2>2. CASE ~(start + PageSize <= n)
    BY <1>1, <2>2
  <2> QED
    BY <2>1, <2>2
<1>3. end = CHOOSE k \in both : \A j \in both : k <= j
  BY DEF Min
<1>4. end \in both /\ \A j \in both : end <= j
  <2> HIDE DEF both
  <2> QED
    BY <1>2, <1>3
<1>5. (end = start + PageSize \/ end = n) /\ end <= start + PageSize /\ end <= n
  BY <1>4
<1> QED
  BY <1>1, <1>5

\* A part of a sequence.
LEMMA PartOfSequence ==
  ASSUME NEW C, NEW s \in Seq(C), NEW n \in Nat, NEW m \in Nat,
         n <= m, m <= Len(s)
  PROVE  /\ Len(SubSeq(s, n + 1, m)) = m - n
         /\ DOMAIN SubSeq(s, n + 1, m) = 1..(m - n)
         /\ \A i \in 1..(m - n) : SubSeq(s, n + 1, m)[i] = s[n + i]
OBVIOUS

\* What is marked on a page is what is marked up to its end but not before it.
LEMMA MarkedOnPage ==
  ASSUME CommentTypeOK, IdsAscend, NEW start \in Nat, start <= Len(comments),
         NEW end, end = Min({start + PageSize, Len(comments)}),
         NEW seen, seen = SubSeq(comments, start + 1, end)
  PROVE  /\ Len(seen) = end - start
         /\ MarkedIds(seen) = MarkedUpTo(start + PageSize) \ MarkedUpTo(start)
<1>1. /\ PageSize \in Nat /\ Len(comments) \in Nat
      /\ DOMAIN comments = 1..Len(comments)
  BY CommentAssumption, CommentsAreSequence
<1>3. /\ end \in Nat /\ start <= end /\ end <= Len(comments)
      /\ end <= start + PageSize
      /\ end < start + PageSize => end = Len(comments)
  BY <1>1, PageEnds
<1>4. /\ Len(seen) = end - start
      /\ DOMAIN seen = 1..(end - start)
      /\ \A i \in 1..(end - start) : seen[i] = comments[start + i]
  <2> DEFINE C == [id : Id, by : Author]
  <2>1. comments \in Seq(C)
    BY DEF CommentTypeOK
  <2> HIDE DEF C
  <2>2. /\ Len(SubSeq(comments, start + 1, end)) = end - start
        /\ DOMAIN SubSeq(comments, start + 1, end) = 1..(end - start)
        /\ \A i \in 1..(end - start) :
             SubSeq(comments, start + 1, end)[i] = comments[start + i]
    <3>1. end \in Nat /\ start <= end /\ end <= Len(comments)
      BY <1>3
    <3>2. Len(SubSeq(comments, start + 1, end)) = end - start
      BY <2>1, <3>1, PartOfSequence
    <3>3. DOMAIN SubSeq(comments, start + 1, end) = 1..(end - start)
      BY <2>1, <3>1, PartOfSequence
    <3>4. \A i \in 1..(end - start) :
            SubSeq(comments, start + 1, end)[i] = comments[start + i]
      BY <2>1, <3>1, PartOfSequence
    <3> QED
      BY <3>2, <3>3, <3>4
  <2> QED
    BY <2>2, Zenon
<1>5. ASSUME NEW x \in MarkedIds(seen)
      PROVE  x \in MarkedUpTo(start + PageSize) /\ x \notin MarkedUpTo(start)
  <2>1. PICK i \in 1..(end - start) : Marked(seen[i]) /\ x = seen[i].id
    BY <1>4 DEF MarkedIds
  <2>2. /\ start + i \in DOMAIN comments /\ start + i <= start + PageSize
        /\ Marked(comments[start + i]) /\ x = comments[start + i].id
    <3>1. start + i \in 1..Len(comments) /\ start + i <= start + PageSize
      BY <1>1, <1>3
    <3>2. seen[i] = comments[start + i]
      BY <1>4
    <3> QED
      BY <1>1, <2>1, <3>1, <3>2
  <2>3. \A j \in DOMAIN comments : j <= start => comments[j].id # x
    <3> SUFFICES ASSUME NEW j \in DOMAIN comments, j <= start
                 PROVE  comments[j].id # x
      OBVIOUS
    <3>1. j < start + i
      BY <1>1, <1>3, <2>1
    <3>2. comments[j].id < x
      BY <2>2, <3>1 DEF IdsAscend
    <3>3. x \in Id
      BY <2>2, MarkedAreIds DEF MarkedUpTo
    <3>4. x \in Nat
      BY <3>3, CommentAssumption DEF Id
    <3> QED
      BY <3>2, <3>4
  <2> QED
    BY <2>2, <2>3 DEF MarkedUpTo
<1>6. ASSUME NEW x \in MarkedUpTo(start + PageSize), x \notin MarkedUpTo(start)
      PROVE  x \in MarkedIds(seen)
  <2>1. PICK i \in DOMAIN comments : /\ i <= start + PageSize
                                     /\ Marked(comments[i]) /\ x = comments[i].id
    BY DEF MarkedUpTo
  <2>2. ~(i <= start)
    BY <1>6, <2>1 DEF MarkedUpTo
  <2>3. i - start \in 1..(end - start) /\ start + (i - start) = i
    BY <1>1, <1>3, <2>1, <2>2
  <2>4. seen[i - start] = comments[i]
    BY <1>4, <2>3
  <2> QED
    BY <1>4, <2>1, <2>3, <2>4 DEF MarkedIds
<1>7. MarkedIds(seen) = MarkedUpTo(start + PageSize) \ MarkedUpTo(start)
  BY <1>5, <1>6
<1> QED
  BY <1>4, <1>7

-----------------------------------------------------------------------------
(* Each step keeps the invariant of the comments *)

\* A sequence of comments with one more.
LEMMA OneMore ==
  ASSUME NEW C, NEW s \in Seq(C), NEW c \in C
  PROVE  /\ Append(s, c) \in Seq(C)
         /\ Len(Append(s, c)) = Len(s) + 1
         /\ DOMAIN Append(s, c) = 1..(Len(s) + 1)
         /\ \A i \in 1..Len(s) : Append(s, c)[i] = s[i]
         /\ Append(s, c)[Len(s) + 1] = c
OBVIOUS

LEMMA CommentAppended ==
  ASSUME CommentTypeOK, NEW by \in Author, posted < MaxComments,
         comments' = Append(comments, CommentIs(posted + 1, by)),
         posted' = posted + 1
  PROVE  /\ comments' \in Seq([id : Id, by : Author])
         /\ posted' \in 0..MaxComments
         /\ DOMAIN comments' = 1..(Len(comments) + 1)
         /\ Len(comments') = Len(comments) + 1
         /\ \A i \in DOMAIN comments : i \in DOMAIN comments' /\ comments'[i] = comments[i]
         /\ comments'[Len(comments) + 1] = CommentIs(posted + 1, by)
         /\ IdsAscend => IdsAscend'
<1> DEFINE C == [id : Id, by : Author]
           c == CommentIs(posted + 1, by)
<1>1. comments \in Seq(C) /\ posted \in 0..MaxComments
  BY DEF CommentTypeOK
<1>2. posted' \in 0..MaxComments /\ posted + 1 \in Id
  BY <1>1, CommentAssumption DEF Id
<1>3. c \in C /\ c.id = posted + 1
  BY <1>2 DEF CommentIs
<1> HIDE DEF C, c
<1>4. /\ Append(comments, c) \in Seq(C)
      /\ Len(Append(comments, c)) = Len(comments) + 1
      /\ DOMAIN Append(comments, c) = 1..(Len(comments) + 1)
      /\ \A i \in 1..Len(comments) : Append(comments, c)[i] = comments[i]
      /\ Append(comments, c)[Len(comments) + 1] = c
  BY <1>1, <1>3, OneMore, ZenonT(40)
<1>5. comments' = Append(comments, c)
  BY DEF c
<1>6. /\ comments' \in Seq(C)
      /\ Len(comments') = Len(comments) + 1
      /\ DOMAIN comments' = 1..(Len(comments) + 1)
      /\ \A i \in 1..Len(comments) : comments'[i] = comments[i]
      /\ comments'[Len(comments) + 1] = c
  BY <1>4, <1>5, Zenon
<1>7. Len(comments) \in Nat /\ DOMAIN comments = 1..Len(comments)
  BY CommentsAreSequence
<1>8. \A i \in DOMAIN comments : i \in DOMAIN comments' /\ comments'[i] = comments[i]
  BY <1>6, <1>7
<1>9. ASSUME IdsAscend
      PROVE  IdsAscend'
  <2>1. \A i \in DOMAIN comments : comments'[i].id <= posted /\ comments'[i].id \in Nat
    <3>1. \A i \in DOMAIN comments : comments[i].id \in Id
      BY CommentsAreSequence
    <3>2. \A i \in Id : i \in Nat
      BY CommentAssumption DEF Id
    <3> QED
      BY <1>8, <1>9, <3>1, <3>2 DEF IdsAscend
  <2>2. \A i \in DOMAIN comments' : i \in DOMAIN comments \/ i = Len(comments) + 1
    BY <1>6, <1>7
  <2>3. comments'[Len(comments) + 1].id = posted + 1 /\ posted \in Nat
    BY <1>1, <1>3, <1>6
  <2>4. ASSUME NEW i \in DOMAIN comments', NEW j \in DOMAIN comments', i < j
        PROVE  comments'[i].id < comments'[j].id
    <3>1. CASE j \in DOMAIN comments
      <4>1. i \in DOMAIN comments
        BY <1>6, <1>7, <2>4, <3>1
      <4> QED
        BY <1>8, <1>9, <2>4, <3>1, <4>1 DEF IdsAscend
    <3>2. CASE j = Len(comments) + 1
      <4>1. i \in DOMAIN comments
        BY <1>6, <1>7, <2>4, <3>2
      <4> QED
        BY <2>1, <2>3, <3>2, <4>1
    <3> QED
      BY <2>2, <3>1, <3>2
  <2>5. \A i \in DOMAIN comments' : comments'[i].id <= posted'
    BY <2>1, <2>2, <2>3
  <2> QED
    BY <2>4, <2>5 DEF IdsAscend
<1> QED
  BY <1>2, <1>6, <1>8, <1>9 DEF C, c

\* Only where a diff is changes.
LEMMA PlaceMoveKeeps ==
  ASSUME CommentInvariant, TokenInvariant', NEW d \in Thread,
         NEW place \in {"clone", "diff", "credentials", "list", "posted", "failed"},
         Goto(d, place),
         UNCHANGED <<comments, posted, deleted, page, found, missed>>,
         place \in {"clone", "diff", "credentials", "list"} =>
           doing[d] \in {"clone", "diff", "credentials"}
  PROVE  CommentInvariant'
<1>1. /\ CommentTypeOK /\ NotLookedYet
      /\ ~missed => IdsAscend /\ FoundTheNewest
  BY DEF CommentInvariant
<1>2. /\ doing' \in [Thread -> {"clone", "diff", "credentials", "list", "write",
                             "posted", "failed"}]
      /\ doing'[d] = place
      /\ \A e \in Thread \ {d} : doing'[e] = doing[e]
  BY <1>1 DEF CommentTypeOK, Goto
<1>3. CommentTypeOK'
  BY <1>1, <1>2 DEF CommentTypeOK, TokenInvariant
<1>4. NotLookedYet'
  BY <1>1, <1>2 DEF NotLookedYet
<1>5. ASSUME ~missed
      PROVE  IdsAscend' /\ FoundTheNewest'
  <2>1. IdsAscend'
    BY <1>1, <1>5 DEF IdsAscend
  <2>2. /\ \A n : MarkedUpTo(n)' = MarkedUpTo(n)
        /\ MarkedIds(comments)' = MarkedIds(comments)
    BY DEF MarkedUpTo, MarkedIds
  <2>3. ASSUME place = "list"
        PROVE  /\ (page[d] - 1) * PageSize = 0 /\ found[d] = 0
               /\ NewestOf(MarkedUpTo(0)) = 0
               /\ 0 <= Len(comments)
    <3>1. page[d] = 1 /\ found[d] = 0
      BY <1>1, <2>3 DEF NotLookedYet
    <3>2. Len(comments) \in Nat /\ \A i \in DOMAIN comments : ~(i <= 0)
      BY <1>1, CommentsAreSequence
    <3>3. MarkedUpTo(0) = {}
      BY <3>2 DEF MarkedUpTo
    <3> QED
      BY <3>1, <3>2, <3>3, CommentAssumption DEF NewestOf
  <2>4. FoundTheNewest'
    <3> SUFFICES ASSUME NEW e \in Thread
                 PROVE  /\ doing'[e] = "list" =>
                             /\ (page[e] - 1) * PageSize <= Len(comments)
                             /\ found[e] = NewestOf(MarkedUpTo((page[e] - 1) * PageSize))
                        /\ doing'[e] = "write" => found[e] = NewestOf(MarkedIds(comments))
      BY <2>2 DEF FoundTheNewest
    <3>1. CASE e = d
      BY <1>2, <2>3, <3>1
    <3>2. CASE e # d
      BY <1>1, <1>2, <1>5, <3>2 DEF FoundTheNewest
    <3> QED
      BY <3>1, <3>2
  <2> QED
    BY <2>1, <2>4
<1> QED
  BY <1>3, <1>4, <1>5 DEF CommentInvariant

\* Nothing changes but the tokens.
LEMMA OnlyTokensKeep ==
  ASSUME CommentInvariant, TokenInvariant', UNCHANGED commentVars
  PROVE  CommentInvariant'
<1>1. UNCHANGED <<comments, posted, deleted, doing, page, found, missed>>
  BY DEF commentVars
<1>2. CommentTypeOK' /\ NotLookedYet' /\ missed' = missed
  BY <1>1 DEF CommentInvariant, CommentTypeOK, TokenInvariant, NotLookedYet
<1>3. /\ \A n : MarkedUpTo(n)' = MarkedUpTo(n)
      /\ MarkedIds(comments)' = MarkedIds(comments)
  BY <1>1 DEF MarkedUpTo, MarkedIds
<1>4. ~missed => IdsAscend' /\ FoundTheNewest'
  BY <1>1, <1>3 DEF CommentInvariant, IdsAscend, FoundTheNewest
<1> QED
  BY <1>2, <1>4 DEF CommentInvariant

\* The next page starts where a page ends.
LEMMA NextPageStarts ==
  ASSUME NEW p \in Nat, p >= 1, PageSize \in Nat
  PROVE  /\ (p - 1) * PageSize \in Nat
         /\ ((p + 1) - 1) * PageSize = (p - 1) * PageSize + PageSize
OBVIOUS

\* What is marked on a page are ids, wherever the page starts.
LEMMA PageMarksAreIds ==
  ASSUME CommentTypeOK, NEW d \in Thread
  PROVE  MarkedIds(PageOf(d)) \subseteq Id
<1> DEFINE start == (page[d] - 1) * PageSize
           end == Min({start + PageSize, Len(comments)})
           seen == SubSeq(comments, start + 1, end)
<1>4. page[d] \in Nat /\ page[d] >= 1 /\ PageSize \in Nat /\ Len(comments) \in Nat
  BY CommentAssumption, CommentsAreSequence DEF CommentTypeOK
<1>5. start \in Nat
  BY <1>4, NextPageStarts
<1>6. PageOf(d) = seen
  BY DEF PageOf
<1> HIDE DEF start, end, seen
<1>7. MarkedIds(seen) \subseteq Id
  <2>1. comments \in Seq([id : Id, by : Author])
    BY DEF CommentTypeOK
  <2>2. \A i \in DOMAIN seen : seen[i].id \in Id
    <3> DEFINE C == [id : Id, by : Author]
    <3>1. start + 1 \in Nat /\ comments \in Seq(C) /\ \A c \in C : c.id \in Id
      BY <1>5, <2>1
    <3> HIDE DEF C
    <3>2. end \in Nat /\ end <= Len(comments)
      <4>1. CASE start <= Len(comments)
        BY <1>4, <1>5, <4>1, PageEnds DEF end
      <4>2. CASE ~(start <= Len(comments))
        <5>1. ~(start + PageSize <= Len(comments))
          BY <1>4, <1>5, <4>2
        <5> DEFINE both == {start + PageSize, Len(comments)}
        <5>2. \E k \in both : \A j \in both : k <= j
          BY <1>4, <1>5, <5>1
        <5>3. end \in both /\ \A j \in both : end <= j
          <6>1. end = CHOOSE k \in both : \A j \in both : k <= j
            BY DEF end, Min
          <6> HIDE DEF both
          <6> QED
            BY <5>2, <6>1
        <5> QED
          BY <1>4, <1>5, <5>3
      <4> QED
        BY <4>1, <4>2
    <3>3. \A i \in DOMAIN SubSeq(comments, start + 1, end) :
            SubSeq(comments, start + 1, end)[i] \in C
      <4> DEFINE n == start + 1
      <4>1. n \in Nat /\ n >= 1
        BY <1>5
      <4> HIDE DEF n
      <4>2. SubSeq(comments, n, end) \in Seq(C)
        BY <3>1, <3>2, <4>1
      <4>3. DOMAIN SubSeq(comments, n, end) = 1..Len(SubSeq(comments, n, end))
        BY <4>2
      <4>4. \A i \in DOMAIN SubSeq(comments, n, end) : SubSeq(comments, n, end)[i] \in C
        BY <4>2, <4>3
      <4> QED
        BY <4>4 DEF n
    <3> QED
      BY <3>1, <3>3 DEF seen
  <2> QED
    BY <2>2 DEF MarkedIds
<1> QED
  BY <1>6, <1>7

\* A page is gone through, whatever it seems to hold.
LEMMA GoThroughKeeps ==
  ASSUME CommentInvariant, TokenInvariant', NEW d \in Thread, NEW ids \in SUBSET Id,
         NEW length, GoThrough(d, ids, length), missed' \in BOOLEAN
  PROVE  /\ CommentTypeOK' /\ NotLookedYet'
         /\ doing'[d] = IF LastPage(d, length) THEN "write" ELSE "list"
         /\ found'[d] = NewestSeen(d, ids)
         /\ ~LastPage(d, length) => page'[d] = page[d] + 1
         /\ \A e \in Thread \ {d} :
              doing'[e] = doing[e] /\ page'[e] = page[e] /\ found'[e] = found[e]
<1> DEFINE last == LastPage(d, length)
<1>1. /\ doing[d] = "list"
      /\ found' = [found EXCEPT ![d] = NewestSeen(d, ids)]
      /\ last => Goto(d, "write") /\ UNCHANGED page
      /\ ~last => page' = [page EXCEPT ![d] = @ + 1] /\ UNCHANGED doing
      /\ UNCHANGED <<comments, posted, deleted>>
  BY DEF GoThrough
<1>2. CommentTypeOK /\ NotLookedYet
  BY DEF CommentInvariant
<1>3. /\ doing \in [Thread -> {"clone", "diff", "credentials", "list", "write",
                            "posted", "failed"}]
      /\ page \in [Thread -> 1..MaxPages] /\ found \in [Thread -> 0..MaxComments]
  BY <1>2 DEF CommentTypeOK
<1>4. /\ page[d] \in Nat /\ page[d] >= 1 /\ page[d] <= MaxPages
      /\ PageSize \in Nat /\ MaxPages \in Nat
  BY <1>2, <1>3, CommentAssumption
<1>6. ~last => page[d] # MaxPages
  BY DEF LastPage
<1> HIDE DEF last
<1>8. NewestSeen(d, ids) \in 0..MaxComments
  <2>1. CASE ids = {}
    BY <1>3, <2>1 DEF NewestSeen
  <2>2. CASE ids # {}
    <3>1. NewestOf(ids) \in Id
      BY <2>2, NewestIsGreatest
    <3>2. \A i \in Id : i \in 0..MaxComments
      BY CommentAssumption DEF Id
    <3> QED
      BY <2>2, <3>1, <3>2 DEF NewestSeen
  <2> QED
    BY <2>1, <2>2
<1>9. found' \in [Thread -> 0..MaxComments]
  BY <1>1, <1>3, <1>8
<1>10. page' \in [Thread -> 1..MaxPages]
  <2>1. CASE last
    BY <1>1, <1>3, <2>1
  <2>2. CASE ~last
    <3>1. page[d] + 1 \in 1..MaxPages
      BY <1>4, <1>6, <2>2
    <3> QED
      BY <1>1, <1>3, <2>2, <3>1
  <2> QED
    BY <2>1, <2>2
<1>11. /\ doing' \in [Thread -> {"clone", "diff", "credentials", "list", "write",
                              "posted", "failed"}]
       /\ doing'[d] = IF last THEN "write" ELSE "list"
       /\ \A e \in Thread \ {d} : doing'[e] = doing[e]
  BY <1>1, <1>3 DEF Goto
<1>12. \A e \in Thread \ {d} : page'[e] = page[e] /\ found'[e] = found[e]
  BY <1>1, <1>3
<1>14. CommentTypeOK'
  BY <1>1, <1>2, <1>9, <1>10, <1>11 DEF CommentTypeOK, TokenInvariant
<1>15. NotLookedYet'
  BY <1>2, <1>11, <1>12 DEF NotLookedYet
<1>16. found'[d] = NewestSeen(d, ids) /\ (~last => page'[d] = page[d] + 1)
  BY <1>1, <1>3
<1> QED
  BY <1>11, <1>12, <1>14, <1>15, <1>16 DEF last

\* An answer that leaves comments out is gone through.
LEMMA ListMalformedKeeps ==
  ASSUME CommentInvariant, TokenInvariant', NEW d \in Thread, ListMalformed(d)
  PROVE  CommentInvariant'
<1>1. PICK ids \in SUBSET MarkedIds(PageOf(d)), length \in 0..Len(PageOf(d)) :
        GoThrough(d, ids, length)
  BY DEF ListMalformed
<1>2. ids \in SUBSET Id
  BY <1>1, PageMarksAreIds DEF CommentInvariant
<1>3. missed' = TRUE
  BY DEF ListMalformed
<1>4. CommentTypeOK' /\ NotLookedYet'
  BY <1>1, <1>2, <1>3, GoThroughKeeps
<1> QED
  BY <1>3, <1>4 DEF CommentInvariant

\* A page is looked at.
LEMMA ListKeeps ==
  ASSUME CommentInvariant, TokenInvariant', NEW d \in Thread, List(d)
  PROVE  CommentInvariant'
<1> DEFINE start == (page[d] - 1) * PageSize
           end == Min({start + PageSize, Len(comments)})
           seen == SubSeq(comments, start + 1, end)
           last == LastPage(d, Len(seen))
<1>1. /\ doing[d] = "list"
      /\ GoThrough(d, MarkedIds(seen), Len(seen))
      /\ missed' = (missed \/ (page[d] = MaxPages /\ Len(seen) = PageSize))
      /\ UNCHANGED <<comments, posted, deleted>>
  BY DEF List, PageOf, GoThrough
<1>2. /\ CommentTypeOK /\ NotLookedYet
      /\ ~missed => IdsAscend /\ FoundTheNewest
  BY DEF CommentInvariant
<1>4. /\ page[d] \in Nat /\ page[d] >= 1 /\ page[d] <= MaxPages
      /\ PageSize \in Nat /\ MaxPages \in Nat /\ Len(comments) \in Nat
  BY <1>2, CommentAssumption, CommentsAreSequence DEF CommentTypeOK
<1>5. start \in Nat /\ ((page[d] + 1) - 1) * PageSize = start + PageSize
  BY <1>4, NextPageStarts
<1>6. last <=> Len(seen) < PageSize \/ page[d] = MaxPages
  BY DEF LastPage
<1>7. MarkedIds(seen) \in SUBSET Id
  BY <1>2, PageMarksAreIds DEF PageOf
<1>13. missed' \in BOOLEAN /\ (missed => missed')
  BY <1>1, <1>2 DEF CommentTypeOK
<1>3. /\ CommentTypeOK' /\ NotLookedYet'
      /\ doing'[d] = IF last THEN "write" ELSE "list"
      /\ found'[d] = NewestSeen(d, MarkedIds(seen))
      /\ ~last => page'[d] = page[d] + 1
      /\ \A e \in Thread \ {d} :
           doing'[e] = doing[e] /\ page'[e] = page[e] /\ found'[e] = found[e]
  BY <1>1, <1>7, <1>13, GoThroughKeeps
<1> HIDE DEF start, end, seen, last
<1>16. ASSUME ~missed'
       PROVE  IdsAscend' /\ FoundTheNewest'
  <2>1. IdsAscend /\ FoundTheNewest
    BY <1>2, <1>13, <1>16
  <2>2. IdsAscend'
    BY <1>1, <2>1 DEF IdsAscend
  <2>3. start <= Len(comments) /\ found[d] = NewestOf(MarkedUpTo(start))
    BY <1>1, <2>1 DEF FoundTheNewest, start
  <2>4. /\ Len(seen) = end - start
        /\ MarkedIds(seen) = MarkedUpTo(start + PageSize) \ MarkedUpTo(start)
    BY <1>2, <1>5, <2>1, <2>3, MarkedOnPage DEF seen, end
  <2>5. found'[d] = NewestOf(MarkedUpTo(start + PageSize))
    <3>1. found'[d] = NewestSeen(d, MarkedIds(seen))
      BY <1>1, <1>3
    <3>2. start + PageSize \in Nat /\ start <= start + PageSize
      BY <1>4, <1>5
    <3>3. NewestOf(MarkedUpTo(start + PageSize)) =
            IF MarkedIds(seen) = {} THEN NewestOf(MarkedUpTo(start))
                                    ELSE NewestOf(MarkedIds(seen))
      <4>1. start \in Nat
        BY <1>5
      <4> QED
        BY <1>2, <2>1, <2>4, <3>2, <4>1, NewestOfMorePages
    <3> QED
      BY <2>3, <3>1, <3>3 DEF NewestSeen
  <2>6. /\ end \in Nat /\ start <= end /\ end <= Len(comments)
        /\ end <= start + PageSize
        /\ end < start + PageSize => end = Len(comments)
    <3>1. start <= Len(comments)
      BY <2>3
    <3>2. start \in Nat /\ Len(comments) \in Nat
      BY <1>4, <1>5
    <3>3. end = Min({start + PageSize, Len(comments)})
      BY DEF end
    <3>4. end \in Nat /\ start <= end
      BY <3>1, <3>2, <3>3, PageEnds
    <3>5. end <= Len(comments)
      BY <3>1, <3>2, <3>3, PageEnds
    <3>6. end <= start + PageSize
      BY <3>1, <3>2, <3>3, PageEnds
    <3>7. end < start + PageSize => end = Len(comments)
      BY <3>1, <3>2, <3>3, PageEnds
    <3> QED
      BY <3>4, <3>5, <3>6, <3>7
  <2>7. /\ \A n : MarkedUpTo(n)' = MarkedUpTo(n)
        /\ MarkedIds(comments)' = MarkedIds(comments)
    <3>1. comments' = comments
      BY <1>1
    <3>2. MarkedIds(comments)' = MarkedIds(comments)
      BY <3>1
    <3>3. \A n : MarkedUpTo(n)' = MarkedUpTo(n)
      BY <3>1 DEF MarkedUpTo
    <3> QED
      BY <3>2, <3>3
  <2>8. CASE last
    <3>1. Len(seen) # PageSize /\ Len(seen) <= PageSize
      <4>1. Len(seen) <= PageSize
        BY <1>4, <1>5, <2>4, <2>6
      <4>2. ~(page[d] = MaxPages /\ Len(seen) = PageSize)
        BY <1>1, <1>16, <2>8
      <4>3. Len(seen) < PageSize \/ page[d] = MaxPages
        BY <1>6, <2>8
      <4>4. Len(seen) \in Nat
        BY <1>5, <2>4, <2>6
      <4> QED
        BY <1>4, <4>1, <4>2, <4>3, <4>4
    <3>2. Len(comments) <= start + PageSize
      BY <1>4, <1>5, <2>4, <2>6, <3>1
    <3>3. \A i \in DOMAIN comments : i <= start + PageSize
      <4>1. DOMAIN comments = 1..Len(comments)
        BY <1>2, CommentsAreSequence
      <4> QED
        BY <1>4, <1>5, <3>2, <4>1
    <3>4. MarkedUpTo(start + PageSize) = MarkedIds(comments)
      BY <3>3 DEF MarkedUpTo, MarkedIds
    <3>5. FoundTheNewest'
      <4> SUFFICES ASSUME NEW e \in Thread
                   PROVE  /\ doing'[e] = "list" =>
                               /\ (page'[e] - 1) * PageSize <= Len(comments')
                               /\ found'[e] = NewestOf(MarkedUpTo((page'[e] - 1) * PageSize))
                          /\ doing'[e] = "write" => found'[e] = NewestOf(MarkedIds(comments))
        BY <2>7 DEF FoundTheNewest
      <4>1. CASE e = d
        BY <1>3, <2>5, <2>8, <3>4, <4>1
      <4>2. CASE e # d
        BY <1>1, <1>3, <2>1, <4>2 DEF FoundTheNewest
      <4> QED
        BY <4>1, <4>2
    <3> QED
      BY <2>2, <3>5
  <2>9. CASE ~last
    <3>1. ~(Len(seen) < PageSize)
      BY <1>6, <2>9
    <3>2. start + PageSize <= Len(comments)
      BY <1>4, <1>5, <2>4, <2>6, <3>1
    <3>3. (page'[d] - 1) * PageSize = start + PageSize
      <4>1. page'[d] = page[d] + 1
        BY <1>1, <1>3, <2>9
      <4> QED
        BY <1>5, <4>1
    <3>4. FoundTheNewest'
      <4> SUFFICES ASSUME NEW e \in Thread
                   PROVE  /\ doing'[e] = "list" =>
                               /\ (page'[e] - 1) * PageSize <= Len(comments')
                               /\ found'[e] = NewestOf(MarkedUpTo((page'[e] - 1) * PageSize))
                          /\ doing'[e] = "write" => found'[e] = NewestOf(MarkedIds(comments))
        BY <2>7 DEF FoundTheNewest
      <4>1. CASE e = d
        BY <1>1, <1>3, <2>5, <2>9, <3>2, <3>3, <4>1
      <4>2. CASE e # d
        BY <1>1, <1>3, <2>1, <4>2 DEF FoundTheNewest
      <4> QED
        BY <4>1, <4>2
    <3> QED
      BY <2>2, <3>4
  <2> QED
    BY <2>8, <2>9
<1> QED
  BY <1>3, <1>16 DEF CommentInvariant

\* Somebody's comment is not marked.
LEMMA SomebodyPostsAreUnmarked ==
  ASSUME CommentInvariant, SomebodyPosts
  PROVE  /\ comments' \in Seq([id : Id, by : Author])
         /\ posted' \in 0..MaxComments
         /\ Len(comments') = Len(comments) + 1
         /\ IdsAscend => IdsAscend'
         /\ MarkedIds(comments') = MarkedIds(comments)
         /\ \A n : MarkedUpTo(n)' = MarkedUpTo(n)
<1>1. /\ posted < MaxComments
      /\ comments' = Append(comments, CommentIs(posted + 1, "somebody"))
      /\ posted' = posted + 1
      /\ UNCHANGED <<deleted, doing, page, found, missed>>
  BY DEF SomebodyPosts
<1>2. CommentTypeOK
  BY DEF CommentInvariant
<1>3. /\ comments' \in Seq([id : Id, by : Author])
      /\ posted' \in 0..MaxComments
      /\ DOMAIN comments' = 1..(Len(comments) + 1)
      /\ Len(comments') = Len(comments) + 1
      /\ \A i \in DOMAIN comments : i \in DOMAIN comments' /\ comments'[i] = comments[i]
      /\ comments'[Len(comments) + 1] = CommentIs(posted + 1, "somebody")
      /\ IdsAscend => IdsAscend'
  BY <1>1, <1>2, CommentAppended DEF Author
<1>4. Len(comments) \in Nat /\ DOMAIN comments = 1..Len(comments)
  BY <1>2, CommentsAreSequence
<1>5. \A i \in DOMAIN comments' : i \in DOMAIN comments \/ ~Marked(comments'[i])
  <2>1. \A i \in DOMAIN comments' : i \in DOMAIN comments \/ i = Len(comments) + 1
    BY <1>3, <1>4
  <2> QED
    BY <1>3, <2>1 DEF Marked, CommentIs
<1>6. MarkedIds(comments') = MarkedIds(comments)
  BY <1>3, <1>5 DEF MarkedIds
<1>7. \A n : MarkedUpTo(n)' = MarkedUpTo(n)
  BY <1>3, <1>5 DEF MarkedUpTo
<1> QED
  BY <1>3, <1>6, <1>7

LEMMA SomebodyPostsKeeps ==
  ASSUME CommentInvariant, TokenInvariant', SomebodyPosts
  PROVE  CommentInvariant'
<1>1. UNCHANGED <<deleted, doing, page, found, missed>>
  BY DEF SomebodyPosts
<1>2. /\ CommentTypeOK /\ NotLookedYet
      /\ ~missed => IdsAscend /\ FoundTheNewest
  BY DEF CommentInvariant
<1>3. /\ comments' \in Seq([id : Id, by : Author])
      /\ posted' \in 0..MaxComments
      /\ Len(comments') = Len(comments) + 1
      /\ IdsAscend => IdsAscend'
      /\ MarkedIds(comments') = MarkedIds(comments)
      /\ \A n : MarkedUpTo(n)' = MarkedUpTo(n)
  BY SomebodyPostsAreUnmarked
<1>4. Len(comments) \in Nat
  BY <1>2, CommentsAreSequence
<1>6. MarkedIds(comments') = MarkedIds(comments)
  BY <1>3
<1>7. \A n : MarkedUpTo(n)' = MarkedUpTo(n)
  BY <1>3
<1>8. CommentTypeOK'
  BY <1>1, <1>2, <1>3 DEF CommentTypeOK, TokenInvariant
<1>9. NotLookedYet'
  BY <1>1, <1>2 DEF NotLookedYet
<1>10. ASSUME ~missed'
       PROVE  IdsAscend' /\ FoundTheNewest'
  <2>1. IdsAscend /\ FoundTheNewest
    BY <1>1, <1>2, <1>10
  <2>2. IdsAscend'
    BY <1>3, <2>1
  <2>3. FoundTheNewest'
    <3> SUFFICES ASSUME NEW e \in Thread
                 PROVE  /\ doing'[e] = "list" =>
                             /\ (page'[e] - 1) * PageSize <= Len(comments')
                             /\ found'[e] = NewestOf(MarkedUpTo((page'[e] - 1) * PageSize))
                        /\ doing'[e] = "write" => found'[e] = NewestOf(MarkedIds(comments'))
      BY <1>7 DEF FoundTheNewest
    <3> DEFINE n == (page[e] - 1) * PageSize
    <3>1. n \in Nat
      <4>1. page[e] \in 1..MaxPages
        BY <1>2 DEF CommentTypeOK
      <4> QED
        BY <4>1, CommentAssumption
    <3>2. /\ doing[e] = "list" => n <= Len(comments) /\ found[e] = NewestOf(MarkedUpTo(n))
          /\ doing[e] = "write" => found[e] = NewestOf(MarkedIds(comments))
      BY <2>1 DEF FoundTheNewest
    <3>3. doing'[e] = doing[e] /\ found'[e] = found[e] /\ (page'[e] - 1) * PageSize = n
      BY <1>1
    <3> HIDE DEF n
    <3>4. doing[e] = "list" => n <= Len(comments')
      BY <1>3, <1>4, <3>1, <3>2
    <3> QED
      BY <1>6, <3>2, <3>3, <3>4
  <2> QED
    BY <2>2, <2>3
<1> QED
  BY <1>8, <1>9, <1>10 DEF CommentInvariant

\* A comment is deleted, which may spoil what a diff that looks has seen.
LEMMA SomebodyDeletesKeeps ==
  ASSUME CommentInvariant, TokenInvariant', SomebodyDeletes
  PROVE  CommentInvariant' /\ missed'
<1>1. PICK n \in DOMAIN comments : comments' = RemoveAt(comments, n)
  BY DEF SomebodyDeletes
<1>2. /\ UNCHANGED <<posted, doing, page, found>>
      /\ missed' = TRUE /\ deleted' = deleted + 1 /\ deleted < Deletions
  BY DEF SomebodyDeletes
<1>3. CommentTypeOK /\ NotLookedYet
  BY DEF CommentInvariant
<1>4. comments' \in Seq([id : Id, by : Author])
  <2> DEFINE C == [id : Id, by : Author]
  <2>1. comments \in Seq(C)
    BY <1>3 DEF CommentTypeOK
  <2> HIDE DEF C
  <2>2. RemoveAt(comments, n) \in Seq(C)
    <3>1. n \in 1..Len(comments) /\ Len(comments) \in Nat
      BY <1>3, CommentsAreSequence
    <3>2. SubSeq(comments, 1, n - 1) \in Seq(C)
      BY <2>1, <3>1
    <3>3. SubSeq(comments, n + 1, Len(comments)) \in Seq(C)
      BY <2>1, <3>1
    <3> QED
      BY <3>2, <3>3 DEF RemoveAt
  <2> QED
    BY <1>1, <2>2 DEF C
<1>5. deleted' \in 0..Deletions
  BY <1>2, <1>3, CommentAssumption DEF CommentTypeOK
<1>6. CommentTypeOK'
  BY <1>2, <1>3, <1>4, <1>5 DEF CommentTypeOK, TokenInvariant
<1>7. NotLookedYet'
  BY <1>2, <1>3 DEF NotLookedYet
<1> QED
  BY <1>2, <1>6, <1>7 DEF CommentInvariant

\* What an edit leaves: the same comments, one of them by another.
LEMMA Edited ==
  ASSUME CommentTypeOK, NEW d \in Thread, Edit(d)
  PROVE  /\ comments' \in Seq([id : Id, by : Author])
         /\ DOMAIN comments' = DOMAIN comments
         /\ \A i \in DOMAIN comments :
              /\ comments'[i].id = comments[i].id
              /\ comments[i].id = found[d] => comments'[i].by = d
              /\ comments[i].id # found[d] => comments'[i] = comments[i]
         /\ IdsAscend => IdsAscend'
<1> DEFINE C == [id : Id, by : Author]
           edited(i) == IF comments[i].id = found[d] THEN CommentIs(found[d], d)
                        ELSE comments[i]
<1>1. /\ Len(comments) \in Nat /\ DOMAIN comments = 1..Len(comments)
      /\ \A i \in DOMAIN comments : comments[i] \in C /\ comments[i].id \in Id
  BY CommentsAreSequence
<1>2. comments' = [i \in DOMAIN comments |-> edited(i)] /\ posted' = posted
  BY DEF Edit
<1>3. \A i \in DOMAIN comments :
        /\ edited(i) \in C
        /\ edited(i).id = comments[i].id
        /\ comments[i].id = found[d] => edited(i).by = d
        /\ comments[i].id # found[d] => edited(i) = comments[i]
  BY <1>1 DEF CommentIs, Author
<1> HIDE DEF C, edited
<1>4. comments' \in Seq(C)
  BY <1>1, <1>2, <1>3
<1>5. \A i \in DOMAIN comments : comments'[i] = edited(i)
  BY <1>2
<1>6. DOMAIN comments' = DOMAIN comments
  BY <1>2
<1>7. \A i \in DOMAIN comments : comments'[i].id = comments[i].id
  BY <1>3, <1>5
<1>8. IdsAscend => IdsAscend'
  BY <1>2, <1>6, <1>7 DEF IdsAscend
<1> QED
  BY <1>3, <1>4, <1>5, <1>6, <1>7, <1>8 DEF C

\* A diff writes its comment, and unless another was looking none is now.
LEMMA WriteKeeps ==
  ASSUME CommentInvariant, TokenInvariant', NEW d \in Thread, Write(d)
  PROVE  CommentInvariant'
<1>1. /\ doing[d] = "write"
      /\ Post(d) \/ Edit(d)
      /\ Goto(d, "posted") \/ Goto(d, "failed")
      /\ missed' = (missed \/ Looking # {d})
      /\ UNCHANGED <<deleted, page, found>>
  BY DEF Write
<1>2. /\ CommentTypeOK /\ NotLookedYet
      /\ ~missed => IdsAscend /\ FoundTheNewest
  BY DEF CommentInvariant
<1>3. /\ comments' \in Seq([id : Id, by : Author])
      /\ posted' \in 0..MaxComments
      /\ IdsAscend => IdsAscend'
  <2>1. CASE Post(d)
    BY <1>2, <2>1, CommentAppended DEF Post, Author
  <2>2. CASE Edit(d)
    BY <1>2, <2>2, Edited DEF Edit, CommentTypeOK
  <2> QED
    BY <1>1, <2>1, <2>2
<1>4. /\ doing' \in [Thread -> {"clone", "diff", "credentials", "list", "write",
                             "posted", "failed"}]
      /\ doing'[d] \in {"posted", "failed"}
      /\ \A e \in Thread \ {d} : doing'[e] = doing[e]
  BY <1>1, <1>2 DEF CommentTypeOK, Goto
<1>5. CommentTypeOK'
  BY <1>1, <1>2, <1>3, <1>4 DEF CommentTypeOK, TokenInvariant
<1>6. NotLookedYet'
  BY <1>1, <1>2, <1>4 DEF NotLookedYet
<1>7. ASSUME ~missed'
      PROVE  IdsAscend' /\ FoundTheNewest'
  <2>1. ~missed /\ Looking = {d}
    BY <1>1, <1>7
  <2>2. \A e \in Thread : doing'[e] \notin {"list", "write"}
    BY <1>4, <2>1 DEF Looking
  <2> QED
    BY <1>2, <1>3, <2>1, <2>2 DEF FoundTheNewest
<1> QED
  BY <1>5, <1>6, <1>7 DEF CommentInvariant

LEMMA CommentsInit == CommentInit => CommentInvariant
<1> SUFFICES ASSUME CommentInit
             PROVE  CommentInvariant
  OBVIOUS
<1>1. PICK n \in 0..2 : \E by \in [1..n -> {"earlier", "somebody"}] :
        /\ comments = [i \in 1..n |-> CommentIs(i, by[i])]
        /\ posted = n
  BY DEF CommentInit
<1>2. PICK by \in [1..n -> {"earlier", "somebody"}] :
        /\ comments = [i \in 1..n |-> CommentIs(i, by[i])]
        /\ posted = n
  BY <1>1
<1>3. n \in Nat /\ n <= MaxComments /\ \A i \in 1..n : i \in Id
  BY CommentAssumption DEF Id
<1>4. comments \in Seq([id : Id, by : Author])
  <2> DEFINE C == [id : Id, by : Author]
  <2>1. \A i \in 1..n : CommentIs(i, by[i]) \in C
    BY <1>3 DEF CommentIs, Author
  <2> HIDE DEF C
  <2>2. comments \in Seq(C)
    BY <1>2, <1>3, <2>1
  <2> QED
    BY <2>2 DEF C
<1>5. DOMAIN comments = 1..n /\ \A i \in 1..n : comments[i].id = i
  BY <1>2 DEF CommentIs
<1>6. IdsAscend
  BY <1>2, <1>3, <1>5 DEF IdsAscend
<1>7. /\ deleted = 0 /\ doing = [d \in Thread |-> "clone"]
      /\ page = [d \in Thread |-> 1] /\ found = [d \in Thread |-> 0]
      /\ missed = FALSE
  BY DEF CommentInit
<1>8. posted \in 0..MaxComments /\ 1 \in 1..MaxPages /\ 0 \in 0..MaxComments
      /\ 0 \in 0..Deletions
  BY <1>2, <1>3, CommentAssumption
<1>9. CommentTypeOK
  BY <1>4, <1>7, <1>8, TokenInvariantInit DEF CommentTypeOK, TokenInvariant
<1>10. NotLookedYet /\ FoundTheNewest
  BY <1>7 DEF NotLookedYet, FoundTheNewest
<1> QED
  BY <1>6, <1>9, <1>10 DEF CommentInvariant

LEMMA DiffStepKeepsComments ==
  ASSUME CommentInvariant, TokenInvariant', NEW d \in Thread, CommentStep(d)
  PROVE  CommentInvariant'
<1>1. CASE StartClone(d) \/ CloneRepo(d) \/ Credentials(d)
  BY <1>1, OnlyTokensKeep DEF StartClone, CloneRepo, Credentials
<1>2. CASE EndClone(d)
  BY <1>2, PlaceMoveKeeps DEF EndClone
<1>3. CASE Diff(d)
  BY <1>3, PlaceMoveKeeps DEF Diff
<1>4. CASE EndCredentials(d)
  BY <1>4, PlaceMoveKeeps DEF EndCredentials
<1>5. CASE List(d) \/ ListMalformed(d)
  BY <1>5, ListKeeps, ListMalformedKeeps
<1>6. CASE Write(d)
  BY <1>6, WriteKeeps
<1>7. CASE CommentFails(d)
  BY <1>7, PlaceMoveKeeps DEF CommentFails
<1> QED
  BY <1>1, <1>2, <1>3, <1>4, <1>5, <1>6, <1>7 DEF CommentStep

\* Unless a comment may have been missed, each diff has found the newest of
\* relcoord's comments on what it has looked through, for any number of diffs,
\* pages and comments.
THEOREM CommentsHold == CommentSpec => []CommentInvariant
<1>1. CommentInvariant /\ TokenInvariant' /\ [CommentNext]_pullVars => CommentInvariant'
  <2> SUFFICES ASSUME CommentInvariant, TokenInvariant', [CommentNext]_pullVars
               PROVE  CommentInvariant'
    OBVIOUS
  <2>1. ASSUME NEW d \in Thread, CommentStep(d)
        PROVE  CommentInvariant'
    BY <2>1, DiffStepKeepsComments
  <2>2. CASE TokenEnvironment /\ UNCHANGED commentVars
    BY <2>2, OnlyTokensKeep
  <2>3. CASE SomebodyPosts
    BY <2>3, SomebodyPostsKeeps
  <2>4. CASE SomebodyDeletes
    BY <2>4, SomebodyDeletesKeeps
  <2>5. CASE CommentsEnded \/ UNCHANGED pullVars
    BY <2>5, OnlyTokensKeep DEF CommentsEnded, pullVars
  <2> QED
    BY <2>1, <2>2, <2>3, <2>4, <2>5 DEF CommentNext
<1> QED
  BY <1>1, CommentsInit, TokensHold, PTL DEF CommentSpec

-----------------------------------------------------------------------------
(* What that says of a comment that is written *)

\* A diff that edits what it found to be the newest marked comment, or posts
\* having found none, leaves its own the newest.
LEMMA WrittenIsNewest ==
  ASSUME CommentInvariant, NEW d \in Thread, Write(d), ~missed'
  PROVE  /\ MarkedIds(comments) # {} => MarkedIds(comments') = MarkedIds(comments)
         /\ \E i \in DOMAIN comments' :
              /\ comments'[i].id = NewestOf(MarkedIds(comments'))
              /\ comments'[i].by = d
<1>1. /\ CommentTypeOK /\ IdsAscend
      /\ found[d] = NewestOf(MarkedIds(comments))
  BY DEF CommentInvariant, FoundTheNewest, Write
<1>2. MarkedIds(comments) \in SUBSET Id
  BY <1>1, MarkedAreIds
<1>3. MarkedIds(comments) # {} =>
        found[d] \in MarkedIds(comments) /\ found[d] # 0
  <2>1. \A i \in Id : i # 0
    BY CommentAssumption DEF Id
  <2> QED
    BY <1>1, <1>2, <2>1, NewestIsGreatest
<1>4. d # "somebody"
  BY CommentAssumption
<1>5. CASE Post(d)
  <2> DEFINE n == Len(comments) + 1
  <2>1. found[d] = 0 /\ MarkedIds(comments) = {}
    BY <1>3, <1>5 DEF Post
  <2>2. /\ DOMAIN comments' = 1..n
        /\ \A i \in DOMAIN comments : i \in DOMAIN comments' /\ comments'[i] = comments[i]
        /\ comments'[n] = CommentIs(posted + 1, d)
    BY <1>1, <1>5, CommentAppended DEF Post, Author
  <2>3. Len(comments) \in Nat /\ DOMAIN comments = 1..Len(comments)
    BY <1>1, CommentsAreSequence
  <2>4. n \in DOMAIN comments'
        /\ \A i \in DOMAIN comments' : i \in DOMAIN comments \/ i = n
    BY <2>2, <2>3
  <2>5. comments'[n].id = posted + 1 /\ comments'[n].by = d /\ Marked(comments'[n])
    BY <1>4, <2>2 DEF CommentIs, Marked
  <2> HIDE DEF n
  <2>6. \A i \in DOMAIN comments : ~Marked(comments[i])
    BY <2>1 DEF MarkedIds
  <2>7. MarkedIds(comments') = {posted + 1}
    BY <2>2, <2>4, <2>5, <2>6 DEF MarkedIds
  <2>8. NewestOf({posted + 1}) = posted + 1
    <3>1. posted + 1 \in Nat
      BY <1>1, CommentAssumption DEF CommentTypeOK
    <3> QED
      BY <3>1 DEF NewestOf
  <2> QED
    BY <2>1, <2>4, <2>5, <2>7, <2>8
<1>6. CASE Edit(d)
  <2>1. /\ DOMAIN comments' = DOMAIN comments
        /\ \A i \in DOMAIN comments :
             /\ comments'[i].id = comments[i].id
             /\ comments[i].id = found[d] => comments'[i].by = d
             /\ comments[i].id # found[d] => comments'[i] = comments[i]
    BY <1>1, <1>6, Edited
  <2>2. PICK i \in DOMAIN comments : comments[i].id = found[d]
    BY <1>6 DEF Edit
  <2>3. MarkedIds(comments) # {}
    <3>1. SUFFICES ASSUME MarkedIds(comments) = {}
                   PROVE  FALSE
      OBVIOUS
    <3>2. found[d] = 0
      BY <1>1, <3>1 DEF NewestOf
    <3>3. comments[i].id \in Id
      BY <1>1, CommentsAreSequence
    <3> QED
      BY <2>2, <3>2, <3>3, CommentAssumption DEF Id
  <2>4. MarkedIds(comments') = MarkedIds(comments)
    <3>1. ASSUME NEW x \in MarkedIds(comments)
          PROVE  x \in MarkedIds(comments')
      <4>1. PICK j \in DOMAIN comments : Marked(comments[j]) /\ comments[j].id = x
        BY DEF MarkedIds
      <4>2. Marked(comments'[j])
        BY <1>4, <2>1, <4>1 DEF Marked
      <4> QED
        BY <2>1, <4>1, <4>2 DEF MarkedIds
    <3>2. ASSUME NEW x \in MarkedIds(comments')
          PROVE  x \in MarkedIds(comments)
      <4>1. PICK j \in DOMAIN comments : Marked(comments'[j]) /\ comments'[j].id = x
        BY <2>1 DEF MarkedIds
      <4>2. CASE x = found[d]
        BY <1>3, <2>3, <4>2
      <4>3. CASE x # found[d]
        <5>1. Marked(comments[j]) /\ comments[j].id = x
          BY <2>1, <4>1, <4>3
        <5> QED
          BY <5>1 DEF MarkedIds
      <4> QED
        BY <4>2, <4>3
    <3> QED
      BY <3>1, <3>2
  <2> QED
    BY <1>1, <2>1, <2>2, <2>4
<1> QED
  BY <1>5, <1>6 DEF Write

\* A second comment is posted only if a diff may have missed the first, for any
\* number of diffs, pages and comments (GithubIssueCommenter).
THEOREM SecondsFollowAMiss == CommentSpec => SecondOnlyIfMissed
<1>1. CommentInvariant /\ [CommentNext]_pullVars =>
        (MarkedIds(comments') \ MarkedIds(comments) # {} =>
           MarkedIds(comments) = {} \/ missed')
  <2> SUFFICES ASSUME CommentInvariant, [CommentNext]_pullVars
               PROVE  \/ MarkedIds(comments') \subseteq MarkedIds(comments)
                      \/ MarkedIds(comments) = {}
                      \/ missed'
    OBVIOUS
  <2>1. ASSUME NEW d \in Thread, Write(d)
        PROVE  MarkedIds(comments) = {} \/ missed'
               \/ MarkedIds(comments') = MarkedIds(comments)
    BY <2>1, WrittenIsNewest
  <2>2. ASSUME NEW d \in Thread, CommentStep(d), ~Write(d)
        PROVE  comments' = comments
    BY <2>2 DEF CommentStep, StartClone, CloneRepo, EndClone, Diff, Credentials,
                EndCredentials, List, ListMalformed, GoThrough, CommentFails,
                commentVars
  <2>3. CASE SomebodyPosts
    <3>1. MarkedIds(comments') = MarkedIds(comments)
      BY <2>3, SomebodyPostsAreUnmarked
    <3> QED
      BY <3>1
  <2>4. CASE SomebodyDeletes
    BY <2>4 DEF SomebodyDeletes
  <2>5. CASE (TokenEnvironment /\ UNCHANGED commentVars) \/ CommentsEnded \/ UNCHANGED pullVars
    BY <2>5 DEF CommentsEnded, pullVars, commentVars
  <2> QED
    BY <2>1, <2>2, <2>3, <2>4, <2>5 DEF CommentNext
<1> QED
  BY <1>1, CommentsHold, PTL DEF CommentSpec, SecondOnlyIfMissed

\* A diff that comments leaves its body in the newest of relcoord's comments,
\* unless one may have been missed (_existing_comment_id).
THEOREM NewestIsAlwaysEdited == CommentSpec => NewestIsEdited
<1> DEFINE EditsNewest ==
      \A d \in Thread :
        doing[d] = "write" /\ doing'[d] = "posted" /\ ~missed' =>
          \E i \in DOMAIN comments' :
            /\ comments'[i].id = NewestOf(MarkedIds(comments'))
            /\ comments'[i].by = d
<1>1. CommentInvariant /\ [CommentNext]_pullVars => EditsNewest
  <2> SUFFICES ASSUME CommentInvariant, [CommentNext]_pullVars, NEW d \in Thread,
                      doing[d] = "write", doing'[d] = "posted", ~missed'
               PROVE  Write(d)
    BY WrittenIsNewest
  <2>1. doing \in [Thread -> {"clone", "diff", "credentials", "list", "write",
                           "posted", "failed"}]
    BY DEF CommentInvariant, CommentTypeOK
  <2>2. ASSUME NEW e \in Thread, CommentStep(e)
        PROVE  Write(d)
    <3>1. doing' # doing
      OBVIOUS
    <3>2. CASE StartClone(e) \/ CloneRepo(e) \/ Credentials(e)
      BY <3>1, <3>2 DEF StartClone, CloneRepo, Credentials, commentVars
    <3>3. CASE EndClone(e) \/ Diff(e) \/ EndCredentials(e) \/ CommentFails(e)
      BY <2>1, <3>3 DEF EndClone, Diff, EndCredentials, CommentFails, Goto
    <3>4. CASE List(e) \/ ListMalformed(e)
      BY <2>1, <3>1, <3>4 DEF List, ListMalformed, GoThrough, Goto
    <3>5. CASE Write(e)
      <4>1. e = d
        BY <2>1, <3>5 DEF Write, Goto
      <4> QED
        BY <3>5, <4>1
    <3> QED
      BY <2>2, <3>2, <3>3, <3>4, <3>5 DEF CommentStep
  <2>3. ASSUME doing' = doing
        PROVE  FALSE
    BY <2>3
  <2> QED
    BY <2>2, <2>3
    DEF CommentNext, SomebodyPosts, SomebodyDeletes, CommentsEnded, commentVars, pullVars
<1> QED
  BY <1>1, CommentsHold, PTL DEF CommentSpec, NewestIsEdited
==============================================================================
