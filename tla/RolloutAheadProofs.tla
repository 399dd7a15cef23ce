-------------------------- MODULE RolloutAheadProofs --------------------------
(***************************************************************************)
(* Proofs about a change that generates ahead while it waits, for any      *)
(* outputs, repositories, stages, predictions and workers: nothing that    *)
(* was generated is lost or generated twice, a failure of generating ahead *)
(* surfaces only in its own stage, and outputs reach their branches and    *)
(* clusters in the order RolloutGate promises.                             *)
(***************************************************************************)
EXTENDS RolloutAhead, WellFoundedInduction, TLAPS

(* Choosing the first of a set of outputs *)

\* A set of outputs that is not empty has one that comes first, and
\* FirstOutput is it: their positions are natural numbers.
LEMMA FirstOutputIsOne ==
  ASSUME NEW S \in SUBSET Output, S # {}
  PROVE  FirstOutput(S) \in S
<1> DEFINE P == {Position[o] : o \in S}
<1>1. P \subseteq Nat /\ P # {}
  BY GenerationAssumption DEF GenerationAssumption
<1>2. PICK n \in P : \A m \in P : <<m, n>> \notin OpToRel(<, Nat)
  <2> HIDE DEF P
  <2> QED
    BY <1>1, NatLessThanWellFounded, WFMin, Zenon
<1>3. PICK o \in S : Position[o] = n
  BY <1>2
<1>4. ASSUME NEW p \in S
      PROVE  Position[o] <= Position[p]
  <2>1. <<Position[p], n>> \in Nat \X Nat /\ Position[p] \in P
    BY <1>1
  <2>2. ~(<<Position[p], n>>[1] < <<Position[p], n>>[2])
    BY <1>2, <2>1, Zenon DEF OpToRel
  <2>3. ~(Position[p] < n)
    BY <2>2
  <2> QED
    BY <1>1, <1>3, <2>1, <2>3
<1> QED
  BY <1>4 DEF FirstOutput

\* The first repository of those in R that S has outputs in is one of them.
LEMMA FirstRepoIsOne ==
  ASSUME NEW S \in SUBSET Output, NEW T \in SUBSET S, T # {}
  PROVE  /\ FirstRepo(S, ReposOf(T)) \in ReposOf(T)
         /\ FirstRepo(S, ReposOf(T)) \in Repo
         /\ T \intersect OutputsOf(FirstRepo(S, ReposOf(T))) # {}
<1> DEFINE due == {o \in S : RepoOf[o] \in ReposOf(T)}
<1>1. due # {} /\ due \in SUBSET Output
  BY DEF ReposOf
<1>2. FirstOutput(due) \in due
  BY <1>1, FirstOutputIsOne
<1> HIDE DEF due
<1>3. RepoOf[FirstOutput(due)] \in ReposOf(T)
  BY <1>2 DEF due
<1>4. FirstRepo(S, ReposOf(T)) = RepoOf[FirstOutput(due)]
  BY DEF FirstRepo, due
<1>5. FirstRepo(S, ReposOf(T)) \in ReposOf(T)
  BY <1>3, <1>4
<1>6. PICK o \in T : FirstRepo(S, ReposOf(T)) = RepoOf[o]
  BY <1>5 DEF ReposOf
<1>7. RepoOf[o] \in Repo /\ o \in OutputsOf(RepoOf[o])
  BY GenerationAssumption DEF OutputsOf, GenerationAssumption
<1> QED
  BY <1>5, <1>6, <1>7

(* The parts of a stage *)

LEMMA PartsOfStage ==
  ASSUME NEW S \in SUBSET Output
  PROVE  /\ PartOf(S, 1) \intersect PartOf(S, 2) = {}
         /\ PartOf(S, 1) \union PartOf(S, 2) = S
         /\ \A k \in Parts : PartOf(S, k) \subseteq S
  BY DEF PartOf, Parts

\* The next part from k on is the first that is not empty.
LEMMA PartFromIsNext ==
  ASSUME NEW S \in SUBSET Output, NEW k \in 1..3
  PROVE  /\ PartFrom(S, k) \in k..3
         /\ PartFrom(S, k) # 3 => /\ PartFrom(S, k) \in Parts
                                  /\ PartOf(S, PartFrom(S, k)) # {}
         /\ \A j \in Parts : k <= j /\ j < PartFrom(S, k) => PartOf(S, j) = {}
  BY DEF PartFrom, Parts

LEMMA StagesAreOutputs ==
  /\ \A i : StageSet(i) \in SUBSET Output
  /\ \A o \in Output : /\ RepoOf[o] \in Repo /\ o \in OutputsOf(RepoOf[o])
                       /\ StageOf[o] \in 1..StageCount
  BY GenerationAssumption DEF GenerationAssumption, StageSet, OutputsOf

-----------------------------------------------------------------------------
LEMMA AheadInit == Init => AheadInvariant
<1> SUFFICES ASSUME Init PROVE AheadInvariant
  OBVIOUS
<1> USE GenerationAssumption, PredictionsAssumption
    DEF GenerationAssumption, PredictionsAssumption, Init, GenerationInit
<1>1. TypeOK
  <2>1. GenerationTypeOK
    BY DEF GenerationTypeOK, Task, TaskState, NoTask
  <2>2. wait \in [Parts -> Wait] /\ held \in BOOLEAN
    BY DEF Wait, NoWait
  <2>3. predicted \subseteq Output /\ stage \in 1..StageCount
    OBVIOUS
  <2> QED
    BY <2>1, <2>2, <2>3 DEF TypeOK
<1>2. MainConsistent
  BY DEF MainConsistent
<1>3. Released = {}
  BY DEF Released
<1>4. TasksOfPart
  BY DEF TasksOfPart, Generating
<1>5. CommitsKept
  BY DEF CommitsKept, NothingGeneratedLost, NoTask
<1>6. PartsConsidered
  BY DEF PartsConsidered
<1>7. ConsideredFollowed
  BY <1>3 DEF ConsideredFollowed, Pending, NoWait
<1>8. ReleasedInOrder
  BY <1>3 DEF ReleasedInOrder, WholeStagePushesNothing, HeldFailureWaits
<1> QED
  BY <1>1, <1>2, <1>4, <1>5, <1>6, <1>7, <1>8 DEF AheadInvariant

-----------------------------------------------------------------------------
(* What the tasks of the pool do keeps the invariant *)

MainUnchanged == UNCHANGED <<mainVars, wait, observed>>
OthersUnchanged == UNCHANGED <<maxConcurrency, affected, remote, cloned, generated>>

\* What a task's step does not change, the rest of the invariant speaks of.
LEMMA OnlyTasksMove ==
  ASSUME MainUnchanged, OthersUnchanged
  PROVE  /\ MainConsistent' <=> MainConsistent
         /\ PartsConsidered' <=> PartsConsidered
         /\ ConsideredFollowed' <=> ConsideredFollowed
         /\ ReleasedInOrder' <=> ReleasedInOrder
         /\ Generating' <=> Generating
         /\ CommittedStage' = CommittedStage
         /\ \A r \in Repo : Missing(r)' = Missing(r)
<1> USE DEF MainUnchanged, OthersUnchanged, mainVars
<1>1. Released' = Released
  BY DEF Released
<1>2. Pending' = Pending
  BY DEF Pending
<1>3. PartsConsidered' <=> PartsConsidered
  BY DEF PartsConsidered, PartOf, StageSet
<1>4. ConsideredFollowed' <=> ConsideredFollowed
  BY <1>1, <1>2 DEF ConsideredFollowed, StageSet
<1>5. ReleasedInOrder' <=> ReleasedInOrder
  BY <1>1 DEF ReleasedInOrder, PartOf, StageSet, WholeStagePushesNothing,
              HeldFailureWaits
<1>6. \A r \in Repo : Missing(r)' = Missing(r)
  BY DEF Missing, PartOf, StageSet, OutputsOf, GeneratingStage
<1> QED
  BY <1>3, <1>4, <1>5, <1>6
  DEF MainConsistent, Generating, CommittedStage, PartOf, StageSet

\* A task's step keeps to its own task and its own checkout.
LEMMA TaskMoveKeeps ==
  ASSUME AheadInvariant, MainUnchanged, OthersUnchanged, Generating,
         NEW r \in Repo, NEW t \in Task,
         NEW c \in SUBSET (OutputsOf(r) \intersect affected),
         task' = [task EXCEPT ![r] = t],
         checkout' = [checkout EXCEPT ![r] = c],
         TaskOfPart(r)',
         remote[r] \subseteq c, c \subseteq generated \union t.done,
         generated \intersect affected \intersect OutputsOf(r) \subseteq c,
         \A o \in c : StageOf[o] <= CommittedStage
  PROVE  AheadInvariant'
<1> USE DEF MainUnchanged, OthersUnchanged, mainVars
<1>1. /\ TypeOK /\ GenerationTypeOK /\ MainConsistent /\ TasksOfPart
      /\ CommitsKept /\ PartsConsidered /\ ConsideredFollowed /\ ReleasedInOrder
  BY DEF AheadInvariant, TypeOK
<1>2. /\ \A q \in Repo : task'[q] = IF q = r THEN t ELSE task[q]
      /\ \A q \in Repo : checkout'[q] = IF q = r THEN c ELSE checkout[q]
  BY <1>1 DEF GenerationTypeOK
<1>3. TypeOK'
  <2>1. GenerationTypeOK'
    BY <1>1 DEF GenerationTypeOK
  <2> QED
    BY <1>1, <2>1 DEF TypeOK
<1>4. TasksOfPart'
  <2>1. ASSUME NEW q \in Repo, q # r
        PROVE  TaskOfPart(q)'
    <3>1. /\ TaskOfPart(q) /\ task'[q] = task[q] /\ checkout'[q] = checkout[q]
          /\ Missing(q)' = Missing(q)
      BY <1>1, <1>2, <2>1, OnlyTasksMove DEF TasksOfPart
    <3> QED
      BY <3>1 DEF TaskOfPart
  <2> QED
    BY <2>1, OnlyTasksMove DEF TasksOfPart, Generating
<1>5. CommitsKept'
  <2>1. NothingGeneratedLost'
    <3> SUFFICES ASSUME NEW o \in generated \intersect affected
                 PROVE  o \in checkout'[RepoOf[o]]
      BY DEF NothingGeneratedLost
    <3>1. o \in Output /\ o \in checkout[RepoOf[o]]
      BY <1>1 DEF CommitsKept, NothingGeneratedLost, GenerationTypeOK
    <3> QED
      BY <1>2, <3>1, StagesAreOutputs
  <2> QED
    BY <1>1, <1>2, <2>1, OnlyTasksMove DEF CommitsKept, OutputsOf
<1> QED
  BY <1>1, <1>3, <1>4, <1>5, OnlyTasksMove DEF AheadInvariant

\* Most steps of a task only take it to another state.
LEMMA TaskStateKeeps ==
  ASSUME AheadInvariant, MainUnchanged, OthersUnchanged, Generating,
         NEW r \in Repo, NEW state \in TaskState \ {"none", "queued"},
         task' = [task EXCEPT ![r].state = state], checkout' = checkout,
         state = "cloning" => r \notin cloned /\ task[r].done = {},
         state = "generating" => task[r].todo # {},
         state = "ok" /\ pc = "generate" => task[r].todo = {}
  PROVE  AheadInvariant'
<1> DEFINE t == [task[r] EXCEPT !.state = state]
<1>1. /\ TypeOK /\ GenerationTypeOK /\ MainConsistent /\ TaskOfPart(r)
      /\ CommitsKept /\ NothingGeneratedLost
  BY DEF AheadInvariant, TypeOK, TasksOfPart, CommitsKept
<1>2. /\ t \in Task /\ t.state = state
      /\ t.todo = task[r].todo /\ t.done = task[r].done
  BY <1>1 DEF GenerationTypeOK, Task
<1>3. /\ task' = [task EXCEPT ![r] = t] /\ task'[r] = t
      /\ checkout' = [checkout EXCEPT ![r] = checkout[r]]
  BY <1>1 DEF GenerationTypeOK
<1> HIDE DEF t
<1>4. TaskOfPart(r)'
  <2>1. Missing(r)' = Missing(r)
    BY OnlyTasksMove
  <2> QED
    BY <1>1, <1>2, <1>3, <2>1
    DEF TaskOfPart, MainUnchanged, OthersUnchanged, mainVars
<1>5. /\ checkout[r] \in SUBSET (OutputsOf(r) \intersect affected)
      /\ remote[r] \subseteq checkout[r]
      /\ \A o \in checkout[r] : StageOf[o] <= CommittedStage
      /\ checkout[r] \subseteq generated \union t.done
  BY <1>1, <1>2 DEF CommitsKept, MainConsistent, Generating
<1>6. generated \intersect affected \intersect OutputsOf(r) \subseteq checkout[r]
  BY <1>1 DEF NothingGeneratedLost, OutputsOf
<1> QED
  BY <1>2, <1>3, <1>4, <1>5, <1>6, TaskMoveKeeps

\* What a clone throws away is nothing: a repository that is not noted as
\* cloned has nothing generated, and so nothing committed or pushed.
LEMMA CloneKeeps ==
  ASSUME AheadInvariant, MainUnchanged, Generating, NEW r \in Repo, Clone(r)
  PROVE  AheadInvariant'
<1> DEFINE t == [task[r] EXCEPT !.state = "ready"]
<1>1. /\ TypeOK /\ GenerationTypeOK /\ MainConsistent /\ TaskOfPart(r)
      /\ CommitsKept /\ NothingGeneratedLost
  BY DEF AheadInvariant, TypeOK, TasksOfPart, CommitsKept
<1>2. /\ t \in Task /\ t.state = "ready"
      /\ t.todo = task[r].todo /\ t.done = task[r].done
  BY <1>1 DEF GenerationTypeOK, Task, TaskState
<1>3. /\ task' = [task EXCEPT ![r] = t] /\ task'[r] = t
      /\ checkout' = [checkout EXCEPT ![r] = remote[r]]
      /\ OthersUnchanged
  BY <1>1 DEF GenerationTypeOK, Clone, OthersUnchanged
<1> HIDE DEF t
<1>4. task[r].state = "cloning" /\ task[r].done = {} /\ r \notin cloned
  BY <1>1 DEF Clone, TaskOfPart
<1>5. generated \intersect OutputsOf(r) = {}
  BY <1>1, <1>4 DEF CommitsKept, OutputsOf
<1>6. TaskOfPart(r)'
  <2>1. Missing(r)' = Missing(r)
    BY <1>3, OnlyTasksMove
  <2> QED
    BY <1>1, <1>2, <1>3, <1>4, <2>1
    DEF TaskOfPart, MainUnchanged, OthersUnchanged, mainVars
<1>7. /\ remote[r] \in SUBSET (OutputsOf(r) \intersect affected)
      /\ \A o \in remote[r] : StageOf[o] <= CommittedStage
      /\ remote[r] \subseteq generated \union t.done
  BY <1>1, <1>2 DEF CommitsKept, MainConsistent, Generating
<1> QED
  BY <1>2, <1>3, <1>5, <1>6, <1>7, TaskMoveKeeps

LEMMA FinishOutputKeeps ==
  ASSUME AheadInvariant, MainUnchanged, Generating, NEW r \in Repo,
         FinishOutput(r)
  PROVE  AheadInvariant'
<1> DEFINE o == FirstOutput(task[r].todo)
           t == [state |-> "ready", todo |-> task[r].todo \ {o},
                 done |-> task[r].done \union {o}]
           c == checkout[r] \union ({o} \intersect affected)
<1>1. /\ TypeOK /\ GenerationTypeOK /\ MainConsistent /\ TaskOfPart(r)
      /\ CommitsKept /\ NothingGeneratedLost
  BY DEF AheadInvariant, TypeOK, TasksOfPart, CommitsKept
<1>2. task[r] \in Task /\ task[r].todo # {}
  BY <1>1 DEF GenerationTypeOK, TaskOfPart, FinishOutput
<1>3. o \in task[r].todo
  BY <1>2, FirstOutputIsOne DEF Task
<1>4. /\ task' = [task EXCEPT ![r] = t]
      /\ checkout' = [checkout EXCEPT ![r] = c]
      /\ OthersUnchanged
  BY DEF FinishOutput, OthersUnchanged
<1> HIDE DEF o
<1>5. o \in Output /\ o \in Missing(r)
  BY <1>1, <1>2, <1>3 DEF TaskOfPart, Task
<1>6. RepoOf[o] = r /\ StageOf[o] = GeneratingStage
  BY <1>5 DEF Missing, OutputsOf, StageSet, PartOf
<1>7. GeneratingStage = CommittedStage /\ GeneratingStage \in Nat
  BY <1>1, GenerationAssumption
  DEF Generating, GeneratingStage, CommittedStage, TypeOK, GenerationAssumption
<1>8. /\ t \in Task /\ t.state = "ready"
      /\ t.todo = task[r].todo \ {o} /\ t.done = task[r].done \union {o}
  BY <1>2, <1>5 DEF Task, TaskState
<1> HIDE DEF t
<1>9. /\ c \in SUBSET (OutputsOf(r) \intersect affected)
      /\ remote[r] \subseteq c /\ c \subseteq generated \union t.done
      /\ \A p \in c : StageOf[p] <= CommittedStage
      /\ t.done \intersect affected \subseteq c
  BY <1>1, <1>5, <1>6, <1>7, <1>8
  DEF CommitsKept, MainConsistent, Generating, OutputsOf, TaskOfPart
<1>10. generated \intersect affected \intersect OutputsOf(r) \subseteq c
  BY <1>1 DEF NothingGeneratedLost, OutputsOf
<1> HIDE DEF c
<1>11. TaskOfPart(r)'
  <2>1. Missing(r)' = Missing(r)
    BY <1>4, OnlyTasksMove
  <2>2. task'[r] = t /\ checkout'[r] = c
    BY <1>1, <1>4 DEF GenerationTypeOK
  <2> QED
    BY <1>1, <1>3, <1>4, <1>8, <1>9, <2>1, <2>2
    DEF TaskOfPart, OthersUnchanged
<1> QED
  BY <1>4, <1>8, <1>9, <1>10, <1>11, TaskMoveKeeps

\* No task goes on once the change has ended.
LEMMA TaskStepKeeps ==
  ASSUME AheadInvariant, NEW r \in Repo, TaskStep(r, StopGenerating), MainUnchanged
  PROVE  AheadInvariant'
<1>1. TypeOK /\ GenerationTypeOK /\ TasksOfPart
  BY DEF AheadInvariant, TypeOK
<1>2. Generating
  <2>1. task[r].state # "none"
    BY DEF TaskStep, StartTask, Clone, BeginOutput, FinishOutput, TaskEnds,
           TaskFails, InState
  <2>2. CASE pc = "end"
    <3>1. TasksFinished
      BY <1>1, <2>2 DEF TasksOfPart
    <3>2. StartTask(r)
      BY <3>1 DEF TasksFinished, Active, InState, TaskStep, Clone, BeginOutput,
                  FinishOutput, TaskEnds, TaskFails
    <3> QED
      BY <3>1, <3>2 DEF TasksFinished, StartTask
  <2> QED
    BY <1>1, <2>1, <2>2 DEF TasksOfPart, NoTask
<1>3. TaskOfPart(r)
  BY <1>1, <1>2 DEF TasksOfPart
<1>4. CASE StartTask(r)
  <2>1. PICK state \in {"ready", "cloning"} :
          /\ task' = [task EXCEPT ![r].state = state]
          /\ state = "cloning" => r \notin cloned
    BY <1>4 DEF StartTask
  <2>2. OthersUnchanged /\ checkout' = checkout /\ task[r].state = "queued"
    BY <1>4 DEF StartTask, OthersUnchanged, InState
  <2> QED
    BY <1>2, <1>3, <2>1, <2>2, TaskStateKeeps DEF TaskState, TaskOfPart
<1>5. CASE BeginOutput(r, StopGenerating) \/ TaskEnds(r, StopGenerating) \/ TaskFails(r)
  <2>1. PICK state \in {"generating", "ok", "failed"} :
          /\ task' = [task EXCEPT ![r].state = state]
          /\ state = "generating" => task[r].todo # {}
          /\ state = "ok" => task[r].todo = {} \/ StopGenerating
    BY <1>5 DEF BeginOutput, TaskEnds, TaskFails
  <2>2. OthersUnchanged /\ checkout' = checkout
    BY <1>5 DEF BeginOutput, TaskEnds, TaskFails, OthersUnchanged
  <2>3. StopGenerating => pc = "aheadJoin"
    BY DEF StopGenerating
  <2> QED
    BY <1>2, <2>1, <2>2, <2>3, TaskStateKeeps DEF TaskState
<1> QED
  BY <1>2, <1>4, <1>5, CloneKeeps, FinishOutputKeeps DEF TaskStep

-----------------------------------------------------------------------------
(* What the main thread does with the pool's tasks *)

LEMMA LaunchGivesMissing ==
  ASSUME NEW S \in SUBSET Output, Launch(S)
  PROVE  /\ task' \in [Repo -> Task]
         /\ \A r \in Repo :
              /\ task'[r].todo = (S \intersect OutputsOf(r)) \ generated
              /\ task'[r].done = {}
              /\ task'[r].state \in {"none", "queued"}
              /\ task'[r].state = "none" => task'[r].todo = {}
<1> DEFINE missing(r) == (S \intersect OutputsOf(r)) \ generated
<1>1. \A r \in Repo :
        task'[r] = IF missing(r) = {} THEN NoTask
                   ELSE [state |-> "queued", todo |-> missing(r), done |-> {}]
  BY DEF Launch
<1>2. \A r \in Repo : missing(r) \in SUBSET Output
  OBVIOUS
<1>3. DOMAIN task' = Repo /\ task' = [r \in Repo |-> task'[r]]
  BY DEF Launch
<1> HIDE DEF missing
<1>4. \A r \in Repo : /\ task'[r] \in Task
                      /\ task'[r].todo = missing(r) /\ task'[r].done = {}
                      /\ task'[r].state \in {"none", "queued"}
                      /\ task'[r].state = "none" => missing(r) = {}
  <2> TAKE r \in Repo
  <2>1. CASE missing(r) = {}
    <3>1. task'[r] = NoTask
      BY <1>1, <2>1
    <3> QED
      BY <2>1, <3>1 DEF NoTask, Task, TaskState
  <2>2. CASE missing(r) # {}
    <3>1. task'[r] = [state |-> "queued", todo |-> missing(r), done |-> {}]
      BY <1>1, <2>2
    <3> QED
      BY <1>2, <2>2, <3>1 DEF Task, TaskState
  <2> QED
    BY <2>1, <2>2
<1>5. task' \in [Repo -> Task]
  BY <1>3, <1>4
<1> QED
  BY <1>4, <1>5 DEF missing

\* Tasks just launched for the part they are to generate.
LEMMA LaunchedForPart ==
  ASSUME \A r \in Repo : /\ task'[r].todo = Missing(r)'
                         /\ task'[r].done = {}
                         /\ task'[r].state \in {"none", "queued"}
                         /\ task'[r].state = "none" => task'[r].todo = {},
         Generating'
  PROVE  TasksOfPart'
<1>1. \A r \in Repo : TaskOfPart(r)'
  BY DEF TaskOfPart
<1> QED
  BY <1>1 DEF TasksOfPart, Generating

\* Entering the next part of the stage, or the wait past both.
LEMMA EnterPartGives ==
  ASSUME AheadInvariant, NEW k \in 1..3, EnterPart(k),
         UNCHANGED <<generated, predicted, stage>>
  PROVE  /\ task' \in [Repo -> Task]
         /\ \A r \in Repo : task'[r].done = {}
         /\ TasksOfPart'
         /\ part' \in k..3
         /\ \/ /\ pc' = "generate" /\ part' \in Parts
               /\ PartOf(StageSet(stage), part') # {}
            \/ pc' = "ahead" /\ part' = 3
         /\ \A j \in Parts : k <= j /\ j < part' => PartOf(StageSet(stage), j) = {}
<1> DEFINE S == StageSet(stage)
<1>1. S \in SUBSET Output
  BY StagesAreOutputs
<1>2. /\ part' = PartFrom(S, k)
      /\ part' \in k..3
      /\ part' # 3 => part' \in Parts /\ PartOf(S, part') # {}
      /\ \A j \in Parts : k <= j /\ j < part' => PartOf(S, j) = {}
  BY <1>1, PartFromIsNext DEF EnterPart
<1>3. CASE part' = 3
  <2>1. pc' = "ahead" /\ task' = [r \in Repo |-> NoTask]
    BY <1>2, <1>3 DEF EnterPart
  <2>2. task' \in [Repo -> Task] /\ \A r \in Repo : task'[r].done = {}
    BY <2>1 DEF NoTask, Task, TaskState
  <2>3. TasksOfPart'
    BY <2>1 DEF TasksOfPart, Generating
  <2> QED
    BY <1>2, <1>3, <2>1, <2>2, <2>3
<1>4. CASE part' # 3
  <2>1. pc' = "generate" /\ Launch(PartOf(S, part'))
    BY <1>2, <1>4 DEF EnterPart
  <2>2. PartOf(S, part') \in SUBSET Output
    BY <1>1, <1>2, <1>4, PartsOfStage
  <2>3. \A r \in Repo :
          Missing(r)' = (PartOf(S, part') \intersect OutputsOf(r)) \ generated
    BY <2>1 DEF Missing, GeneratingStage, PartOf, OutputsOf, StageSet
  <2>4. TasksOfPart' /\ task' \in [Repo -> Task] /\ \A r \in Repo : task'[r].done = {}
    <3> HIDE DEF S
    <3> QED
      BY <2>1, <2>2, <2>3, LaunchGivesMissing, LaunchedForPart DEF Generating
  <2> QED
    BY <1>2, <1>4, <2>1, <2>4
<1> QED
  BY <1>3, <1>4

\* What a join that keeps its tasks' results keeps: every task ended well.
LEMMA ResultsAreKept ==
  ASSUME AheadInvariant, Generating, TasksFinished, ~TasksFailed, KeepResults
  PROVE  /\ generated' \subseteq Output /\ cloned' \subseteq Repo
         /\ generated \subseteq generated'
         /\ generated' \subseteq
              generated \union PartOf(StageSet(GeneratingStage), part)
         /\ \A o \in generated' : RepoOf[o] \in cloned'
         /\ \A o \in generated' \intersect affected : o \in checkout[RepoOf[o]]
         /\ \A r \in Repo : checkout[r] \subseteq generated'
         /\ pc = "generate" => PartOf(StageSet(stage), part) \subseteq generated'
<1>1. /\ TypeOK /\ GenerationTypeOK /\ MainConsistent /\ CommitsKept
      /\ NothingGeneratedLost /\ \A r \in Repo : TaskOfPart(r)
  BY DEF AheadInvariant, TypeOK, TasksOfPart, CommitsKept
<1>2. \A r \in Repo : /\ task[r].state \in {"none", "ok"}
                      /\ task[r].state = "none" => task[r].done = {}
                      /\ pc = "generate" => task[r].todo = {}
  BY <1>1 DEF GenerationTypeOK, Task, TaskState, TasksFinished, TasksFailed,
              Active, InState, TaskOfPart
<1>3. \A r \in Repo : /\ task[r].done \subseteq Missing(r)
                      /\ pc = "generate" => task[r].done = Missing(r)
  BY <1>1, <1>2 DEF TaskOfPart
<1>4. \A r \in Repo : \A o \in Missing(r) :
        o \in Output /\ RepoOf[o] = r /\ o \in PartOf(StageSet(GeneratingStage), part)
  BY DEF Missing, OutputsOf
<1>5. generated' = generated \union UNION {task[r].done : r \in Repo}
  BY DEF KeepResults
<1>6. cloned' = cloned \union InState({"ok"})
  BY DEF KeepResults
<1>7. /\ generated' \subseteq Output /\ cloned' \subseteq Repo
      /\ generated \subseteq generated'
      /\ generated' \subseteq generated \union PartOf(StageSet(GeneratingStage), part)
  BY <1>1, <1>3, <1>4, <1>5, <1>6 DEF GenerationTypeOK, InState
<1>8. ASSUME NEW o \in generated'
      PROVE  RepoOf[o] \in cloned' /\ (o \in affected => o \in checkout[RepoOf[o]])
  <2>1. CASE o \in generated
    BY <1>1, <1>6, <2>1 DEF CommitsKept, NothingGeneratedLost
  <2>2. CASE o \notin generated
    <3>1. PICK r \in Repo : o \in task[r].done
      BY <1>5, <2>2
    <3>2. RepoOf[o] = r /\ task[r].state = "ok"
      BY <1>2, <1>3, <1>4, <3>1
    <3> QED
      BY <1>1, <1>6, <3>1, <3>2 DEF InState, TaskOfPart
  <2> QED
    BY <2>1, <2>2
<1>9. \A r \in Repo : checkout[r] \subseteq generated'
  BY <1>1, <1>5 DEF CommitsKept, MainConsistent, Generating
<1>10. ASSUME pc = "generate", NEW o \in PartOf(StageSet(stage), part)
       PROVE  o \in generated'
  <2>1. o \in Output
    BY StagesAreOutputs DEF PartOf
  <2>2. o \notin generated => o \in Missing(RepoOf[o])
    BY <1>10, <2>1, StagesAreOutputs DEF Missing, GeneratingStage
  <2> QED
    BY <1>3, <1>5, <1>10, <2>1, <2>2, StagesAreOutputs
<1> QED
  BY <1>7, <1>8, <1>9, <1>10

-----------------------------------------------------------------------------
(* One lemma for each step of the main thread *)

AheadParts ==
  /\ TypeOK /\ GenerationTypeOK /\ MainConsistent /\ TasksOfPart /\ CommitsKept
  /\ PartsConsidered /\ ConsideredFollowed /\ ReleasedInOrder

LEMMA PartsAreInvariant == AheadInvariant <=> AheadParts
  BY DEF AheadParts, AheadInvariant, TypeOK

LEMMA StartStageKeeps ==
  ASSUME AheadInvariant, StartStage
  PROVE  AheadInvariant'
<1>1. AheadParts /\ pc = "stage" /\ ~held
  BY PartsAreInvariant DEF StartStage
<1> USE DEF StartStage
<1>2. /\ task' \in [Repo -> Task] /\ TasksOfPart' /\ part' \in 1..3
      /\ \A r \in Repo : task'[r].done = {}
      /\ \/ /\ pc' = "generate" /\ part' \in Parts
            /\ PartOf(StageSet(stage), part') # {}
         \/ pc' = "ahead" /\ part' = 3
      /\ \A j \in Parts : 1 <= j /\ j < part' => PartOf(StageSet(stage), j) = {}
  BY EnterPartGives, 1 \in 1..3
<1>3. Released' = Released /\ Released \intersect StageSet(stage) = {}
  BY <1>1 DEF Released, AheadParts, ReleasedInOrder
<1>4. wait' \in [Parts -> Wait] /\ Pending' = {} /\ \A k \in Parts : wait'[k] = NoWait
  BY DEF Wait, NoWait, Pending
<1>5. TypeOK'
  BY <1>1, <1>2, <1>4 DEF AheadParts, TypeOK, GenerationTypeOK
<1>6. MainConsistent'
  BY <1>1, <1>2 DEF AheadParts, MainConsistent, PartOf, StageSet
<1>7. CommitsKept'
  <2>1. CommittedStage' = CommittedStage
    BY <1>1, <1>2 DEF CommittedStage
  <2>2. \A r \in Repo : checkout[r] \subseteq generated
    BY <1>1 DEF AheadParts, CommitsKept, TasksOfPart, Generating, NoTask
  <2> QED
    BY <1>1, <2>1, <2>2 DEF AheadParts, CommitsKept, NothingGeneratedLost
<1>8. pc' = "ahead" => StageSet(stage) = {}
  BY <1>2, PartsOfStage, StagesAreOutputs DEF Parts
<1>9. PartsConsidered'
  BY <1>1, <1>2, <1>8
  DEF AheadParts, PartsConsidered, PartOf, StageSet, Parts, TypeOK
<1>10. ConsideredFollowed'
  <2>1. considered \intersect StageSet(stage) = {}
    BY <1>1 DEF AheadParts, PartsConsidered, StageSet, TypeOK
  <2>2. deployed = {}
    BY <1>1 DEF AheadParts, MainConsistent
  <2> QED
    BY <1>1, <1>3, <1>4, <2>1, <2>2
    DEF AheadParts, ConsideredFollowed, StageSet, NoWait
<1>11. ReleasedInOrder'
  BY <1>1, <1>2, <1>3
  DEF AheadParts, ReleasedInOrder, WholeStagePushesNothing, HeldFailureWaits,
      MainConsistent, StageSet
<1> QED
  BY <1>2, <1>5, <1>6, <1>7, <1>9, <1>10, <1>11 DEF AheadInvariant

\* A change that fails ends where it is, with its checkouts and waits as they
\* are, having pushed no less than before and nothing its checkouts do not have.
LEMMA FailKeeps ==
  ASSUME AheadInvariant, NEW kind \in {"generation", "push", "detection"},
         Fail(kind), pc # "end", TasksFinished,
         remote' \in [Repo -> SUBSET Output],
         \A r \in Repo : /\ remote[r] \subseteq remote'[r]
                         /\ remote'[r] \subseteq checkout[r],
         \A o \in Released' : StageOf[o] <= stage,
         WholeStagePushesNothing', HeldFailureWaits'
  PROVE  AheadInvariant'
<1>1. AheadParts
  BY PartsAreInvariant
<1> USE DEF Fail, DropResults
<1>2. Released \subseteq Released'
  BY DEF Released
<1>3. TypeOK'
  BY <1>1 DEF AheadParts, TypeOK, GenerationTypeOK
<1>4. MainConsistent'
  BY <1>1 DEF AheadParts, MainConsistent
<1>5. TasksOfPart'
  BY DEF TasksOfPart, TasksFinished, Active, InState, Generating
<1>6. CommitsKept'
  <2>1. CommittedStage \in Nat /\ CommittedStage' \in Nat /\ CommittedStage <= CommittedStage'
    BY <1>1, GenerationAssumption
    DEF AheadParts, TypeOK, CommittedStage, GenerationAssumption
  <2>2. ASSUME NEW r \in Repo, NEW o \in checkout[r]
        PROVE  StageOf[o] <= CommittedStage'
    <3>1. StageOf[o] <= CommittedStage /\ StageOf[o] \in Nat
      BY <1>1, StagesAreOutputs, GenerationAssumption
      DEF AheadParts, CommitsKept, GenerationTypeOK, GenerationAssumption
    <3> QED
      BY <2>1, <3>1
  <2> QED
    BY <1>1, <2>2 DEF AheadParts, CommitsKept, NothingGeneratedLost
<1>7. PartsConsidered'
  BY <1>1 DEF AheadParts, PartsConsidered
<1>8. ConsideredFollowed'
  <2>1. Pending' = Pending
    BY DEF Pending
  <2> QED
    BY <1>1, <1>2, <2>1 DEF AheadParts, ConsideredFollowed, StageSet
<1>9. ReleasedInOrder'
  BY DEF ReleasedInOrder
<1> QED
  BY <1>3, <1>4, <1>5, <1>6, <1>7, <1>8, <1>9 DEF AheadInvariant

\* Once its tasks are joined the main thread has none, and they have ended.
LEMMA JoinedIsFinished ==
  ASSUME AheadParts, pc # "end", ~Generating
  PROVE  TasksFinished
  BY DEF AheadParts, TasksOfPart, TasksFinished, Active, InState, NoTask

LEMMA RaiseHeldKeeps ==
  ASSUME AheadInvariant, RaiseHeld
  PROVE  AheadInvariant'
<1>1. AheadParts /\ pc = "stage" /\ Fail("generation") /\ remote' = remote
  BY PartsAreInvariant DEF RaiseHeld
<1>2. TasksFinished
  BY <1>1, JoinedIsFinished DEF Generating
<1>3. Released' = Released /\ Released \intersect StageSet(stage) = {}
  BY <1>1 DEF Released, AheadParts, ReleasedInOrder
<1>4. WholeStagePushesNothing' /\ HeldFailureWaits'
  BY <1>1, <1>3
  DEF AheadParts, ConsideredFollowed, WholeStagePushesNothing, HeldFailureWaits,
      StageSet, Fail
<1> QED
  BY <1>1, <1>2, <1>3, <1>4, FailKeeps
  DEF AheadParts, GenerationTypeOK, CommitsKept, ReleasedInOrder

\* A part that is the whole stage is the first that is not empty.
LEMMA JoinPartFailsKeeps ==
  ASSUME AheadInvariant, JoinPartFails
  PROVE  AheadInvariant'
<1>1. /\ AheadParts /\ pc = "generate" /\ ~held /\ TasksFinished
      /\ remote' = remote
  BY PartsAreInvariant DEF JoinPartFails, AheadParts, MainConsistent
<1>2. PICK kind \in {"generation", "detection"} : Fail(kind)
  BY DEF JoinPartFails
<1>3. Released' = Released
  BY <1>1 DEF Released
<1>4. part \in Parts /\ PartOf(StageSet(stage), part) # {}
  BY <1>1 DEF AheadParts, MainConsistent
<1>5. StageSet(stage) \subseteq predicted \/ StageSet(stage) \intersect predicted = {}
        => \A k \in Parts : k < part => PartOf(StageSet(stage), k) = {}
  BY <1>4 DEF PartOf, Parts
<1>6. WholeStagePushesNothing' /\ HeldFailureWaits'
  BY <1>1, <1>2, <1>3, <1>5
  DEF AheadParts, ReleasedInOrder, WholeStagePushesNothing, HeldFailureWaits,
      StageSet, Fail
<1> QED
  BY <1>1, <1>2, <1>3, <1>6, FailKeeps
  DEF AheadParts, GenerationTypeOK, CommitsKept, ReleasedInOrder

LEMMA StageFailsKeeps ==
  ASSUME AheadInvariant, StageFails
  PROVE  AheadInvariant'
<1>1. AheadParts /\ pc = "await" /\ Fail("detection") /\ remote' = remote
  BY PartsAreInvariant DEF StageFails
<1>2. TasksFinished
  BY <1>1, JoinedIsFinished DEF Generating
<1>3. Released' = Released
  BY <1>1 DEF Released
<1>4. WholeStagePushesNothing' /\ HeldFailureWaits'
  BY <1>1 DEF WholeStagePushesNothing, HeldFailureWaits, Fail
<1> QED
  BY <1>1, <1>2, <1>3, <1>4, FailKeeps
  DEF AheadParts, GenerationTypeOK, CommitsKept, ReleasedInOrder

\* The main thread pushes to a repository it has something changed for, and a
\* push takes it nothing of a stage ahead.
LEMMA ChangedIsPushed ==
  ASSUME AheadParts, pc = "push", Changed # {}
  PROVE  /\ PushRepo \in Repo
         /\ Changed \intersect OutputsOf(PushRepo) \subseteq checkout[PushRepo]
         /\ Changed \subseteq StageSet(stage) \intersect affected \intersect generated
         /\ \A r \in Repo : \A o \in checkout[r] : o \in affected /\ StageOf[o] <= stage
<1>1. Changed \in SUBSET StageSet(stage) /\ StageSet(stage) \in SUBSET Output
  BY StagesAreOutputs DEF Changed, Fresh
<1>2. PushRepo \in Repo
  BY <1>1, FirstRepoIsOne DEF PushRepo
<1>3. Changed \subseteq StageSet(stage) \intersect affected \intersect generated
  BY DEF Changed, Fresh
<1>4. Changed \intersect OutputsOf(PushRepo) \subseteq checkout[PushRepo]
  BY <1>3 DEF AheadParts, CommitsKept, NothingGeneratedLost, OutputsOf
<1>5. CommittedStage = stage
  BY DEF CommittedStage
<1> QED
  BY <1>2, <1>3, <1>4, <1>5 DEF AheadParts, CommitsKept

LEMMA PushFailsKeeps ==
  ASSUME AheadInvariant, PushFails
  PROVE  AheadInvariant'
<1>1. AheadParts /\ pc = "push" /\ Changed # {} /\ Fail("push")
  BY PartsAreInvariant DEF PushFails
<1>2. TasksFinished
  BY <1>1, JoinedIsFinished DEF Generating
<1>3. /\ remote' \in [Repo -> SUBSET Output]
      /\ \A r \in Repo : /\ remote[r] \subseteq remote'[r]
                         /\ remote'[r] \subseteq checkout[r]
  BY <1>1 DEF PushFails, AheadParts, GenerationTypeOK, CommitsKept
<1>4. \A o \in Released' : StageOf[o] <= stage
  BY <1>1, <1>3, ChangedIsPushed DEF Released
<1>5. WholeStagePushesNothing' /\ HeldFailureWaits'
  BY <1>1 DEF WholeStagePushesNothing, HeldFailureWaits, Fail
<1> QED
  BY <1>1, <1>2, <1>3, <1>4, <1>5, FailKeeps

LEMMA JoinPartKeeps ==
  ASSUME AheadInvariant, JoinPart
  PROVE  AheadInvariant'
<1>1. AheadParts /\ pc = "generate" /\ pc' = "push" /\ ~held
  BY PartsAreInvariant DEF JoinPart, AheadParts, MainConsistent
<1> USE DEF JoinPart
<1>2. /\ generated' \subseteq Output /\ cloned' \subseteq Repo
      /\ \A o \in generated' : RepoOf[o] \in cloned'
      /\ \A o \in generated' \intersect affected : o \in checkout[RepoOf[o]]
      /\ \A r \in Repo : checkout[r] \subseteq generated'
      /\ PartOf(StageSet(stage), part) \subseteq generated'
  BY <1>1, ResultsAreKept DEF Generating
<1>3. Released' = Released /\ Pending' = Pending
  BY DEF Released, Pending
<1>4. task' \in [Repo -> Task] /\ \A r \in Repo : task'[r] = NoTask
  BY DEF Task, TaskState, NoTask
<1>5. TypeOK'
  BY <1>1, <1>2, <1>4 DEF AheadParts, TypeOK, GenerationTypeOK
<1>6. MainConsistent'
  BY <1>1 DEF AheadParts, MainConsistent, PartOf, StageSet
<1>7. TasksOfPart'
  BY <1>1, <1>4 DEF TasksOfPart, Generating
<1>8. CommitsKept'
  <2>1. CommittedStage' = CommittedStage
    BY <1>1 DEF CommittedStage
  <2> QED
    BY <1>1, <1>2, <2>1 DEF AheadParts, CommitsKept, NothingGeneratedLost
<1>9. PartsConsidered'
  BY <1>1, <1>2 DEF AheadParts, PartsConsidered, PartOf, StageSet
<1>10. ConsideredFollowed'
  BY <1>1, <1>3 DEF AheadParts, ConsideredFollowed, StageSet
<1>11. ReleasedInOrder'
  BY <1>1, <1>3
  DEF AheadParts, ReleasedInOrder, WholeStagePushesNothing, HeldFailureWaits,
      MainConsistent, StageSet
<1> QED
  BY <1>5, <1>6, <1>7, <1>8, <1>9, <1>10, <1>11 DEF AheadInvariant

LEMMA PushKeeps ==
  ASSUME AheadInvariant, Push
  PROVE  AheadInvariant'
<1>1. AheadParts /\ pc = "push" /\ pc' = "push" /\ Changed # {} /\ ~held
  BY PartsAreInvariant DEF Push, AheadParts, MainConsistent
<1> USE DEF Push
<1> DEFINE sent == Changed \intersect OutputsOf(PushRepo)
<1>2. /\ PushRepo \in Repo
      /\ sent \subseteq checkout[PushRepo]
      /\ sent \subseteq StageSet(stage) \intersect affected
      /\ \A r \in Repo : \A o \in checkout[r] : o \in affected /\ StageOf[o] <= stage
  BY <1>1, ChangedIsPushed
<1>3. /\ remote' \in [Repo -> SUBSET Output] /\ remote'[PushRepo] = checkout[PushRepo]
      /\ \A r \in Repo : /\ remote[r] \subseteq remote'[r]
                         /\ remote'[r] \subseteq checkout[r]
  BY <1>1, <1>2 DEF AheadParts, GenerationTypeOK, CommitsKept
<1>4. /\ Released \subseteq Released' /\ sent \subseteq Released'
      /\ \A o \in Released' : StageOf[o] <= stage
      /\ Pending' = Pending
  BY <1>2, <1>3 DEF Released, Pending
<1>5. /\ Fresh \subseteq StageSet(stage) /\ StageSet(stage) \subseteq Output
      /\ Fresh \intersect affected = Changed
      /\ deployed' = deployed \union sent
  BY StagesAreOutputs DEF Fresh, Changed
<1>6. /\ considered \subseteq considered' /\ considered' \subseteq considered \union Fresh
      /\ considered' \intersect affected \subseteq considered \union sent
  BY <1>5
<1> HIDE DEF sent
<1>7. TypeOK'
  BY <1>1, <1>2, <1>3, <1>5, <1>6 DEF AheadParts, TypeOK, GenerationTypeOK
<1>8. MainConsistent'
  BY <1>1 DEF AheadParts, MainConsistent, PartOf, StageSet
<1>9. TasksOfPart'
  BY <1>1 DEF AheadParts, TasksOfPart, Generating
<1>10. CommitsKept'
  BY <1>1, <1>3 DEF AheadParts, CommitsKept, NothingGeneratedLost, CommittedStage
<1>11. PartsConsidered'
  <2>1. \A o \in Fresh : StageOf[o] <= stage
    BY <1>1, <1>5, StagesAreOutputs, GenerationAssumption
    DEF StageSet, AheadParts, TypeOK, GenerationAssumption
  <2> QED
    BY <1>1, <1>6, <2>1 DEF AheadParts, PartsConsidered, PartOf, StageSet
<1>12. ConsideredFollowed'
  BY <1>1, <1>2, <1>4, <1>5, <1>6 DEF AheadParts, ConsideredFollowed, StageSet
<1>13. ReleasedInOrder'
  BY <1>1, <1>4
  DEF AheadParts, ReleasedInOrder, WholeStagePushesNothing, HeldFailureWaits,
      MainConsistent, StageSet
<1> QED
  BY <1>7, <1>8, <1>9, <1>10, <1>11, <1>12, <1>13 DEF AheadInvariant

LEMMA EndPartKeeps ==
  ASSUME AheadInvariant, EndPart
  PROVE  AheadInvariant'
<1>1. /\ AheadParts /\ pc = "push" /\ Changed = {} /\ ~held
      /\ part \in Parts /\ PartOf(StageSet(stage), part) # {}
  BY PartsAreInvariant DEF EndPart, AheadParts, MainConsistent
<1> USE DEF EndPart
<1>2. /\ task' \in [Repo -> Task] /\ TasksOfPart' /\ part' \in (part + 1)..3
      /\ \A r \in Repo : task'[r].done = {}
      /\ \/ /\ pc' = "generate" /\ part' \in Parts
            /\ PartOf(StageSet(stage), part') # {}
         \/ pc' = "ahead" /\ part' = 3
      /\ \A j \in Parts : part + 1 <= j /\ j < part' => PartOf(StageSet(stage), j) = {}
  <2>1. part + 1 \in 1..3
    BY <1>1 DEF Parts
  <2> QED
    BY <2>1, EnterPartGives
<1>3. /\ considered \subseteq considered'
      /\ considered' \subseteq considered \union StageSet(stage)
      /\ generated \intersect StageSet(stage) \subseteq considered'
      /\ considered' \intersect affected \subseteq considered
      /\ StageSet(stage) \subseteq Output
  BY <1>1, StagesAreOutputs DEF Fresh, Changed
<1>4. wait[part] = NoWait /\ wait \in [Parts -> Wait]
  BY <1>1 DEF AheadParts, ConsideredFollowed, TypeOK, Parts
<1>5. /\ \A k \in Parts \ {part} : wait'[k] = wait[k]
      /\ deployed = {} => wait'[part] = NoWait
      /\ deployed # {} => wait'[part] = [state |-> "running", todo |-> deployed]
  BY <1>1, <1>4
<1>6. wait'[part].todo = deployed
  BY <1>5 DEF NoWait
<1>7. Pending' = Pending \union deployed
  BY <1>1, <1>4, <1>5, <1>6 DEF Pending, NoWait
<1>8. Released' = Released
  BY DEF Released
<1>9. TypeOK'
  <2>1. wait' \in [Parts -> Wait]
    BY <1>1, <1>4 DEF AheadParts, TypeOK, Wait
  <2>2. considered' \subseteq Output
    BY <1>1, <1>3 DEF AheadParts, TypeOK
  <2>3. part' \in 1..3 /\ pc' \in {"generate", "ahead"}
    BY <1>1, <1>2 DEF Parts
  <2> QED
    BY <1>1, <1>2, <2>1, <2>2, <2>3 DEF AheadParts, TypeOK, GenerationTypeOK
<1>10. MainConsistent'
  BY <1>1, <1>2 DEF AheadParts, MainConsistent, PartOf, StageSet
<1>11. CommitsKept'
  <2>1. CommittedStage' = CommittedStage
    BY <1>1, <1>2 DEF CommittedStage
  <2>2. \A r \in Repo : checkout[r] \subseteq generated
    BY <1>1 DEF AheadParts, CommitsKept, TasksOfPart, Generating, NoTask
  <2> QED
    BY <1>1, <2>1, <2>2 DEF AheadParts, CommitsKept, NothingGeneratedLost
<1>12. \A k \in Parts : k < part' => PartOf(StageSet(stage), k) \subseteq considered'
  <2> SUFFICES ASSUME NEW k \in Parts, k < part'
               PROVE  PartOf(StageSet(stage), k) \subseteq considered'
    OBVIOUS
  <2>1. CASE k < part
    BY <1>1, <1>3, <2>1 DEF AheadParts, PartsConsidered
  <2>2. CASE k = part
    <3>1. PartOf(StageSet(stage), k) \subseteq generated \intersect StageSet(stage)
      BY <1>1, <2>2, PartsOfStage, StagesAreOutputs DEF AheadParts, PartsConsidered
    <3> QED
      BY <1>3, <3>1
  <2>3. CASE part < k
    BY <1>1, <1>2, <2>3 DEF Parts
  <2> QED
    BY <1>1, <2>1, <2>2, <2>3 DEF Parts
<1>13. PartsConsidered'
  <2>1. \A o \in considered' : StageOf[o] <= stage
    BY <1>1, <1>3, GenerationAssumption
    DEF AheadParts, PartsConsidered, StageSet, TypeOK, GenerationAssumption
  <2>2. pc' = "ahead" => StageSet(stage) \subseteq considered'
    BY <1>2, <1>12, PartsOfStage, StagesAreOutputs DEF Parts
  <2> QED
    BY <1>1, <1>2, <1>12, <2>1, <2>2 DEF PartsConsidered, PartOf, StageSet
<1>14. ConsideredFollowed'
  <2>1. deployed' = {} /\ stage' = stage /\ StageSet(stage)' = StageSet(stage)
    BY DEF StageSet
  <2>2. considered' \intersect affected \intersect StageSet(stage)
          \subseteq observed \union Pending'
    BY <1>1, <1>3, <1>7 DEF AheadParts, ConsideredFollowed
  <2>3. ASSUME NEW k \in Parts
        PROVE  /\ wait'[k].todo \subseteq Released \intersect StageSet(stage)
               /\ wait'[k].state \in {"none", "ok"} <=> wait'[k].todo = {}
               /\ part' <= k => wait'[k] = NoWait
    <3>1. CASE k = part
      <4>1. ~(part' <= k)
        BY <1>1, <1>2, <3>1 DEF Parts
      <4>2. deployed \subseteq Released \intersect StageSet(stage)
        BY <1>1 DEF AheadParts, ConsideredFollowed
      <4> QED
        BY <1>5, <3>1, <4>1, <4>2 DEF NoWait
    <3>2. CASE k # part
      <4>1. part' <= k => part <= k
        BY <1>1, <1>2 DEF Parts
      <4> QED
        BY <1>1, <1>5, <3>2, <4>1 DEF AheadParts, ConsideredFollowed
    <3> QED
      BY <3>1, <3>2
  <2> QED
    BY <1>1, <1>8, <2>1, <2>2, <2>3 DEF AheadParts, ConsideredFollowed
<1>15. ReleasedInOrder'
  <2>1. part \in Parts /\ part < part'
    BY <1>1, <1>2 DEF Parts
  <2> QED
    BY <1>1, <1>2, <1>8, <2>1
    DEF AheadParts, ReleasedInOrder, WholeStagePushesNothing, HeldFailureWaits,
        MainConsistent, PartOf, StageSet
<1> QED
  BY <1>2, <1>9, <1>10, <1>11, <1>13, <1>14, <1>15 DEF AheadInvariant

LEMMA GenerateAheadKeeps ==
  ASSUME AheadInvariant, GenerateAhead
  PROVE  AheadInvariant'
<1>1. AheadParts /\ pc = "ahead" /\ pc' = "aheadJoin" /\ ~held /\ stage < StageCount
  BY PartsAreInvariant DEF GenerateAhead, AheadParts, MainConsistent
<1> USE DEF GenerateAhead
<1> DEFINE S == StageSet(stage + 1)
<1>2. S \in SUBSET Output
  BY StagesAreOutputs
<1>3. part' \in Parts
  BY <1>2, PartFromIsNext, PartsOfStage, 1 \in 1..3 DEF Parts
<1>4. PartOf(S, part') \in SUBSET Output
  BY <1>2, <1>3, PartsOfStage
<1>5. \A r \in Repo :
        Missing(r)' = (PartOf(S, part') \intersect OutputsOf(r)) \ generated
  BY <1>1 DEF Missing, GeneratingStage, PartOf, OutputsOf, StageSet
<1>6. Launch(PartOf(S, part'))
  OBVIOUS
<1> HIDE DEF S
<1>7. TasksOfPart' /\ task' \in [Repo -> Task] /\ \A r \in Repo : task'[r].done = {}
  BY <1>1, <1>4, <1>5, <1>6, LaunchGivesMissing, LaunchedForPart DEF Generating
<1>8. Released' = Released /\ Pending' = Pending
  BY DEF Released, Pending
<1>9. TypeOK'
  <2>1. part' \in 1..3
    BY <1>3 DEF Parts
  <2> QED
    BY <1>1, <1>7, <2>1 DEF AheadParts, TypeOK, GenerationTypeOK
<1>10. MainConsistent'
  BY <1>1, <1>3 DEF AheadParts, MainConsistent
<1>11. CommitsKept'
  <2>1. CommittedStage = stage /\ CommittedStage' = stage + 1 /\ stage \in Nat
    BY <1>1, GenerationAssumption
    DEF CommittedStage, AheadParts, TypeOK, GenerationAssumption
  <2>2. \A r \in Repo : checkout[r] \subseteq generated
    BY <1>1 DEF AheadParts, CommitsKept, TasksOfPart, Generating, NoTask
  <2>3. ASSUME NEW r \in Repo, NEW o \in checkout[r]
        PROVE  StageOf[o] <= stage + 1
    <3>1. StageOf[o] <= stage /\ StageOf[o] \in Nat
      BY <1>1, <2>1, StagesAreOutputs, GenerationAssumption
      DEF AheadParts, CommitsKept, GenerationTypeOK, GenerationAssumption
    <3> QED
      BY <2>1, <3>1
  <2> QED
    BY <1>1, <2>1, <2>2, <2>3 DEF AheadParts, CommitsKept, NothingGeneratedLost
<1>12. PartsConsidered'
  BY <1>1 DEF AheadParts, PartsConsidered, StageSet
<1>13. ConsideredFollowed'
  BY <1>1, <1>8 DEF AheadParts, ConsideredFollowed, StageSet
<1>14. ReleasedInOrder'
  BY <1>1, <1>8
  DEF AheadParts, ReleasedInOrder, WholeStagePushesNothing, HeldFailureWaits,
      MainConsistent, StageSet
<1> QED
  BY <1>7, <1>9, <1>10, <1>11, <1>12, <1>13, <1>14 DEF AheadInvariant

\* The wait for the stage is entered with tasks joined, whatever became of them:
\* by failing to generate ahead, or with what was generated taken in.
LEMMA AwaitKeeps ==
  ASSUME AheadInvariant, pc \in {"ahead", "aheadJoin"}, pc' = "await",
         task' = [r \in Repo |-> NoTask],
         part' \in 1..3, held' \in BOOLEAN,
         generated' \subseteq Output, cloned' \subseteq Repo,
         \A o \in generated' : RepoOf[o] \in cloned',
         \A o \in generated' \intersect affected : o \in checkout[RepoOf[o]],
         held' \/ \A r \in Repo : checkout[r] \subseteq generated',
         UNCHANGED <<maxConcurrency, affected, checkout, remote, predicted,
                     stage, considered, deployed, wait, observed, outcome,
                     failure>>
  PROVE  AheadInvariant'
<1>1. AheadParts
  BY PartsAreInvariant
<1>2. Released' = Released /\ Pending' = Pending
  BY DEF Released, Pending
<1>3. task' \in [Repo -> Task] /\ \A r \in Repo : task'[r] = NoTask
  BY DEF Task, TaskState, NoTask
<1>4. TypeOK'
  BY <1>1, <1>3 DEF AheadParts, TypeOK, GenerationTypeOK
<1>5. MainConsistent'
  BY <1>1 DEF AheadParts, MainConsistent
<1>6. TasksOfPart'
  BY <1>3 DEF TasksOfPart, Generating
<1>7. CommitsKept'
  <2>1. /\ CommittedStage \in {stage, stage + 1} /\ CommittedStage' = stage + 1
        /\ stage \in Nat
    BY <1>1, GenerationAssumption
    DEF CommittedStage, AheadParts, TypeOK, GenerationAssumption
  <2>2. ASSUME NEW r \in Repo, NEW o \in checkout[r]
        PROVE  StageOf[o] <= stage + 1
    <3>1. StageOf[o] <= CommittedStage /\ StageOf[o] \in Nat
      BY <1>1, StagesAreOutputs, GenerationAssumption
      DEF AheadParts, CommitsKept, GenerationTypeOK, GenerationAssumption
    <3> QED
      BY <2>1, <3>1
  <2> QED
    BY <1>1, <2>1, <2>2 DEF AheadParts, CommitsKept, NothingGeneratedLost
<1>8. PartsConsidered'
  BY <1>1 DEF AheadParts, PartsConsidered, StageSet
<1>9. ConsideredFollowed'
  BY <1>1, <1>2 DEF AheadParts, ConsideredFollowed, StageSet
<1>10. ReleasedInOrder'
  BY <1>1, <1>2
  DEF AheadParts, ReleasedInOrder, WholeStagePushesNothing, HeldFailureWaits,
      MainConsistent, StageSet
<1> QED
  BY <1>4, <1>5, <1>6, <1>7, <1>8, <1>9, <1>10 DEF AheadInvariant

LEMMA SkipAheadKeeps ==
  ASSUME AheadInvariant, SkipAhead
  PROVE  AheadInvariant'
<1>1. AheadParts /\ pc = "ahead" /\ ~held
  BY PartsAreInvariant DEF SkipAhead, AheadParts, MainConsistent
<1>2. \A r \in Repo : task[r] = NoTask
  BY <1>1 DEF AheadParts, TasksOfPart, Generating
<1>3. task' = [r \in Repo |-> NoTask]
  BY <1>1, <1>2 DEF SkipAhead, generationVars, AheadParts, GenerationTypeOK
<1>4. \A r \in Repo : checkout[r] \subseteq generated
  BY <1>1, <1>2 DEF AheadParts, CommitsKept, NoTask
<1> QED
  BY <1>1, <1>3, <1>4, AwaitKeeps
  DEF SkipAhead, generationVars, AheadParts, TypeOK, GenerationTypeOK,
      CommitsKept, NothingGeneratedLost

LEMMA JoinAheadKeeps ==
  ASSUME AheadInvariant, JoinAhead
  PROVE  AheadInvariant'
<1> DEFINE S == StageSet(stage + 1)
           next == PartFrom(S, part + 1)
<1>1. AheadParts /\ pc = "aheadJoin" /\ ~held /\ TasksFinished
  BY PartsAreInvariant DEF JoinAhead, AheadParts, MainConsistent
<1>2. part \in Parts /\ part + 1 \in 1..3
  BY <1>1 DEF AheadParts, MainConsistent, Parts
<1>3. S \in SUBSET Output
  BY StagesAreOutputs
<1>4. next \in (part + 1)..3 /\ (next # 3 => next \in Parts)
  BY <1>2, <1>3, PartFromIsNext
<1>5. CASE TasksFailed
  <2>1. /\ held' = TRUE /\ pc' = "await" /\ part' = part
        /\ task' = [r \in Repo |-> NoTask]
        /\ UNCHANGED <<generated, cloned>>
        /\ UNCHANGED <<maxConcurrency, affected, checkout, remote, predicted,
                       stage, considered, deployed, wait, observed, outcome,
                       failure>>
    BY <1>5 DEF JoinAhead, DropResults
  <2> QED
    BY <1>1, <2>1, AwaitKeeps
    DEF AheadParts, TypeOK, GenerationTypeOK, CommitsKept, NothingGeneratedLost
<1>6. ASSUME ~TasksFailed
      PROVE  /\ KeepResults /\ held' = held /\ part' = next
             /\ UNCHANGED <<maxConcurrency, affected, checkout, remote, predicted,
                            stage, considered, deployed, wait, observed, outcome,
                            failure>>
             /\ next = 3 => pc' = "await" /\ task' = [r \in Repo |-> NoTask]
             /\ next # 3 => pc' = pc /\ Launch(PartOf(S, next))
  BY <1>6 DEF JoinAhead
<1>7. ASSUME ~TasksFailed
      PROVE  /\ generated' \subseteq Output /\ cloned' \subseteq Repo
             /\ generated \subseteq generated'
             /\ generated' \subseteq generated \union PartOf(S, part)
             /\ \A o \in generated' : RepoOf[o] \in cloned'
             /\ \A o \in generated' \intersect affected : o \in checkout[RepoOf[o]]
             /\ \A r \in Repo : checkout[r] \subseteq generated'
  <2>1. GeneratingStage = stage + 1 /\ Generating
    BY <1>1 DEF GeneratingStage, Generating
  <2> QED
    BY <1>1, <1>6, <1>7, <2>1, ResultsAreKept
<1> HIDE DEF next, S
<1>8. CASE ~TasksFailed /\ next = 3
  <2>1. pc' = "await" /\ part' \in 1..3 /\ task' = [r \in Repo |-> NoTask]
    BY <1>6, <1>8
  <2>2. held' \in BOOLEAN
    BY <1>1, <1>6, <1>8 DEF AheadParts, TypeOK
  <2>3. UNCHANGED <<maxConcurrency, affected, checkout, remote, predicted, stage,
                    considered, deployed, wait, observed, outcome, failure>>
    BY <1>6, <1>8
  <2> QED
    BY <1>1, <1>7, <1>8, <2>1, <2>2, <2>3, AwaitKeeps
<1>9. CASE ~TasksFailed /\ next # 3
  <2>1. next \in Parts /\ part < next /\ PartOf(S, next) \in SUBSET Output
    BY <1>2, <1>3, <1>4, <1>9, PartsOfStage DEF Parts
  <2>2. PartOf(S, next) \intersect PartOf(S, part) = {}
    BY <1>2, <1>3, <2>1, PartsOfStage DEF Parts
  <2>3. /\ pc' = "aheadJoin" /\ part' = next /\ Launch(PartOf(S, next))
        /\ UNCHANGED <<maxConcurrency, affected, checkout, remote, predicted,
                       stage, considered, deployed, wait, held, observed, outcome,
                       failure>>
    BY <1>1, <1>6, <1>9
  <2>4. \A r \in Repo :
          Missing(r)' = (PartOf(S, next) \intersect OutputsOf(r)) \ generated'
    BY <2>3 DEF S, Missing, GeneratingStage, PartOf, OutputsOf, StageSet
  <2>5. \A r \in Repo :
          Missing(r)' = (PartOf(S, next) \intersect OutputsOf(r)) \ generated
    BY <1>7, <1>9, <2>2, <2>4
  <2>6. TasksOfPart' /\ task' \in [Repo -> Task]
    BY <2>1, <2>3, <2>5, LaunchGivesMissing, LaunchedForPart DEF Generating
  <2>7. Released' = Released /\ Pending' = Pending
    BY <2>3 DEF Released, Pending
  <2>8. TypeOK'
    <3>1. part' \in 1..3
      BY <2>1, <2>3 DEF Parts
    <3> QED
      BY <1>1, <1>7, <1>9, <2>3, <2>6, <3>1 DEF AheadParts, TypeOK, GenerationTypeOK
  <2>9. MainConsistent'
    BY <1>1, <2>1, <2>3 DEF AheadParts, MainConsistent
  <2>10. CommitsKept'
    <3>1. CommittedStage' = CommittedStage
      BY <1>1, <2>3 DEF CommittedStage
    <3>2. \A r \in Repo : checkout[r] \subseteq generated'
      BY <1>7, <1>9
    <3> QED
      BY <1>1, <1>7, <1>9, <2>3, <3>1, <3>2
      DEF AheadParts, CommitsKept, NothingGeneratedLost
  <2>11. PartsConsidered'
    BY <1>1, <2>3 DEF AheadParts, PartsConsidered, StageSet
  <2>12. ConsideredFollowed'
    BY <1>1, <2>3, <2>7 DEF AheadParts, ConsideredFollowed, StageSet
  <2>13. ReleasedInOrder'
    BY <1>1, <2>3, <2>7
    DEF AheadParts, ReleasedInOrder, WholeStagePushesNothing, HeldFailureWaits,
        MainConsistent, StageSet
  <2> QED
    BY <2>6, <2>8, <2>9, <2>10, <2>11, <2>12, <2>13 DEF AheadInvariant
<1> QED
  BY <1>5, <1>8, <1>9

\* A stage is verified when its outputs have been decided about, what changed of
\* them has been pushed and nothing of it is waited for any more.
LEMMA VerifiedIsObserved ==
  ASSUME AheadParts, StageVerified
  PROVE  /\ affected \intersect StageSet(stage) \subseteq observed
         /\ \A k \in Parts : wait[k].todo = {}
<1>1. \A k \in Parts : wait[k].todo = {}
  BY DEF AheadParts, StageVerified, Settled, ConsideredFollowed
<1>2. Pending = {}
  BY <1>1 DEF Pending
<1>3. deployed = {} /\ StageSet(stage) \subseteq considered
  BY DEF AheadParts, StageVerified, MainConsistent, PartsConsidered
<1> QED
  BY <1>1, <1>2, <1>3 DEF AheadParts, ConsideredFollowed

LEMMA StageVerifiedKeeps ==
  ASSUME AheadInvariant, StageVerified
  PROVE  AheadInvariant'
<1>1. AheadParts /\ pc = "await" /\ deployed = {}
  BY PartsAreInvariant DEF StageVerified, AheadParts, MainConsistent
<1>2. /\ affected \intersect StageSet(stage) \subseteq observed
      /\ \A k \in Parts : wait[k].todo = {}
  BY <1>1, VerifiedIsObserved
<1> USE DEF StageVerified, generationVars
<1>3. Released' = Released /\ Pending' = {}
  BY <1>2 DEF Released, Pending
<1>4. \A r \in Repo : task[r] = NoTask
  BY <1>1 DEF AheadParts, TasksOfPart, Generating
<1>5. CASE LastStage
  <2>1. stage' = stage /\ outcome' = "done" /\ pc' = "end"
    BY <1>5
  <2>2. TasksFinished'
    BY <1>4 DEF TasksFinished, Active, InState, NoTask
  <2>3. TypeOK' /\ MainConsistent' /\ TasksOfPart'
    BY <1>1, <2>1, <2>2
    DEF AheadParts, TypeOK, GenerationTypeOK, MainConsistent, TasksOfPart, Generating
  <2>4. CommitsKept' /\ PartsConsidered'
    BY <1>1, <2>1
    DEF AheadParts, CommitsKept, NothingGeneratedLost, CommittedStage,
        PartsConsidered
  <2>5. ConsideredFollowed'
    BY <1>1, <1>2, <1>3, <2>1 DEF AheadParts, ConsideredFollowed, StageSet, Pending
  <2>6. ReleasedInOrder'
    BY <1>1, <1>3, <2>1
    DEF AheadParts, ReleasedInOrder, WholeStagePushesNothing, HeldFailureWaits,
        MainConsistent, StageSet
  <2> QED
    BY <2>3, <2>4, <2>5, <2>6 DEF AheadInvariant
<1>6. CASE ~LastStage
  <2>1. /\ stage' = stage + 1 /\ outcome' = outcome /\ pc' = "stage"
        /\ stage \in Nat /\ stage' \in 1..StageCount
    BY <1>1, <1>6, GenerationAssumption
    DEF LastStage, AheadParts, TypeOK, GenerationAssumption
  <2>2. \A o \in Output : StageOf[o] \in Nat
    BY StagesAreOutputs, GenerationAssumption DEF GenerationAssumption
  <2>3. Released \subseteq Output /\ considered \subseteq Output
    BY <1>1 DEF Released, AheadParts, TypeOK, GenerationTypeOK
  <2>4. \A o \in Output : StageOf[o] <= stage => StageOf[o] < stage' /\ StageOf[o] <= stage'
    BY <2>1, <2>2
  <2>5. TypeOK' /\ MainConsistent' /\ TasksOfPart'
    BY <1>1, <1>4, <2>1
    DEF AheadParts, TypeOK, GenerationTypeOK, MainConsistent, TasksOfPart, Generating
  <2>6. CommitsKept'
    <3>1. CommittedStage' = CommittedStage
      BY <1>1, <2>1 DEF CommittedStage
    <3> QED
      BY <1>1, <1>4, <2>1, <3>1
      DEF AheadParts, CommitsKept, NothingGeneratedLost
  <2>7. PartsConsidered'
    BY <1>1, <2>1, <2>3, <2>4 DEF AheadParts, PartsConsidered
  <2>8. \A o \in Output : StageOf[o] <= stage => o \notin StageSet(stage)'
    BY <2>1, <2>2 DEF StageSet
  <2>9. \A o \in affected : StageOf[o] < stage' => o \in observed
    <3> SUFFICES ASSUME NEW o \in affected, StageOf[o] < stage'
                 PROVE  o \in observed
      OBVIOUS
    <3>1. o \in Output /\ (StageOf[o] < stage \/ StageOf[o] = stage)
      BY <1>1, <2>1, <2>2 DEF AheadParts, TypeOK, GenerationTypeOK
    <3> QED
      BY <1>1, <1>2, <3>1 DEF AheadParts, ConsideredFollowed, StageSet
  <2>10. ConsideredFollowed'
    <3>1. considered \intersect StageSet(stage)' = {}
      BY <1>1, <2>3, <2>8 DEF AheadParts, PartsConsidered
    <3> QED
      BY <1>1, <1>2, <1>3, <2>1, <2>9, <3>1 DEF AheadParts, ConsideredFollowed
  <2>11. ReleasedInOrder'
    <3>1. Released \intersect StageSet(stage)' = {}
      BY <1>1, <2>3, <2>8 DEF AheadParts, ReleasedInOrder
    <3> QED
      BY <1>1, <1>3, <2>1, <2>3, <2>4, <3>1
      DEF AheadParts, ReleasedInOrder, WholeStagePushesNothing, HeldFailureWaits,
          MainConsistent
  <2> QED
    BY <2>5, <2>6, <2>7, <2>10, <2>11 DEF AheadInvariant
<1> QED
  BY <1>5, <1>6

-----------------------------------------------------------------------------
(* What the waits do keeps the invariant *)

\* A wait's step moves a deployment from what it has to see to what is seen, or
\* gives up.
LEMMA WaitMoveKeeps ==
  ASSUME AheadInvariant, NEW k \in Parts, NEW w \in Wait,
         UNCHANGED <<generationVars, mainVars>>,
         wait[k].state = "running", wait' = [wait EXCEPT ![k] = w],
         w.todo \subseteq wait[k].todo, w.state \in {"none", "ok"} <=> w.todo = {},
         observed \subseteq observed', observed' \subseteq observed \union wait[k].todo,
         wait[k].todo \subseteq observed' \union w.todo
  PROVE  AheadInvariant'
<1>1. AheadParts
  BY PartsAreInvariant
<1> USE DEF generationVars, mainVars
<1>2. \A j \in Parts : wait'[j] = IF j = k THEN w ELSE wait[j]
  BY <1>1 DEF AheadParts, TypeOK
<1>3. observed' \union Pending' = observed \union Pending
  BY <1>2 DEF Pending
<1>4. Released' = Released
  BY DEF Released
<1>5. TypeOK'
  <2>1. wait' \in [Parts -> Wait]
    BY <1>1 DEF AheadParts, TypeOK
  <2>2. wait[k].todo \subseteq Output
    BY <1>1 DEF AheadParts, TypeOK, Wait
  <2> QED
    BY <1>1, <2>1, <2>2 DEF AheadParts, TypeOK, GenerationTypeOK
<1>6. MainConsistent' /\ PartsConsidered'
  BY <1>1 DEF AheadParts, MainConsistent, PartsConsidered, PartOf, StageSet
<1>7. TasksOfPart'
  BY <1>1
  DEF AheadParts, TasksOfPart, TaskOfPart, Generating, Missing, GeneratingStage,
      PartOf, StageSet, OutputsOf, TasksFinished, Active, InState
<1>8. CommitsKept'
  BY <1>1 DEF AheadParts, CommitsKept, NothingGeneratedLost, CommittedStage
<1>9. ConsideredFollowed'
  <2>1. wait[k].todo \subseteq Released \intersect StageSet(stage)
    BY <1>1 DEF AheadParts, ConsideredFollowed
  <2>2. wait[k] # NoWait
    BY DEF NoWait
  <2>3. observed' \subseteq Released
    BY <1>1, <2>1 DEF AheadParts, ConsideredFollowed
  <2> QED
    BY <1>1, <1>2, <1>3, <1>4, <2>1, <2>2, <2>3
    DEF AheadParts, ConsideredFollowed, StageSet
<1>10. ReleasedInOrder'
  <2>1. WholeStagePushesNothing'
    BY <1>1, <1>4 DEF AheadParts, ReleasedInOrder, WholeStagePushesNothing, StageSet
  <2>2. HeldFailureWaits'
    BY <1>1, <1>4 DEF AheadParts, ReleasedInOrder, HeldFailureWaits, StageSet
  <2> QED
    BY <1>1, <1>4, <2>1, <2>2 DEF AheadParts, ReleasedInOrder, PartOf, StageSet
<1> QED
  BY <1>5, <1>6, <1>7, <1>8, <1>9, <1>10 DEF AheadInvariant

\* What a wait observes next is one of the deployments it was started for.
LEMMA ObserveIsPending ==
  ASSUME AheadInvariant, NEW k \in Parts, Observe(k)
  PROVE  \E o \in wait[k].todo :
           /\ observed' = observed \union {o}
           /\ wait' = [wait EXCEPT ![k] =
                         [state |-> IF wait[k].todo = {o} THEN "ok" ELSE "running",
                          todo  |-> wait[k].todo \ {o}]]
<1> DEFINE todo == wait[k].todo
           i == CHOOSE i \in 1..StageCount : todo \subseteq StageSet(i)
           r == FirstRepo(StageSet(i), ReposOf(todo))
           o == FirstOutput(todo \intersect OutputsOf(r))
<1>1. /\ AheadParts /\ wait[k] \in Wait
      /\ wait' = [wait EXCEPT ![k] =
                    [state |-> IF todo = {o} THEN "ok" ELSE "running",
                     todo  |-> todo \ {o}]]
      /\ observed' = observed \union {o}
  BY PartsAreInvariant DEF AheadParts, TypeOK, Observe
<1>2. todo # {} /\ todo \in SUBSET Output /\ todo \subseteq StageSet(stage)
  BY <1>1 DEF AheadParts, ConsideredFollowed, Wait, Observe
<1>3. stage \in 1..StageCount
  BY <1>1 DEF AheadParts, TypeOK
<1>4. todo \subseteq StageSet(i)
  BY <1>2, <1>3
<1> HIDE DEF i, todo
<1>5. todo \intersect OutputsOf(r) # {}
  BY <1>2, <1>4, FirstRepoIsOne, StagesAreOutputs
<1> HIDE DEF r
<1>6. o \in todo
  BY <1>2, <1>5, FirstOutputIsOne
<1> HIDE DEF o
<1> QED
  BY <1>1, <1>6 DEF todo

LEMMA WaitStepKeeps ==
  ASSUME AheadInvariant, NEW k \in Parts, WaitStep(k)
  PROVE  AheadInvariant'
<1>1. AheadParts /\ wait[k] \in Wait
  BY PartsAreInvariant DEF AheadParts, TypeOK
<1>2. wait[k].state = "running" /\ UNCHANGED <<generationVars, mainVars>>
  BY DEF WaitStep, Observe, DetectionFails
<1>3. CASE Observe(k)
  <2>1. PICK o \in wait[k].todo :
          /\ observed' = observed \union {o}
          /\ wait' = [wait EXCEPT ![k] =
                        [state |-> IF wait[k].todo = {o} THEN "ok" ELSE "running",
                         todo  |-> wait[k].todo \ {o}]]
    BY <1>3, ObserveIsPending
  <2> DEFINE w == [state |-> IF wait[k].todo = {o} THEN "ok" ELSE "running",
                   todo  |-> wait[k].todo \ {o}]
  <2>2. /\ w \in Wait /\ w.todo = wait[k].todo \ {o}
        /\ w.state \in {"none", "ok"} <=> w.todo = {}
    BY <1>1, <2>1 DEF Wait
  <2>3. wait' = [wait EXCEPT ![k] = w]
    BY <2>1
  <2> HIDE DEF w
  <2> QED
    BY <1>2, <2>1, <2>2, <2>3, WaitMoveKeeps
<1>4. CASE DetectionFails(k)
  <2> DEFINE w == [wait[k] EXCEPT !.state = "failed"]
  <2>1. wait[k].todo # {}
    BY <1>1, <1>2 DEF AheadParts, ConsideredFollowed
  <2>2. w \in Wait /\ w.todo = wait[k].todo /\ w.state = "failed"
    BY <1>1 DEF Wait
  <2>3. wait' = [wait EXCEPT ![k] = w] /\ observed' = observed
    BY <1>1, <1>4 DEF DetectionFails, AheadParts, TypeOK
  <2> HIDE DEF w
  <2> QED
    BY <1>2, <2>1, <2>2, <2>3, WaitMoveKeeps
<1> QED
  BY <1>3, <1>4 DEF WaitStep

LEMMA UnchangedKeeps ==
  ASSUME AheadInvariant, UNCHANGED vars
  PROVE  AheadInvariant'
<1>1. AheadParts
  BY PartsAreInvariant
<1> USE DEF vars, generationVars, mainVars
<1>2. MainUnchanged /\ OthersUnchanged /\ UNCHANGED <<task, checkout>>
  BY DEF MainUnchanged, OthersUnchanged
<1>3. TypeOK' /\ CommitsKept'
  BY <1>1 DEF AheadParts, TypeOK, GenerationTypeOK, CommitsKept,
              NothingGeneratedLost, CommittedStage
<1>4. TasksOfPart'
  BY <1>1, <1>2, OnlyTasksMove
  DEF AheadParts, TasksOfPart, TaskOfPart, TasksFinished, Active, InState
<1> QED
  BY <1>1, <1>2, <1>3, <1>4, OnlyTasksMove DEF AheadParts, AheadInvariant

-----------------------------------------------------------------------------
(* Theorems *)

\* Whatever the main thread, the tasks of the pool and the waits do, in any
\* order, the invariant holds (_deploy_generating_while_waiting, with the tasks
\* of _generate_missing and the threads of its waits).
THEOREM AheadHolds == Spec => []AheadInvariant
<1>1. Init => AheadInvariant
  BY AheadInit
<1>2. AheadInvariant /\ [Next]_vars => AheadInvariant'
  <2> SUFFICES ASSUME AheadInvariant, [Next]_vars PROVE AheadInvariant'
    OBVIOUS
  <2>1. CASE MainStep
    BY <2>1, StartStageKeeps, RaiseHeldKeeps, JoinPartKeeps, JoinPartFailsKeeps,
       PushKeeps, PushFailsKeeps, EndPartKeeps, GenerateAheadKeeps,
       SkipAheadKeeps, JoinAheadKeeps, StageVerifiedKeeps, StageFailsKeeps
    DEF MainStep
  <2>2. CASE \E r \in Repo : GenerationStep(r)
    BY <2>2, TaskStepKeeps DEF GenerationStep, MainUnchanged
  <2>3. CASE \E k \in Parts : WaitStep(k)
    BY <2>3, WaitStepKeeps
  <2>4. CASE Ended \/ UNCHANGED vars
    BY <2>4, UnchangedKeeps DEF Ended
  <2> QED
    BY <2>1, <2>2, <2>3, <2>4 DEF Next
<1> QED
  BY <1>1, <1>2, PTL DEF Spec

\* No clone throws away what was generated and not pushed, however often a
\* repository is returned to.
THEOREM NothingGeneratedIsEverLost == Spec => []NothingGeneratedLost
<1>1. AheadInvariant => NothingGeneratedLost
  BY DEF AheadInvariant, CommitsKept
<1> QED
  BY <1>1, AheadHolds, PTL

\* An output's commit is made once: a task never has an output to do that the
\* main thread holds a result for or its checkout already has.
THEOREM NothingIsGeneratedTwice == Spec => []GeneratedOnce
<1>1. AheadInvariant => GeneratedOnce
  <2> SUFFICES ASSUME AheadInvariant, NEW r \in Active
               PROVE  task[r].todo \intersect (generated \union checkout[r]) = {}
    BY DEF GeneratedOnce
  <2>1. AheadParts /\ r \in Repo /\ task[r].state # "none"
    BY PartsAreInvariant DEF Active, InState
  <2>2. Generating
    <3>1. pc # "end"
      BY <2>1 DEF AheadParts, TasksOfPart, TasksFinished
    <3> QED
      BY <2>1, <3>1 DEF AheadParts, TasksOfPart, NoTask
  <2>3. TaskOfPart(r) /\ ~held /\ pc # "end"
    BY <2>1, <2>2 DEF AheadParts, TasksOfPart, MainConsistent, Generating
  <2>4. checkout[r] \subseteq generated \union task[r].done
    BY <2>1, <2>3 DEF AheadParts, CommitsKept
  <2> QED
    BY <2>3, <2>4 DEF TaskOfPart, Missing
<1> QED
  BY <1>1, AheadHolds, PTL

\* A stage generated as one part pushes nothing of itself if any of it fails to
\* generate, in however many repositories it is (README, "Concurrency").
THEOREM WholeStageAlwaysPushesNothing == Spec => []WholeStagePushesNothing
<1>1. AheadInvariant => WholeStagePushesNothing
  BY DEF AheadInvariant, ReleasedInOrder
<1> QED
  BY <1>1, AheadHolds, PTL

\* A failure of generating ahead waits for the verdict on the stage before.
THEOREM HeldFailureAlwaysWaits == Spec => []HeldFailureWaits
<1>1. AheadInvariant => HeldFailureWaits
  BY DEF AheadInvariant, ReleasedInOrder
<1> QED
  BY <1>1, AheadHolds, PTL

\* When a change ends no task is generating into the workspace it leaves.
THEOREM WorkspaceIsQuiet == Spec => []WorkspaceQuiet
<1>1. AheadInvariant => WorkspaceQuiet
  BY DEF AheadInvariant, TasksOfPart, TasksFinished, WorkspaceQuiet
<1> QED
  BY <1>1, AheadHolds, PTL

-----------------------------------------------------------------------------
(* RolloutAhead implements RolloutGate *)

LEMMA InitRefines == Init => Gate!Init
  BY GenerationAssumption
  DEF GenerationAssumption, Init, GenerationInit, Gate!Init, Released

\* What a push may add to what is released was due: a checkout has nothing of a
\* stage ahead, and what of the stages behind was affected is released already.
LEMMA PushedIsDue ==
  ASSUME AheadParts, pc = "push", Changed # {},
         \A r \in Repo : remote'[r] \subseteq remote[r] \union checkout[r]
  PROVE  Released' \subseteq Released \union Gate!Due
<1> SUFFICES ASSUME NEW o \in Released', o \notin Released
             PROVE  o \in Gate!Due
  OBVIOUS
<1>1. PICK r \in Repo : o \in checkout[r]
  BY DEF Released
<1>2. o \in Output /\ o \in affected /\ StageOf[o] <= stage
  BY <1>1, ChangedIsPushed DEF AheadParts, GenerationTypeOK
<1>3. ~(StageOf[o] < stage)
  BY <1>2 DEF AheadParts, ConsideredFollowed
<1>4. StageOf[o] = stage
  BY <1>2, <1>3, StagesAreOutputs, GenerationAssumption
  DEF AheadParts, TypeOK, GenerationAssumption
<1> QED
  BY <1>2, <1>4 DEF Gate!Due, Gate!OfStage

LEMMA FailRefines ==
  ASSUME AheadParts, pc # "end", NEW kind, Fail(kind),
         Released \subseteq Released', Released' \subseteq Released \union Gate!Due
  PROVE  Gate!Next
<1> DEFINE S == Released' \ Released
<1>1. S \in SUBSET Gate!Due /\ Released' = Released \union S
  OBVIOUS
<1>2. outcome = "running" /\ outcome' = "failed"
  BY DEF AheadParts, MainConsistent, TypeOK, Fail
<1> HIDE DEF S
<1>3. Gate!Fail(S)
  BY <1>1, <1>2 DEF Fail, Gate!Fail
<1> QED
  BY <1>1, <1>3 DEF Gate!Next

LEMMA PushRefines ==
  ASSUME AheadParts, Push
  PROVE  [Gate!Next]_(Gate!gateVars)
<1>1. /\ pc = "push" /\ Changed # {}
      /\ UNCHANGED <<affected, stage, observed, outcome>>
      /\ outcome = "running"
  BY DEF Push, AheadParts, MainConsistent, TypeOK
<1>2. PushRepo \in Repo
  BY <1>1, ChangedIsPushed
<1>3. \A r \in Repo : /\ remote[r] \subseteq remote'[r]
                      /\ remote'[r] \subseteq remote[r] \union checkout[r]
  BY <1>2 DEF Push, AheadParts, GenerationTypeOK, CommitsKept
<1> DEFINE S == Released' \ Released
<1>4. Released \subseteq Released'
  BY <1>3 DEF Released
<1>5. S \in SUBSET Gate!Due /\ Released' = Released \union S
  BY <1>1, <1>3, <1>4, PushedIsDue
<1> HIDE DEF S
<1>6. CASE S = {}
  BY <1>1, <1>5, <1>6 DEF Gate!gateVars
<1>7. CASE S # {}
  <2>1. Gate!Release(S)
    BY <1>1, <1>5, <1>7 DEF Gate!Release
  <2> QED
    BY <1>5, <2>1 DEF Gate!Next
<1> QED
  BY <1>6, <1>7

LEMMA MainFailsRefine ==
  ASSUME AheadParts, RaiseHeld \/ JoinPartFails \/ PushFails \/ StageFails
  PROVE  Gate!Next
<1>1. CASE RaiseHeld \/ JoinPartFails \/ StageFails
  <2>1. PICK kind \in {"generation", "detection"} : Fail(kind)
    BY <1>1 DEF RaiseHeld, JoinPartFails, StageFails
  <2>2. pc # "end" /\ remote' = remote
    BY <1>1 DEF RaiseHeld, JoinPartFails, StageFails
  <2>3. Released' = Released
    BY <2>2 DEF Released
  <2> QED
    BY <2>1, <2>2, <2>3, FailRefines
<1>2. CASE PushFails
  <2>1. pc = "push" /\ Changed # {} /\ Fail("push")
    BY <1>2 DEF PushFails
  <2>2. \A r \in Repo : /\ remote[r] \subseteq remote'[r]
                        /\ remote'[r] \subseteq remote[r] \union checkout[r]
    BY <1>2 DEF PushFails, AheadParts, GenerationTypeOK, CommitsKept
  <2>3. Released \subseteq Released'
    BY <2>2 DEF Released
  <2> QED
    BY <2>1, <2>2, <2>3, PushedIsDue, FailRefines
<1> QED
  BY <1>1, <1>2

LEMMA StageVerifiedRefines ==
  ASSUME AheadParts, StageVerified
  PROVE  Gate!Next
<1>1. affected \intersect StageSet(stage) \subseteq observed
  BY VerifiedIsObserved
<1>2. outcome = "running" /\ stage \in 1..StageCount
  BY DEF AheadParts, MainConsistent, TypeOK, StageVerified
<1>3. Released' = Released /\ UNCHANGED <<affected, observed>>
  BY DEF StageVerified, generationVars, Released
<1>4. \/ stage < StageCount /\ stage' = stage + 1 /\ outcome' = outcome
      \/ stage = StageCount /\ outcome' = "done" /\ stage' = stage
  BY <1>2, GenerationAssumption DEF StageVerified, LastStage, GenerationAssumption
<1>5. Gate!Verified
  BY <1>1 DEF Gate!Verified, Gate!OfStage, StageSet
<1> QED
  BY <1>2, <1>3, <1>4, <1>5 DEF Gate!Next, Gate!NextStage

LEMMA ObserveRefines ==
  ASSUME AheadInvariant, NEW k \in Parts, Observe(k)
  PROVE  Gate!Next
<1>1. PICK o \in wait[k].todo : observed' = observed \union {o}
  BY ObserveIsPending
<1>2. o \in Released
  BY <1>1 DEF AheadInvariant, ConsideredFollowed
<1>3. Released' = Released /\ UNCHANGED <<affected, stage, outcome>>
  BY DEF Observe, generationVars, mainVars, Released
<1> QED
  BY <1>1, <1>2, <1>3 DEF Gate!Next, Gate!Observe

\* The other steps are the detailed specification's own.
LEMMA OwnStepsStutter ==
  ASSUME UNCHANGED <<affected, stage, remote, observed, outcome>>
  PROVE  UNCHANGED Gate!gateVars
  BY DEF Gate!gateVars, Released

LEMMA StepRefines ==
  AheadInvariant /\ [Next]_vars => [Gate!Next]_(Gate!gateVars)
<1> SUFFICES ASSUME AheadInvariant, [Next]_vars
             PROVE  [Gate!Next]_(Gate!gateVars)
  OBVIOUS
<1>1. AheadParts
  BY PartsAreInvariant
<1>2. CASE StartStage \/ JoinPart \/ EndPart \/ GenerateAhead
  BY <1>2, OwnStepsStutter DEF StartStage, JoinPart, EndPart, GenerateAhead
<1>3. CASE SkipAhead \/ JoinAhead
  BY <1>3, OwnStepsStutter DEF SkipAhead, JoinAhead, generationVars
<1>4. CASE RaiseHeld \/ JoinPartFails \/ PushFails \/ StageFails
  BY <1>1, <1>4, MainFailsRefine
<1>5. CASE Push
  BY <1>1, <1>5, PushRefines
<1>6. CASE StageVerified
  BY <1>1, <1>6, StageVerifiedRefines
<1>7. ASSUME NEW r \in Repo, GenerationStep(r)
      PROVE  UNCHANGED Gate!gateVars
  <2>1. UNCHANGED <<affected, remote>>
    BY <1>7 DEF GenerationStep, TaskStep, StartTask, Clone, BeginOutput,
                FinishOutput, TaskEnds, TaskFails
  <2>2. UNCHANGED <<stage, observed, outcome>>
    BY <1>7 DEF GenerationStep, mainVars
  <2> QED
    BY <2>1, <2>2, OwnStepsStutter
<1>8. ASSUME NEW k \in Parts, WaitStep(k)
      PROVE  [Gate!Next]_(Gate!gateVars)
  <2>1. CASE Observe(k)
    BY <2>1, ObserveRefines
  <2>2. CASE DetectionFails(k)
    BY <2>2, OwnStepsStutter DEF DetectionFails, generationVars, mainVars
  <2> QED
    BY <1>8, <2>1, <2>2 DEF WaitStep
<1>9. CASE Ended \/ UNCHANGED vars
  BY <1>9, OwnStepsStutter DEF Ended, vars, generationVars, mainVars
<1> QED
  BY <1>2, <1>3, <1>4, <1>5, <1>6, <1>7, <1>8, <1>9 DEF Next, MainStep

\* Whatever was predicted, generated ahead or failed, and however the threads
\* interleave, outputs are pushed and observed in the order RolloutGate promises.
THEOREM AheadImplementsGate == Spec => ImplementsGate
<1>1. Init => Gate!Init
  BY InitRefines
<1>2. AheadInvariant /\ [Next]_vars => [Gate!Next]_(Gate!gateVars)
  BY StepRefines
<1> QED
  BY <1>1, <1>2, AheadHolds, PTL DEF Spec, ImplementsGate, Gate!GateSpec

-----------------------------------------------------------------------------
(* What the gate promises, of RolloutAhead *)

GateProofs == INSTANCE RolloutGateProofs WITH released <- Released

\* An output is on its branch only if every affected output of the stages before
\* its own was seen in its cluster, and a change answered as deployed has all it
\* affects there (the docstring of _deploy_generating_while_waiting: "never
\* reorders a deployment").
THEOREM GeneratingAheadNeverReorders ==
  Spec => [](Gate!StageOrder /\ Gate!DoneMeansDeployed)
<1>1. GateProofs!GateAssumption
  BY GenerationAssumption DEF GenerationAssumption, GateProofs!GateAssumption
<1>2. GateProofs!GateSpec => []GateProofs!StageOrder
  BY <1>1, GateProofs!StagesAreOrdered
<1>3. GateProofs!GateSpec => []GateProofs!DoneMeansDeployed
  BY <1>1, GateProofs!DoneIsDeployed
<1>4. Gate!Init => GateProofs!Init
  BY DEF Gate!Init, GateProofs!Init
<1>5. [Gate!Next]_(Gate!gateVars) => [GateProofs!Next]_(GateProofs!gateVars)
  BY DEF Gate!Next, Gate!Release, Gate!Fail, Gate!Observe, Gate!NextStage,
         Gate!Verified, Gate!Due, Gate!OfStage, Gate!gateVars,
         GateProofs!Next, GateProofs!Release, GateProofs!Fail,
         GateProofs!Observe, GateProofs!NextStage, GateProofs!Verified,
         GateProofs!Due, GateProofs!OfStage, GateProofs!gateVars
<1>6. GateProofs!StageOrder /\ GateProofs!DoneMeansDeployed
        => Gate!StageOrder /\ Gate!DoneMeansDeployed
  BY DEF Gate!StageOrder, Gate!DoneMeansDeployed, GateProofs!StageOrder,
         GateProofs!DoneMeansDeployed
<1> QED
  BY <1>2, <1>3, <1>4, <1>5, <1>6, AheadImplementsGate, PTL
  DEF ImplementsGate, Gate!GateSpec, GateProofs!GateSpec
==============================================================================
