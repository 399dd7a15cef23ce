-------------------------- MODULE RolloutPlainProofs --------------------------
(***************************************************************************)
(* Proofs about the plain stage loop, for any outputs, repositories,       *)
(* stages and workers: its variables keep their types, a generation that   *)
(* fails pushes nothing of its stage, a change that is answered as done    *)
(* has pushed everything it affects and has it followed, repositories are  *)
(* pushed in order, and with rollouts the loop implements RolloutGate.     *)
(***************************************************************************)
EXTENDS RolloutPlain, FiniteSetTheorems, WellFoundedInduction, TLAPS

(* Choosing the first of a set of outputs *)

\* A set of outputs that is not empty has a first one in configured order: of
\* the sets of outputs ahead of one, one has no other of them as a proper part.
LEMMA FirstOutputIsFirst ==
  ASSUME NEW S \in SUBSET Output, S # {}
  PROVE  /\ FirstOutput(S) \in S
         /\ \A p \in S : Position[FirstOutput(S)] <= Position[p]
<1> DEFINE Ahead(o) == {p \in S : Position[p] < Position[o]}
           T == {Ahead(o) : o \in S}
<1>1. IsFiniteSet(S)
  BY FS_Subset, GenerationAssumption DEF GenerationAssumption
<1>2. FiniteSubsetsOf(S) = SUBSET S
  BY <1>1, FS_FiniteSubsetsOfFinite
<1>3. IsWellFoundedOn(StrictSubsetOrdering(S), SUBSET S)
  BY <1>2, FS_StrictSubsetOrderingWellFounded
<1>4. T \subseteq SUBSET S /\ T # {}
  OBVIOUS
<1>5. PICK A \in T : \A B \in T : <<B, A>> \notin StrictSubsetOrdering(S)
  <2> HIDE DEF T
  <2> QED
    BY <1>3, <1>4, WFMin
<1>6. PICK o \in S : A = Ahead(o)
  OBVIOUS
<1>7. ASSUME NEW p \in S
      PROVE  Position[o] <= Position[p]
  <2> SUFFICES ASSUME Position[p] < Position[o] PROVE FALSE
    BY GenerationAssumption DEF GenerationAssumption
  <2>1. Ahead(p) \subseteq A /\ p \in A /\ p \notin Ahead(p)
    BY <1>6, GenerationAssumption DEF GenerationAssumption
  <2>2. <<Ahead(p), A>> \in StrictSubsetOrdering(S)
    BY <2>1, <1>4 DEF StrictSubsetOrdering
  <2> QED
    BY <2>2, <1>5
<1> QED
  BY <1>7 DEF FirstOutput

LEMMA NextDeploymentIsDue ==
  ASSUME toFollow \subseteq Deploys(stage), toFollow # {}
  PROVE  NextDeployment \in toFollow
<1>1. Deploys(stage) \subseteq Output
  BY DEF Deploys, StageSet
<1> DEFINE due == {o \in Deploys(stage) : RepoOf[o] \in ReposOf(toFollow)}
<1>2. due # {} /\ due \in SUBSET Output
  BY <1>1 DEF ReposOf
<1>3. FirstOutput(due) \in due
  BY <1>2, FirstOutputIsFirst
<1> HIDE DEF due
<1>4. RepoOf[FirstOutput(due)] \in ReposOf(toFollow)
  BY <1>3 DEF due
<1>5. toFollow \intersect OutputsOf(RepoOf[FirstOutput(due)]) # {}
  BY <1>1, <1>4 DEF ReposOf, OutputsOf
<1> QED
  BY <1>1, <1>5, FirstOutputIsFirst DEF NextDeployment, FirstRepo, due

-----------------------------------------------------------------------------
LEMMA PlainInit == Init => PlainInvariant
<1> SUFFICES ASSUME Init PROVE PlainInvariant
  OBVIOUS
<1> USE GenerationAssumption DEF GenerationAssumption, Init, GenerationInit
<1>1. TypeOK
  <2>1. GenerationTypeOK
    BY DEF GenerationTypeOK, Task, TaskState, NoTask
  <2>2. rollouts \in BOOLEAN /\ detect \in BOOLEAN
    <3>1. CASE rollouts
      BY <3>1
    <3>2. CASE ~rollouts
      BY <3>2
    <3> QED
      BY <3>1, <3>2
  <2>3. stage \in 1..StageCount
    OBVIOUS
  <2> QED
    BY <2>1, <2>2, <2>3 DEF TypeOK
<1>2. MainConsistent
  BY DEF MainConsistent
<1>3. NothingAheadCommitted /\ Released = {}
  BY DEF NothingAheadCommitted, Released
<1>4. TasksOfStage
  BY DEF TasksOfStage, NoTask
<1>5. Behind = {}
  BY DEF Behind
<1> QED
  BY <1>1, <1>2, <1>3, <1>4, <1>5
  DEF PlainInvariant, StageGeneratedFirst, PushedAsReached, FollowedAfterPush,
      DoneMeansPushed

-----------------------------------------------------------------------------
(* What the tasks of the pool do keeps the invariant *)

LEMMA StagesDeployOutputs ==
  /\ Deploys(stage) \subseteq Output
  /\ Reached \subseteq Output
  BY DEF Reached, Behind, Deploys, StageSet

MainUnchanged == UNCHANGED <<mainVars, followed, ended, observed>>
OthersUnchanged == UNCHANGED <<maxConcurrency, affected, remote, cloned, generated>>

\* A task's step changes nothing but its own task and its own checkout, which
\* keeps what is pushed and gets nothing of a stage ahead, and goes without no
\* output it would have had.
LEMMA TaskMoveKeeps ==
  ASSUME PlainInvariant, NEW r \in Repo, NEW t \in Task, NEW c \in SUBSET Reached,
         MainUnchanged, OthersUnchanged,
         pc \in {"generate", "end"},
         task' = [task EXCEPT ![r] = t],
         checkout' = [checkout EXCEPT ![r] = c],
         t.todo \union t.done \subseteq Deploys(stage) \intersect OutputsOf(r),
         t.state = "generating" => t.todo # {},
         t.state \in {"none", "ok"} => t.todo = {},
         t.state \in {"queued", "cloning"} =>
           t.todo = Deploys(stage) \intersect OutputsOf(r),
         remote[r] \subseteq c,
         \A o \in Deploys(stage) \intersect OutputsOf(r) \intersect affected :
           o \in checkout[r] \union task[r].todo => o \in c \union t.todo
  PROVE  PlainInvariant'
<1> USE DEF MainUnchanged, OthersUnchanged, mainVars, config
<1>1. /\ TypeOK /\ GenerationTypeOK /\ MainConsistent /\ NothingAheadCommitted
      /\ TasksOfStage /\ StageGeneratedFirst /\ PushedAsReached
      /\ FollowedAfterPush /\ DoneMeansPushed
  BY DEF PlainInvariant, TypeOK
<1>2. /\ \A q \in Repo : task'[q] = IF q = r THEN t ELSE task[q]
      /\ \A q \in Repo : checkout'[q] = IF q = r THEN c ELSE checkout[q]
      /\ Behind' = Behind /\ Reached' = Reached /\ Released' = Released
      /\ Deploys(stage)' = Deploys(stage)
  BY <1>1 DEF GenerationTypeOK, Behind, Reached, Released, Deploys, StageSet
<1>3. TypeOK'
  <2>1. GenerationTypeOK'
    BY <1>1, StagesDeployOutputs DEF GenerationTypeOK
  <2> QED
    BY <1>1, <2>1 DEF TypeOK
<1>4. MainConsistent'
  BY <1>1, <1>2 DEF MainConsistent
<1>5. NothingAheadCommitted'
  BY <1>1, <1>2 DEF NothingAheadCommitted
<1>6. TasksOfStage'
  BY <1>1, <1>2 DEF TasksOfStage
<1>7. StageGeneratedFirst'
  <2>1. ASSUME pc = "generate", NEW o \in Deploys(stage) \intersect affected
        PROVE  o \in checkout'[RepoOf[o]] \union task'[RepoOf[o]].todo
    <3>1. o \in Output /\ RepoOf[o] \in Repo
      BY StagesDeployOutputs, GenerationAssumption DEF GenerationAssumption
    <3>2. o \in checkout[RepoOf[o]] \union task[RepoOf[o]].todo
      BY <1>1, <2>1 DEF StageGeneratedFirst
    <3>3. CASE RepoOf[o] = r
      BY <1>2, <3>1, <3>2, <3>3 DEF OutputsOf
    <3>4. CASE RepoOf[o] # r
      BY <1>2, <3>1, <3>2, <3>4
    <3> QED
      BY <3>3, <3>4
  <2> QED
    BY <1>1, <1>2, <2>1 DEF StageGeneratedFirst
<1>8. PushedAsReached' /\ FollowedAfterPush' /\ DoneMeansPushed'
  BY <1>1, <1>2 DEF PushedAsReached, FollowedAfterPush, DoneMeansPushed
<1> QED
  BY <1>3, <1>4, <1>5, <1>6, <1>7, <1>8 DEF PlainInvariant

\* Most steps of a task only take it to another state.
LEMMA TaskStateKeeps ==
  ASSUME PlainInvariant, NEW r \in Repo, NEW state \in TaskState,
         MainUnchanged, OthersUnchanged, checkout' = checkout,
         pc \in {"generate", "end"},
         task' = [task EXCEPT ![r].state = state],
         state = "generating" => task[r].todo # {},
         state \in {"none", "ok"} => task[r].todo = {},
         state \in {"queued", "cloning"} =>
           task[r].todo = Deploys(stage) \intersect OutputsOf(r)
  PROVE  PlainInvariant'
<1> DEFINE t == [task[r] EXCEPT !.state = state]
<1>1. /\ task[r] \in Task /\ checkout \in [Repo -> SUBSET Output]
      /\ checkout[r] \in SUBSET Reached /\ remote[r] \subseteq checkout[r]
      /\ task[r].todo \union task[r].done \subseteq Deploys(stage) \intersect OutputsOf(r)
  BY DEF PlainInvariant, TypeOK, GenerationTypeOK, TasksOfStage,
         NothingAheadCommitted
<1>2. /\ t \in Task /\ t.state = state
      /\ t.todo = task[r].todo /\ t.done = task[r].done
  BY <1>1 DEF Task
<1>3. /\ task' = [task EXCEPT ![r] = t]
      /\ checkout' = [checkout EXCEPT ![r] = checkout[r]]
  BY <1>1
<1> HIDE DEF t
<1> QED
  BY <1>1, <1>2, <1>3, TaskMoveKeeps, ZenonT(60)

LEMMA CloneKeeps ==
  ASSUME PlainInvariant, NEW r \in Repo, Clone(r), MainUnchanged,
         pc \in {"generate", "end"}
  PROVE  PlainInvariant'
<1> DEFINE t == [task[r] EXCEPT !.state = "ready"]
<1>1. /\ task[r] \in Task /\ task[r].state = "cloning"
      /\ remote[r] \in SUBSET Reached
      /\ task[r].todo = Deploys(stage) \intersect OutputsOf(r)
      /\ task[r].done \subseteq Deploys(stage) \intersect OutputsOf(r)
  BY DEF PlainInvariant, TypeOK, GenerationTypeOK, TasksOfStage,
         NothingAheadCommitted, Clone
<1>2. /\ t \in Task /\ t.state = "ready"
      /\ t.todo = task[r].todo /\ t.done = task[r].done
  BY <1>1 DEF Task, TaskState
<1>3. /\ task' = [task EXCEPT ![r] = t]
      /\ checkout' = [checkout EXCEPT ![r] = remote[r]]
      /\ OthersUnchanged
  BY DEF Clone, OthersUnchanged
<1> HIDE DEF t
<1> QED
  BY <1>1, <1>2, <1>3, TaskMoveKeeps

LEMMA FinishOutputKeeps ==
  ASSUME PlainInvariant, NEW r \in Repo, FinishOutput(r), MainUnchanged,
         pc \in {"generate", "end"}
  PROVE  PlainInvariant'
<1> DEFINE o == FirstOutput(task[r].todo)
           t == [state |-> "ready", todo |-> task[r].todo \ {o},
                 done |-> task[r].done \union {o}]
           c == checkout[r] \union ({o} \intersect affected)
<1>1. /\ task[r] \in Task /\ task[r].todo # {}
      /\ checkout[r] \subseteq Reached /\ remote[r] \subseteq checkout[r]
      /\ task[r].todo \union task[r].done \subseteq Deploys(stage) \intersect OutputsOf(r)
  BY DEF PlainInvariant, TypeOK, GenerationTypeOK, TasksOfStage,
         NothingAheadCommitted, FinishOutput
<1>2. o \in task[r].todo
  BY <1>1, FirstOutputIsFirst DEF Task
<1>3. o \in Reached
  BY <1>1, <1>2 DEF Reached
<1>4. /\ task' = [task EXCEPT ![r] = t]
      /\ checkout' = [checkout EXCEPT ![r] = c]
      /\ OthersUnchanged
  BY DEF FinishOutput, OthersUnchanged
<1> HIDE DEF o
<1>5. /\ t \in Task /\ t.state = "ready"
      /\ t.todo = task[r].todo \ {o} /\ t.done = task[r].done \union {o}
  BY <1>1, <1>2 DEF Task, TaskState
<1>6. t.todo \union t.done \subseteq Deploys(stage) \intersect OutputsOf(r)
  BY <1>1, <1>2, <1>5
<1> HIDE DEF t
<1>7. /\ c \in SUBSET Reached /\ remote[r] \subseteq c
      /\ \A p \in affected : p \in checkout[r] \union task[r].todo =>
                              p \in c \union t.todo
  BY <1>1, <1>3, <1>5
<1> HIDE DEF c
<1> QED
  BY <1>4, <1>5, <1>6, <1>7, TaskMoveKeeps

LEMMA TaskStepKeeps ==
  ASSUME PlainInvariant, NEW r \in Repo, TaskStep(r, FALSE), MainUnchanged
  PROVE  PlainInvariant'
<1>1. /\ task[r] \in Task
      /\ task[r].state = "queued" => task[r].todo = Deploys(stage) \intersect OutputsOf(r)
      /\ pc \notin {"generate", "end"} => task[r] = NoTask
  BY DEF PlainInvariant, TypeOK, GenerationTypeOK, TasksOfStage
<1>2. pc \in {"generate", "end"}
  <2>1. task[r].state # "none"
    BY DEF TaskStep, StartTask, Clone, BeginOutput, FinishOutput, TaskEnds,
           TaskFails, InState
  <2> QED
    BY <1>1, <2>1 DEF PlainInvariant, TypeOK, NoTask
<1>3. CASE StartTask(r)
  <2>1. PICK state \in {"ready", "cloning"} :
          task' = [task EXCEPT ![r].state = state]
    BY <1>3 DEF StartTask
  <2>2. OthersUnchanged /\ checkout' = checkout /\ task[r].state = "queued"
    BY <1>3 DEF StartTask, OthersUnchanged, InState
  <2> QED
    BY <1>1, <1>2, <2>1, <2>2, TaskStateKeeps DEF TaskState
<1>4. CASE BeginOutput(r, FALSE) \/ TaskEnds(r, FALSE) \/ TaskFails(r)
  <2>1. PICK state \in {"generating", "ok", "failed"} :
          /\ task' = [task EXCEPT ![r].state = state]
          /\ state = "generating" => task[r].todo # {}
          /\ state = "ok" => task[r].todo = {}
    BY <1>4 DEF BeginOutput, TaskEnds, TaskFails
  <2>2. OthersUnchanged /\ checkout' = checkout
    BY <1>4 DEF BeginOutput, TaskEnds, TaskFails, OthersUnchanged
  <2> QED
    BY <1>2, <2>1, <2>2, TaskStateKeeps DEF TaskState
<1> QED
  BY <1>2, <1>3, <1>4, CloneKeeps, FinishOutputKeeps DEF TaskStep

-----------------------------------------------------------------------------
(* One lemma for each step of the main thread *)

Parts ==
  /\ TypeOK /\ GenerationTypeOK /\ MainConsistent /\ NothingAheadCommitted
  /\ TasksOfStage /\ StageGeneratedFirst /\ PushedAsReached
  /\ FollowedAfterPush /\ DoneMeansPushed

LEMMA PartsAreInvariant == PlainInvariant <=> Parts
  BY DEF Parts, PlainInvariant, TypeOK

LEMMA StartStageKeeps ==
  ASSUME PlainInvariant, StartStage
  PROVE  PlainInvariant'
<1>1. Parts /\ pc = "stage" /\ pc' = "generate"
  BY PartsAreInvariant DEF StartStage
<1>2. /\ Behind' = Behind /\ Reached' = Reached /\ Released' = Released
      /\ Deploys(stage)' = Deploys(stage)
  BY DEF StartStage, config, Behind, Reached, Released, Deploys, StageSet
<1>3. Deploys(stage) \intersect generated = {}
  BY <1>1 DEF Parts, StageGeneratedFirst, Behind, Deploys, StageSet, TypeOK,
      MainConsistent
<1>4. \A r \in Repo :
        /\ Deploys(stage) \intersect OutputsOf(r) = {} => task'[r] = NoTask
        /\ Deploys(stage) \intersect OutputsOf(r) # {} =>
             task'[r] = [state |-> "queued",
                         todo |-> Deploys(stage) \intersect OutputsOf(r),
                         done |-> {}]
  BY <1>3 DEF StartStage, Launch
<1> DEFINE due(r) == Deploys(stage) \intersect OutputsOf(r)
<1>5. \A r \in Repo : /\ task'[r] \in Task
                      /\ task'[r].todo = due(r) /\ task'[r].done = {}
                      /\ task'[r].state \in {"none", "queued"}
                      /\ task'[r].state = "none" => due(r) = {}
  <2> TAKE r \in Repo
  <2>1. due(r) \in SUBSET Output
    BY StagesDeployOutputs
  <2>2. CASE due(r) = {}
    <3>1. task'[r] = NoTask
      BY <1>4, <2>2
    <3> QED
      BY <2>2, <3>1 DEF NoTask, Task, TaskState
  <2>3. CASE due(r) # {}
    <3>1. task'[r] = [state |-> "queued", todo |-> due(r), done |-> {}]
      BY <1>4, <2>3
    <3> HIDE DEF due
    <3> QED
      BY <2>1, <2>3, <3>1 DEF Task, TaskState
  <2> QED
    BY <2>2, <2>3
<1>6. TypeOK'
  <2>1. task' \in [Repo -> Task]
    BY <1>5 DEF StartStage, Launch
  <2> QED
    BY <1>1, <2>1 DEF StartStage, Parts, TypeOK, GenerationTypeOK, config
<1>7. TasksOfStage'
  BY <1>1, <1>2, <1>5 DEF TasksOfStage
<1>8. \A o \in Deploys(stage) : o \in task'[RepoOf[o]].todo
  BY <1>5, StagesDeployOutputs, GenerationAssumption
  DEF GenerationAssumption, OutputsOf
<1>9. StageGeneratedFirst'
  BY <1>1, <1>2, <1>8 DEF StageGeneratedFirst, Parts, StartStage, MainConsistent
<1> QED
  BY <1>1, <1>2, <1>6, <1>7, <1>9
  DEF StartStage, config, Parts, PlainInvariant, MainConsistent,
      NothingAheadCommitted, PushedAsReached, FollowedAfterPush, DoneMeansPushed

LEMMA JoinStageKeeps ==
  ASSUME PlainInvariant, JoinStage
  PROVE  PlainInvariant'
<1>1. Parts /\ pc = "generate" /\ pc' = "push"
  BY PartsAreInvariant DEF JoinStage
<1>2. /\ Behind' = Behind /\ Reached' = Reached /\ Released' = Released
      /\ Deploys(stage)' = Deploys(stage)
  BY DEF JoinStage, config, Behind, Reached, Released, Deploys, StageSet
<1>3. \A r \in Repo : task[r].todo = {} /\ task[r].done \subseteq Deploys(stage)
  <2> SUFFICES ASSUME NEW r \in Repo
               PROVE  task[r].todo = {} /\ task[r].done \subseteq Deploys(stage)
    OBVIOUS
  <2>1. task[r].state \in {"none", "ok"}
    BY <1>1 DEF JoinStage, TasksFinished, TasksFailed, InState, Active, Parts,
                GenerationTypeOK, Task, TaskState
  <2> QED
    BY <1>1, <2>1 DEF Parts, TasksOfStage
<1>4. generated' \subseteq Reached /\ cloned' \subseteq Repo
  BY <1>1, <1>3
  DEF JoinStage, KeepResults, Parts, NothingAheadCommitted, Reached, InState,
      GenerationTypeOK
<1>5. task' \in [Repo -> Task] /\ \A r \in Repo : task'[r] = NoTask
  BY DEF JoinStage, Task, TaskState, NoTask
<1>6. TypeOK'
  BY <1>1, <1>4, <1>5, StagesDeployOutputs
  DEF JoinStage, Parts, TypeOK, GenerationTypeOK, config
<1>7. MainConsistent'
  BY <1>1, <1>2 DEF JoinStage, config, Parts, MainConsistent
<1>8. NothingAheadCommitted'
  BY <1>1, <1>2, <1>4 DEF JoinStage, Parts, NothingAheadCommitted
<1>9. TasksOfStage'
  BY <1>5 DEF TasksOfStage, NoTask
<1>10. StageGeneratedFirst'
  BY <1>1, <1>2 DEF JoinStage, Parts, StageGeneratedFirst, MainConsistent
<1>11. \A o \in Deploys(stage) \intersect affected : o \in checkout[RepoOf[o]]
  BY <1>1, <1>3, StagesDeployOutputs, GenerationAssumption
  DEF GenerationAssumption, Parts, StageGeneratedFirst
<1>12. PushedAsReached'
  BY <1>1, <1>2, <1>11 DEF JoinStage, Parts, PushedAsReached
<1> QED
  BY <1>1, <1>2, <1>6, <1>7, <1>8, <1>9, <1>10, <1>12
  DEF JoinStage, config, Parts, PlainInvariant, FollowedAfterPush, DoneMeansPushed

\* A change that fails ends where it is, having pushed no less than before and
\* nothing but what its checkouts have.
LEMMA FailKeeps ==
  ASSUME PlainInvariant, NEW kind \in {"generation", "push", "detection"},
         Fail(kind), pc # "end",
         kind = "detection" => rollouts,
         kind = "generation" => pc = "generate" /\ UNCHANGED remote,
         remote' \in [Repo -> SUBSET Output],
         \A r \in Repo : /\ remote[r] \subseteq remote'[r]
                         /\ remote'[r] \subseteq checkout[r]
  PROVE  PlainInvariant'
<1>1. Parts /\ pc' = "end" /\ failure' = kind /\ outcome' = "failed"
  BY PartsAreInvariant DEF Fail
<1>2. /\ Behind' = Behind /\ Reached' = Reached
      /\ Deploys(stage)' = Deploys(stage)
  BY DEF Fail, config, Behind, Reached, Deploys, StageSet
<1>3. Released \subseteq Released'
  BY DEF Released
<1>4. kind = "generation" => Released' = Released
  BY DEF Released
<1>5. TypeOK'
  BY <1>1 DEF Fail, config, Parts, TypeOK, GenerationTypeOK
<1>6. MainConsistent'
  BY <1>1, <1>2 DEF Fail, config, Parts, MainConsistent
<1>7. NothingAheadCommitted'
  BY <1>1, <1>2 DEF Fail, Parts, NothingAheadCommitted
<1>8. TasksOfStage'
  BY <1>1, <1>2 DEF Fail, Parts, TasksOfStage
<1>9. StageGeneratedFirst'
  BY <1>1, <1>2, <1>4 DEF Fail, Parts, StageGeneratedFirst
<1>10. PushedAsReached' /\ FollowedAfterPush' /\ DoneMeansPushed'
  BY <1>1, <1>2, <1>3
  DEF Fail, config, Parts, PushedAsReached, FollowedAfterPush, DoneMeansPushed
<1> QED
  BY <1>5, <1>6, <1>7, <1>8, <1>9, <1>10 DEF PlainInvariant

LEMMA MainFails ==
  ASSUME PlainInvariant, JoinStageFails \/ PushFails \/ AwaitFails
  PROVE  PlainInvariant'
<1>1. Parts
  BY PartsAreInvariant
<1>2. CASE JoinStageFails
  BY <1>1, <1>2, FailKeeps
  DEF JoinStageFails, Parts, GenerationTypeOK, NothingAheadCommitted
<1>3. CASE PushFails
  <2>1. pc = "push" /\ Fail("push")
    BY <1>3 DEF PushFails
  <2>2. /\ remote' \in [Repo -> SUBSET Output]
        /\ \A r \in Repo : /\ remote[r] \subseteq remote'[r]
                           /\ remote'[r] \subseteq checkout[r]
    BY <1>1, <1>3 DEF PushFails, Parts, GenerationTypeOK, NothingAheadCommitted
  <2> QED
    BY <2>1, <2>2, FailKeeps
<1>4. CASE AwaitFails
  BY <1>1, <1>4, FailKeeps
  DEF AwaitFails, Parts, GenerationTypeOK, NothingAheadCommitted
<1> QED
  BY <1>2, <1>3, <1>4

LEMMA PushKeeps ==
  ASSUME PlainInvariant, Push
  PROVE  PlainInvariant'
<1>1. Parts /\ pc = "push" /\ pc' = "push"
  BY PartsAreInvariant DEF Push
<1>2. /\ Behind' = Behind /\ Reached' = Reached
      /\ Deploys(stage)' = Deploys(stage)
  BY DEF Push, config, Behind, Reached, Deploys, StageSet
<1>3. /\ remote' \in [Repo -> SUBSET Output]
      /\ \A r \in Repo : remote'[r] = IF r = NextRepo THEN checkout[r] ELSE remote[r]
      /\ toPush' = toPush \ OutputsOf(NextRepo) /\ checkout' = checkout
  BY <1>1 DEF Push, Parts, GenerationTypeOK
<1>4. \A r \in Repo : /\ remote[r] \subseteq remote'[r]
                      /\ remote'[r] \subseteq checkout'[r]
                      /\ checkout'[r] \subseteq Reached
  BY <1>1, <1>3 DEF Parts, NothingAheadCommitted
<1>5. Released \subseteq Released'
  BY <1>4 DEF Released
<1>6. TypeOK'
  BY <1>1, <1>3 DEF Push, config, Parts, TypeOK, GenerationTypeOK
<1>7. MainConsistent'
  BY <1>1, <1>2 DEF Push, config, Parts, MainConsistent
<1>8. NothingAheadCommitted'
  BY <1>1, <1>2, <1>4 DEF Push, Parts, NothingAheadCommitted
<1>9. TasksOfStage'
  BY <1>1, <1>2 DEF Push, Parts, TasksOfStage
<1>10. StageGeneratedFirst'
  BY <1>1 DEF Push, Parts, StageGeneratedFirst, MainConsistent
<1>11. ASSUME NEW o \in Deploys(stage) \intersect affected
       PROVE  o \in checkout[RepoOf[o]] /\ (o \in toPush' \/ o \in remote'[RepoOf[o]])
  <2>1. o \in Output /\ RepoOf[o] \in Repo
    BY StagesDeployOutputs, GenerationAssumption DEF GenerationAssumption
  <2>2. o \in checkout[RepoOf[o]] /\ (o \in toPush \/ o \in remote[RepoOf[o]])
    BY <1>1 DEF Parts, PushedAsReached
  <2>3. CASE RepoOf[o] = NextRepo
    BY <1>3, <2>1, <2>2, <2>3
  <2>4. CASE RepoOf[o] # NextRepo
    BY <1>3, <2>1, <2>2, <2>4 DEF OutputsOf
  <2> QED
    BY <2>3, <2>4
<1>12. PushedAsReached'
  BY <1>1, <1>2, <1>3, <1>5, <1>11 DEF Push, Parts, PushedAsReached
<1> QED
  BY <1>1, <1>5, <1>6, <1>7, <1>8, <1>9, <1>10, <1>12
  DEF Push, config, Parts, PlainInvariant, FollowedAfterPush, DoneMeansPushed,
      MainConsistent

LEMMA PassOverKeeps ==
  ASSUME PlainInvariant, PassOver
  PROVE  PlainInvariant'
<1>1. Parts /\ pc = "push" /\ pc' = "push"
  BY PartsAreInvariant DEF PassOver
<1>2. /\ Behind' = Behind /\ Reached' = Reached /\ Released' = Released
      /\ Deploys(stage)' = Deploys(stage)
  BY DEF PassOver, generationVars, config, Behind, Reached, Released, Deploys,
         StageSet
<1>3. \A o \in affected : o \in toPush => o \in toPush'
  BY <1>1 DEF PassOver, RepoChanged, Parts, TypeOK
<1>4. PushedAsReached'
  BY <1>1, <1>2, <1>3 DEF PassOver, generationVars, Parts, PushedAsReached
<1> QED
  BY <1>1, <1>2, <1>4
  DEF PassOver, generationVars, config, Parts, PlainInvariant, TypeOK,
      GenerationTypeOK, MainConsistent, NothingAheadCommitted, TasksOfStage,
      StageGeneratedFirst, FollowedAfterPush, DoneMeansPushed

LEMMA EndPushKeeps ==
  ASSUME PlainInvariant, EndPush
  PROVE  PlainInvariant'
<1>1. Parts /\ pc = "push" /\ toPush = {} /\ pc' = "detect"
  BY PartsAreInvariant DEF EndPush
<1>2. /\ Behind' = Behind /\ Reached' = Reached /\ Released' = Released
      /\ Deploys(stage)' = Deploys(stage)
  BY DEF EndPush, generationVars, config, Behind, Reached, Released, Deploys,
         StageSet
<1>3. Deploys(stage) \intersect affected \subseteq Released
  BY <1>1, StagesDeployOutputs, GenerationAssumption
  DEF Parts, PushedAsReached, Released, GenerationAssumption
<1>4. PushedAsReached'
  BY <1>1, <1>2, <1>3 DEF EndPush, generationVars, Parts, PushedAsReached
<1> QED
  BY <1>1, <1>2, <1>4
  DEF EndPush, generationVars, config, Parts, PlainInvariant, TypeOK,
      GenerationTypeOK, MainConsistent, NothingAheadCommitted, TasksOfStage,
      StageGeneratedFirst, FollowedAfterPush, DoneMeansPushed

LEMMA FollowKeeps ==
  ASSUME PlainInvariant, AwaitDeployment \/ StartDetection
  PROVE  PlainInvariant'
<1>1. Parts /\ pc = "detect" /\ pc' = "detect"
  BY PartsAreInvariant DEF AwaitDeployment, StartDetection
<1> USE DEF AwaitDeployment, StartDetection, generationVars, config
<1>2. /\ Behind' = Behind /\ Reached' = Reached /\ Released' = Released
      /\ Deploys(stage)' = Deploys(stage)
  BY DEF Behind, Reached, Released, Deploys, StageSet
<1>3. NextDeployment \in toFollow
  BY <1>1, NextDeploymentIsDue DEF Parts, MainConsistent
<1>4. TypeOK' /\ MainConsistent'
  BY <1>1, <1>2, <1>3 DEF Parts, TypeOK, GenerationTypeOK, MainConsistent
<1>5. FollowedAfterPush'
  <2>1. CASE rollouts
    BY <2>1 DEF FollowedAfterPush
  <2>2. CASE ~rollouts
    <3>1. affected \subseteq Released
      BY <1>1, <2>2 DEF Parts, PushedAsReached, Deploys, TypeOK, GenerationTypeOK
    <3> QED
      BY <1>1, <1>2, <3>1 DEF FollowedAfterPush
  <2> QED
    BY <2>1, <2>2
<1> QED
  BY <1>1, <1>2, <1>4, <1>5
  DEF Parts, PlainInvariant, NothingAheadCommitted, TasksOfStage,
      StageGeneratedFirst, PushedAsReached, DoneMeansPushed

LEMMA StageEndsKeeps ==
  ASSUME PlainInvariant, StageEnds
  PROVE  PlainInvariant'
<1>1. Parts /\ pc = "detect"
  BY PartsAreInvariant DEF StageEnds
<1> USE DEF StageEnds, generationVars, config
<1>2. Reached \intersect affected \subseteq Released
  BY <1>1 DEF Parts, PushedAsReached, Reached
<1>3. Released' = Released
  BY DEF Released
<1>4. CASE LastStage
  <2>1. Reached = Output
    BY <1>1, <1>4, GenerationAssumption
    DEF LastStage, Reached, Behind, Deploys, StageSet, Parts, TypeOK,
        GenerationAssumption
  <2>2. affected \subseteq Released
    BY <1>1, <1>2, <2>1 DEF Parts, GenerationTypeOK
  <2>3. /\ Behind' = Behind /\ Reached' = Reached
        /\ Deploys(stage)' = Deploys(stage)
    BY <1>4 DEF Behind, Reached, Deploys, StageSet
  <2> QED
    BY <1>1, <1>3, <1>4, <2>2, <2>3
    DEF Parts, PlainInvariant, TypeOK, GenerationTypeOK, MainConsistent,
        NothingAheadCommitted, TasksOfStage, StageGeneratedFirst,
        PushedAsReached, FollowedAfterPush, DoneMeansPushed
<1>5. CASE ~LastStage
  <2>1. /\ rollouts /\ stage < StageCount /\ stage' = stage + 1 /\ pc' = "stage"
        /\ toFollow = {}
    BY <1>1, <1>5, GenerationAssumption
    DEF LastStage, Parts, TypeOK, GenerationAssumption, MainConsistent, AllFollowed
  <2>2. Behind' = Reached
    BY <1>1, <2>1, GenerationAssumption
    DEF Reached, Behind, Deploys, StageSet, Parts, TypeOK, GenerationAssumption
  <2>3. Deploys(stage)' \intersect Reached = {} /\ Reached \subseteq Reached'
    BY <1>1, <2>1, <2>2, GenerationAssumption
    DEF Reached, Behind, Deploys, StageSet, Parts, TypeOK, GenerationAssumption
  <2>4. Released \subseteq Reached
    BY <1>1 DEF Parts, NothingAheadCommitted, Released
  <2>5. TypeOK' /\ MainConsistent'
    BY <1>1, <1>5, <2>1, GenerationAssumption
    DEF Parts, TypeOK, GenerationTypeOK, MainConsistent, GenerationAssumption
  <2>6. NothingAheadCommitted'
    BY <1>1, <2>3 DEF Parts, NothingAheadCommitted
  <2>7. TasksOfStage'
    BY <1>1, <2>1 DEF Parts, TasksOfStage, NoTask
  <2>8. StageGeneratedFirst' /\ PushedAsReached'
    BY <1>1, <1>2, <1>3, <2>1, <2>2, <2>3, <2>4
    DEF Parts, StageGeneratedFirst, PushedAsReached, NothingAheadCommitted
  <2> QED
    BY <1>1, <1>5, <2>1, <2>5, <2>6, <2>7, <2>8
    DEF Parts, PlainInvariant, MainConsistent, FollowedAfterPush, DoneMeansPushed
<1> QED
  BY <1>4, <1>5

LEMMA BackgroundKeeps ==
  ASSUME PlainInvariant, NEW o \in Output, BackgroundDetection(o)
  PROVE  PlainInvariant'
<1>1. Parts
  BY PartsAreInvariant
<1> USE DEF BackgroundDetection, generationVars, mainVars, config
<1>2. /\ Behind' = Behind /\ Reached' = Reached /\ Released' = Released
      /\ Deploys(stage)' = Deploys(stage)
  BY DEF Behind, Reached, Released, Deploys, StageSet
<1>3. FollowedAfterPush'
  BY <1>1, <1>2 DEF Parts, FollowedAfterPush
<1>4. TypeOK'
  BY <1>1 DEF Parts, TypeOK, GenerationTypeOK
<1> QED
  BY <1>1, <1>2, <1>3, <1>4
  DEF Parts, PlainInvariant, MainConsistent, NothingAheadCommitted,
      TasksOfStage, StageGeneratedFirst, PushedAsReached, DoneMeansPushed

LEMMA UnchangedKeeps ==
  ASSUME PlainInvariant, UNCHANGED vars
  PROVE  PlainInvariant'
<1>1. Parts
  BY PartsAreInvariant
<1>2. /\ Behind' = Behind /\ Reached' = Reached /\ Released' = Released
      /\ Deploys(stage)' = Deploys(stage)
  BY DEF vars, generationVars, mainVars, config, Behind, Reached, Released,
         Deploys, StageSet
<1> QED
  BY <1>1, <1>2
  DEF vars, generationVars, mainVars, config, Parts, PlainInvariant, TypeOK,
      GenerationTypeOK, MainConsistent, NothingAheadCommitted, TasksOfStage,
      StageGeneratedFirst, PushedAsReached, FollowedAfterPush, DoneMeansPushed

-----------------------------------------------------------------------------
(* Theorems about generation and the end of a change *)

\* Whatever the tasks of the pool, the main thread of _process and the daemon
\* threads do, in any order, the invariant holds: the variables keep their
\* types, and what is pushed is of stages that were generated whole.
THEOREM PlainHolds == Spec => []PlainInvariant
<1>1. Init => PlainInvariant
  BY PlainInit
<1>2. PlainInvariant /\ [Next]_vars => PlainInvariant'
  <2> SUFFICES ASSUME PlainInvariant, [Next]_vars PROVE PlainInvariant'
    OBVIOUS
  <2>1. CASE MainStep
    BY <2>1, StartStageKeeps, JoinStageKeeps, MainFails, PushKeeps,
       PassOverKeeps, EndPushKeeps, FollowKeeps, StageEndsKeeps DEF MainStep
  <2>2. CASE \E r \in Repo : GenerationStep(r)
    BY <2>2, TaskStepKeeps DEF GenerationStep, MainUnchanged
  <2>3. CASE \E o \in Output : BackgroundDetection(o)
    BY <2>3, BackgroundKeeps
  <2>4. CASE Ended \/ UNCHANGED vars
    BY <2>4, UnchangedKeeps DEF Ended
  <2> QED
    BY <2>1, <2>2, <2>3, <2>4 DEF Next
<1> QED
  BY <1>1, <1>2, PTL DEF Spec

\* A stage whose generation fails in one repository pushes none of the others,
\* however many of them had been generated and whatever the number of workers.
THEOREM FailedGenerationAlwaysPushesNothing ==
  Spec => []FailedGenerationPushesNothing
<1>1. PlainInvariant => FailedGenerationPushesNothing
  BY DEF PlainInvariant, StageGeneratedFirst, FailedGenerationPushesNothing
<1> QED
  BY <1>1, PlainHolds, PTL

-----------------------------------------------------------------------------
(* What is followed *)

\* A step that goes on with the same deployments to follow, takes none back and
\* does not end the change well.
LEMMA NoFewerFollowed ==
  ASSUME FollowInvariant,
         UNCHANGED <<affected, config, stage, toFollow>>,
         Followed \subseteq Followed',
         pc' \in {"push", "detect"} => pc \in {"push", "detect"},
         outcome' = "done" => outcome = "done"
  PROVE  FollowInvariant'
<1>1. Behind' = Behind /\ Deploys(stage)' = Deploys(stage) /\ detect' = detect
  BY DEF config, Behind, Deploys, StageSet
<1> QED
  BY <1>1 DEF FollowInvariant

LEMMA NextIsFollowed ==
  ASSUME PlainInvariant, FollowInvariant, AwaitDeployment \/ StartDetection
  PROVE  FollowInvariant'
<1> USE DEF AwaitDeployment, StartDetection, generationVars, config
<1>1. /\ Behind' = Behind /\ Deploys(stage)' = Deploys(stage)
      /\ UNCHANGED <<affected, detect, outcome>> /\ pc = "detect"
  BY DEF Behind, Deploys, StageSet
<1>2. Followed' = Followed \union {NextDeployment}
  BY DEF Followed
<1>3. toFollow' = toFollow \ {NextDeployment}
  OBVIOUS
<1> QED
  BY <1>1, <1>2, <1>3 DEF FollowInvariant

\* A stage that ends has been followed whole.
LEMMA StageEndsFollowed ==
  ASSUME PlainInvariant, FollowInvariant, StageEnds
  PROVE  FollowInvariant'
<1>1. Parts
  BY PartsAreInvariant
<1> USE DEF StageEnds, generationVars, config
<1>2. /\ pc = "detect" /\ detect' = detect /\ affected' = affected
      /\ Followed' = Followed
  BY DEF Followed
<1>3. SUFFICES ASSUME detect
               PROVE  FollowInvariant'
  BY <1>2 DEF FollowInvariant
<1>4. Reached \intersect affected \subseteq Followed
  BY <1>2, <1>3 DEF FollowInvariant, AllFollowed, Reached
<1>5. CASE LastStage
  <2>1. Reached = Output
    BY <1>1, <1>5, GenerationAssumption
    DEF LastStage, Reached, Behind, Deploys, StageSet, Parts, TypeOK,
        GenerationAssumption
  <2>2. affected \subseteq Followed
    BY <1>1, <1>4, <2>1 DEF Parts, GenerationTypeOK
  <2>3. pc' = "end" /\ Behind' = Behind
    BY <1>5 DEF Behind
  <2> QED
    BY <1>2, <1>4, <2>2, <2>3 DEF FollowInvariant, Reached
<1>6. CASE ~LastStage
  <2>1. /\ rollouts /\ stage' = stage + 1 /\ pc' = "stage" /\ outcome' = outcome
        /\ outcome = "running"
    BY <1>1, <1>2, <1>6 DEF LastStage, Parts, TypeOK, MainConsistent
  <2>2. Behind' = Reached
    BY <1>1, <2>1, GenerationAssumption
    DEF Reached, Behind, Deploys, StageSet, Parts, TypeOK, GenerationAssumption
  <2> QED
    BY <1>2, <1>4, <2>1, <2>2 DEF FollowInvariant
<1> QED
  BY <1>5, <1>6

\* What is pushed of the stages behind is followed, by the change itself or by
\* its daemon threads, and what is pushed of this stage is or is about to be.
THEOREM FollowHolds == Spec => []FollowInvariant
<1>1. Init => FollowInvariant
  <2> SUFFICES ASSUME Init
               PROVE  FollowInvariant
    OBVIOUS
  <2>1. Behind = {}
    BY GenerationAssumption DEF Init, Behind, GenerationAssumption
  <2> QED
    BY <2>1 DEF Init, FollowInvariant
<1>2. PlainInvariant /\ FollowInvariant /\ [Next]_vars => FollowInvariant'
  <2> SUFFICES ASSUME PlainInvariant, FollowInvariant, [Next]_vars
               PROVE  FollowInvariant'
    OBVIOUS
  <2>1. CASE StartStage \/ Push \/ PassOver \/ EndPush
    BY <2>1, NoFewerFollowed
    DEF StartStage, Push, PassOver, EndPush, generationVars, config, Followed
  <2>2. CASE JoinStageFails \/ PushFails \/ AwaitFails
    BY <2>2, NoFewerFollowed
    DEF JoinStageFails, PushFails, AwaitFails, Fail, config, Followed
  <2>3. CASE JoinStage
    <3>1. /\ Behind' = Behind /\ Deploys(stage)' = Deploys(stage)
          /\ UNCHANGED <<affected, detect, outcome>> /\ Followed' = Followed
          /\ toFollow' = Deploys(stage) \intersect affected
      BY <2>3 DEF JoinStage, config, Behind, Deploys, StageSet, Followed
    <3> QED
      BY <3>1 DEF FollowInvariant
  <2>4. CASE AwaitDeployment \/ StartDetection
    BY <2>4, NextIsFollowed
  <2>5. CASE StageEnds
    BY <2>5, StageEndsFollowed
  <2>6. CASE \E r \in Repo : GenerationStep(r)
    <3>1. PICK r \in Repo : GenerationStep(r)
      BY <2>6
    <3>2. UNCHANGED <<mainVars, followed, observed, affected>>
      BY <3>1
      DEF GenerationStep, TaskStep, StartTask, Clone, BeginOutput, FinishOutput,
          TaskEnds, TaskFails
    <3> QED
      BY <3>2, NoFewerFollowed DEF mainVars, config, Followed
  <2>7. CASE \E o \in Output : BackgroundDetection(o)
    BY <2>7, NoFewerFollowed
    DEF BackgroundDetection, generationVars, mainVars, config, Followed
  <2>8. CASE Ended \/ UNCHANGED vars
    BY <2>8, NoFewerFollowed
    DEF Ended, vars, generationVars, mainVars, config, Followed
  <2> QED
    BY <2>1, <2>2, <2>3, <2>4, <2>5, <2>6, <2>7, <2>8 DEF Next, MainStep
<1> QED
  BY <1>1, <1>2, PlainHolds, PTL DEF Spec

\* A change answered as done has pushed every output it affects, in however
\* many stages and repositories they are, and with detection has observed each
\* or started a daemon thread that follows it.
THEOREM DoneAlwaysMeansFollowed == Spec => []DoneMeansFollowed
<1>1. PlainInvariant /\ FollowInvariant => DoneMeansFollowed
  BY DEF PlainInvariant, DoneMeansPushed, FollowInvariant, DoneMeansFollowed
<1> QED
  BY <1>1, PlainHolds, FollowHolds, PTL

\* Without rollouts no daemon thread runs before everything has been pushed, and
\* none of them can fail the change.
THEOREM BackgroundNeverGates == Spec => []BackgroundGatesNothing
<1>1. PlainInvariant => BackgroundGatesNothing
  BY DEF PlainInvariant, MainConsistent, FollowedAfterPush, BackgroundGatesNothing
<1> QED
  BY <1>1, PlainHolds, PTL

-----------------------------------------------------------------------------
(* What is released, and in which order *)

\* The repository come to next stays the first beside any other still to come.
LEMMA NextRepoIsFirst ==
  ASSUME NEW S \in SUBSET Output, NEW T \in SUBSET S, NEW p \in T
  PROVE  /\ FirstRepo(S, ReposOf(T)) \in Repo
         /\ FirstRepo(S, {FirstRepo(S, ReposOf(T)), RepoOf[p]}) = FirstRepo(S, ReposOf(T))
<1> DEFINE due == {o \in S : RepoOf[o] \in ReposOf(T)}
           r == FirstRepo(S, ReposOf(T))
           pair == {o \in S : RepoOf[o] \in {r, RepoOf[p]}}
<1>1. p \in due /\ p \in pair /\ due \in SUBSET Output /\ pair \in SUBSET Output
  BY DEF ReposOf
<1>2. /\ FirstOutput(due) \in due
      /\ \A q \in due : Position[FirstOutput(due)] <= Position[q]
  BY <1>1, FirstOutputIsFirst
<1>3. /\ FirstOutput(pair) \in pair
      /\ \A q \in pair : Position[FirstOutput(pair)] <= Position[q]
  BY <1>1, FirstOutputIsFirst
<1>4. r = RepoOf[FirstOutput(due)]
  BY DEF FirstRepo
<1>5. FirstOutput(due) \in pair
  BY <1>2, <1>4
<1>6. pair \subseteq due
  BY <1>1, <1>2, <1>4 DEF ReposOf
<1>7. FirstRepo(S, {r, RepoOf[p]}) = RepoOf[FirstOutput(pair)]
  BY DEF FirstRepo
<1> HIDE DEF r, due, pair
<1>8. FirstOutput(pair) = FirstOutput(due)
  <2>1. Position[FirstOutput(pair)] <= Position[FirstOutput(due)]
    BY <1>3, <1>5
  <2>2. Position[FirstOutput(due)] <= Position[FirstOutput(pair)]
    BY <1>2, <1>3, <1>6
  <2>3. FirstOutput(pair) \in Output /\ FirstOutput(due) \in Output
    BY <1>1, <1>2, <1>3
  <2> QED
    BY <2>1, <2>2, <2>3, GenerationAssumption DEF GenerationAssumption
<1>9. FirstRepo(S, ReposOf(T)) = r /\ r \in Repo
  BY <1>1, <1>2, <1>4, GenerationAssumption DEF r, GenerationAssumption
<1> QED
  BY <1>4, <1>7, <1>8, <1>9

LEMMA ReleaseInit == Init => ReleaseInvariant
<1> SUFFICES ASSUME Init PROVE ReleaseInvariant
  OBVIOUS
<1>1. Released = {} /\ Behind = {}
  BY GenerationAssumption
  DEF GenerationAssumption, Init, GenerationInit, Released, Behind
<1>2. \A r \in Repo : checkout[r] = {}
  BY DEF Init, GenerationInit
<1>3. PushOrder /\ RolloutFollowed
  BY <1>1 DEF PushOrder, RolloutFollowed, Init
<1> QED
  BY <1>2, <1>3 DEF ReleaseInvariant, Init

\* Only tasks change a checkout: a clone to what its branch has, a generation by
\* the output it is for if the config commit affects it.
LEMMA CommitsStayAffected ==
  ASSUME PlainInvariant, ReleaseInvariant, [Next]_vars
  PROVE  \A r \in Repo : checkout'[r] \subseteq OutputsOf(r) \intersect affected'
<1>1. Parts /\ \A r \in Repo : checkout[r] \subseteq OutputsOf(r) \intersect affected
  BY PartsAreInvariant DEF ReleaseInvariant
<1>2. CASE MainStep
  <2>1. UNCHANGED <<checkout, affected>>
    BY <1>2 DEF MainStep, StartStage, JoinStage, JoinStageFails, Push, PassOver,
                PushFails, EndPush, AwaitDeployment, AwaitFails, StartDetection,
                StageEnds, Fail, generationVars
  <2> QED
    BY <1>1, <2>1
<1>3. ASSUME NEW r \in Repo, GenerationStep(r)
      PROVE  \A q \in Repo : checkout'[q] \subseteq OutputsOf(q) \intersect affected'
  <2>1. affected' = affected
    BY <1>3 DEF GenerationStep, TaskStep, StartTask, Clone, BeginOutput,
                FinishOutput, TaskEnds, TaskFails
  <2>2. CASE Clone(r)
    BY <1>1, <2>1, <2>2 DEF Clone, Parts, GenerationTypeOK, NothingAheadCommitted
  <2>3. CASE FinishOutput(r)
    <3> DEFINE o == FirstOutput(task[r].todo)
    <3>1. /\ task[r].todo # {} /\ task[r].todo \in SUBSET Output
          /\ task[r].todo \subseteq OutputsOf(r)
      BY <1>1, <2>3 DEF FinishOutput, Parts, GenerationTypeOK, Task, TasksOfStage
    <3>2. o \in OutputsOf(r)
      BY <3>1, FirstOutputIsFirst
    <3>3. checkout' = [checkout EXCEPT ![r] = @ \union ({o} \intersect affected)]
      BY <2>3 DEF FinishOutput
    <3> HIDE DEF o
    <3> QED
      BY <1>1, <2>1, <3>2, <3>3 DEF Parts, GenerationTypeOK
  <2>4. CASE ~Clone(r) /\ ~FinishOutput(r)
    BY <1>1, <1>3, <2>1, <2>4
    DEF GenerationStep, TaskStep, StartTask, BeginOutput, TaskEnds, TaskFails
  <2> QED
    BY <2>2, <2>3, <2>4
<1>4. CASE ~MainStep /\ ~\E r \in Repo : GenerationStep(r)
  BY <1>1, <1>4 DEF Next, BackgroundDetection, Ended, vars, generationVars
<1> QED
  BY <1>2, <1>3, <1>4

LEMMA StillToPush ==
  ASSUME PlainInvariant, ReleaseInvariant, [Next]_vars, pc' = "push"
  PROVE  toPush' \subseteq Deploys(stage)'
<1>1. CASE pc = "push"
  <2>1. UNCHANGED <<rollouts, stage>> /\ toPush' \subseteq toPush
    <3>1. CASE MainStep
      <4>1. Push \/ PassOver
        BY <1>1, <3>1 DEF MainStep, StartStage, JoinStage, JoinStageFails,
          PushFails, EndPush, AwaitDeployment, AwaitFails, StartDetection,
          StageEnds, Fail
      <4> QED
        BY <4>1 DEF Push, PassOver, config
    <3>2. CASE UNCHANGED mainVars
      BY <3>2 DEF mainVars, config
    <3>3. MainStep \/ UNCHANGED mainVars
      BY DEF Next, GenerationStep, BackgroundDetection, Ended, vars
    <3> QED
      BY <3>1, <3>2, <3>3
  <2>2. Deploys(stage)' = Deploys(stage)
    BY <2>1 DEF Deploys, StageSet
  <2> QED
    BY <1>1, <2>1, <2>2 DEF ReleaseInvariant
<1>2. CASE pc # "push"
  <2>1. MainStep
    BY <1>2 DEF Next, GenerationStep, BackgroundDetection, Ended, vars, mainVars
  <2>2. JoinStage
    BY <1>2, <2>1 DEF MainStep, StartStage, JoinStageFails, Push, PassOver,
      PushFails, EndPush, AwaitDeployment, AwaitFails, StartDetection, StageEnds,
      Fail
  <2> QED
    BY <2>2 DEF JoinStage, config, Deploys, StageSet
<1> QED
  BY <1>1, <1>2

\* Pushing the repository that comes next: what it has of the stage is released
\* whole, and what of the stage is before it was come to already.
LEMMA PushedInOrder ==
  ASSUME PlainInvariant, ReleaseInvariant, pc = "push", toPush # {},
         remote' = [remote EXCEPT ![NextRepo] = checkout[NextRepo]],
         UNCHANGED <<affected, rollouts, stage>>
  PROVE  PushOrder'
<1> DEFINE D == Deploys(stage)
           before(o, p) == RepoOf[p] = FirstRepo(D, {RepoOf[o], RepoOf[p]})
<1>1. Parts /\ D \in SUBSET Output /\ toPush \in SUBSET D
  BY PartsAreInvariant, StagesDeployOutputs DEF ReleaseInvariant
<1>2. /\ NextRepo \in Repo
      /\ \A p \in toPush : FirstRepo(D, {NextRepo, RepoOf[p]}) = NextRepo
  BY <1>1, NextRepoIsFirst DEF NextRepo
<1>3. /\ Deploys(stage)' = D
      /\ \A o, p : before(o, p)' <=> before(o, p)
  BY DEF Deploys, StageSet
<1>4. /\ remote'[NextRepo] = checkout[NextRepo]
      /\ \A r \in Repo \ {NextRepo} : remote'[r] = remote[r]
      /\ \A r \in Repo : remote[r] \subseteq remote'[r]
  BY <1>1, <1>2 DEF Parts, GenerationTypeOK, NothingAheadCommitted
<1>5. Released \subseteq Released' /\ checkout[NextRepo] \subseteq Released'
  BY <1>2, <1>4 DEF Released
<1>6. \A o \in D : o \in Released' => o \in Released \/ RepoOf[o] = NextRepo
  BY <1>2, <1>4 DEF Released, ReleaseInvariant, OutputsOf
<1>7. ASSUME NEW o \in D \intersect affected, NEW p \in D \intersect affected,
             o \in Released', before(o, p)
      PROVE  p \in Released'
  <2>1. CASE o \in Released
    BY <1>5, <1>7, <2>1 DEF ReleaseInvariant, PushOrder
  <2>2. CASE RepoOf[o] = NextRepo
    <3>1. p \in checkout[RepoOf[p]] /\ (p \in toPush \/ p \in remote[RepoOf[p]])
      BY <1>1 DEF Parts, PushedAsReached
    <3>2. CASE RepoOf[p] = NextRepo
      BY <1>5, <3>1, <3>2
    <3>3. CASE RepoOf[p] # NextRepo
      <4>1. p \notin toPush
        BY <1>2, <1>7, <2>2, <3>3
      <4>2. RepoOf[p] \in Repo
        BY <1>1, GenerationAssumption DEF GenerationAssumption
      <4> QED
        BY <1>5, <3>1, <4>1, <4>2 DEF Released
    <3> QED
      BY <3>2, <3>3
  <2> QED
    BY <1>6, <1>7, <2>1, <2>2
<1> QED
  BY <1>3, <1>7 DEF PushOrder

LEMMA SameReleased ==
  ASSUME PushOrder, UNCHANGED <<affected, rollouts, stage, remote>>
  PROVE  PushOrder'
<1>1. Released' = Released /\ Deploys(stage)' = Deploys(stage)
  BY DEF Released, Deploys, StageSet
<1> QED
  BY <1>1 DEF PushOrder

LEMMA OrderStays ==
  ASSUME PlainInvariant, ReleaseInvariant, [Next]_vars, PlainInvariant'
  PROVE  PushOrder'
<1>1. PushOrder
  BY DEF ReleaseInvariant
<1>2. CASE Push \/ PushFails
  <2>1. UNCHANGED <<affected, rollouts, stage>> /\ pc = "push" /\ toPush # {}
    BY <1>2 DEF Push, PushFails, Fail, config
  <2>2. \/ remote' = remote
        \/ remote' = [remote EXCEPT ![NextRepo] = checkout[NextRepo]]
    BY <1>2 DEF Push, PushFails
  <2> QED
    BY <1>1, <2>1, <2>2, SameReleased, PushedInOrder
<1>3. CASE StageEnds
  <2>1. CASE pc' = "stage"
    BY <2>1 DEF PlainInvariant, StageGeneratedFirst, PushOrder
  <2>2. CASE pc' # "stage"
    BY <1>1, <1>3, <2>2, SameReleased DEF StageEnds, generationVars, config
  <2> QED
    BY <2>1, <2>2
<1>4. CASE StartStage \/ JoinStage \/ JoinStageFails \/ AwaitFails
  BY <1>1, <1>4, SameReleased
  DEF StartStage, JoinStage, JoinStageFails, AwaitFails, Fail, config
<1>5. CASE PassOver \/ EndPush \/ AwaitDeployment \/ StartDetection
  BY <1>1, <1>5, SameReleased
  DEF PassOver, EndPush, AwaitDeployment, StartDetection, generationVars, config
<1>6. ASSUME NEW r \in Repo, GenerationStep(r)
      PROVE  PushOrder'
  <2>1. UNCHANGED <<affected, remote>>
    BY <1>6 DEF GenerationStep, TaskStep, StartTask, Clone, BeginOutput,
                FinishOutput, TaskEnds, TaskFails
  <2> QED
    BY <1>1, <1>6, <2>1, SameReleased DEF GenerationStep, mainVars, config
<1>7. ASSUME NEW o \in Output, BackgroundDetection(o)
      PROVE  PushOrder'
  BY <1>1, <1>7, SameReleased
  DEF BackgroundDetection, generationVars, mainVars, config
<1>8. CASE Ended \/ UNCHANGED vars
  BY <1>1, <1>8, SameReleased DEF Ended, vars, generationVars, mainVars, config
<1> QED
  BY <1>2, <1>3, <1>4, <1>5, <1>6, <1>7, <1>8 DEF Next, MainStep

\* Steps that observe nothing and stay in the stage, having released no less.
LEMMA StillFollowed ==
  ASSUME RolloutFollowed, UNCHANGED <<affected, rollouts, stage, observed, followed>>,
         Released \subseteq Released',
         \/ UNCHANGED toFollow /\ (pc' \in {"push", "detect"} => pc \in {"push", "detect"})
         \/ toFollow' = Deploys(stage) \intersect affected
  PROVE  RolloutFollowed'
<1>1. Behind' = Behind /\ Deploys(stage)' = Deploys(stage)
  BY DEF Behind, Deploys, StageSet
<1> QED
  BY <1>1 DEF RolloutFollowed

LEMMA RolloutStaysFollowed ==
  ASSUME PlainInvariant, RolloutFollowed, rollouts, [Next]_vars
  PROVE  RolloutFollowed'
<1>1. Parts
  BY PartsAreInvariant
<1>2. remote' = remote => Released' = Released
  BY DEF Released
<1>3. CASE StartStage \/ JoinStage \/ JoinStageFails \/ AwaitFails
  BY <1>2, <1>3, StillFollowed
  DEF StartStage, JoinStage, JoinStageFails, AwaitFails, Fail, config
<1>4. CASE Push \/ PushFails
  <2>1. \A r \in Repo : remote[r] \subseteq remote'[r]
    BY <1>1, <1>4 DEF Push, PushFails, Parts, GenerationTypeOK, NothingAheadCommitted
  <2>2. Released \subseteq Released'
    BY <2>1 DEF Released
  <2> QED
    BY <1>4, <2>2, StillFollowed DEF Push, PushFails, Fail, config
<1>5. CASE PassOver \/ EndPush
  BY <1>2, <1>5, StillFollowed DEF PassOver, EndPush, generationVars, config
<1>6. CASE AwaitDeployment
  <2>1. /\ observed' = observed \union {NextDeployment}
        /\ toFollow' = toFollow \ {NextDeployment}
        /\ pc = "detect" /\ pc' = "detect"
        /\ UNCHANGED <<affected, rollouts, stage, followed>> /\ Released' = Released
    BY <1>2, <1>6 DEF AwaitDeployment, generationVars, config
  <2>2. NextDeployment \in toFollow /\ toFollow \subseteq Deploys(stage)
    BY <1>1, <1>6, NextDeploymentIsDue DEF AwaitDeployment, Parts, MainConsistent
  <2>3. NextDeployment \in Released
    BY <1>1, <2>1, <2>2 DEF Parts, PushedAsReached, RolloutFollowed
  <2>4. Behind' = Behind /\ Deploys(stage)' = Deploys(stage)
    BY <2>1 DEF Behind, Deploys, StageSet
  <2> QED
    BY <2>1, <2>3, <2>4 DEF RolloutFollowed
<1>7. CASE StageEnds
  <2>1. /\ UNCHANGED <<affected, rollouts, observed, followed, toFollow>>
        /\ Released' = Released /\ pc = "detect" /\ pc' \in {"stage", "end"}
        /\ AllFollowed
    BY <1>2, <1>7 DEF StageEnds, generationVars, config
  <2>2. (Behind \union Deploys(stage)) \intersect affected \subseteq observed
    BY <1>1, <2>1 DEF AllFollowed, Parts, MainConsistent, RolloutFollowed
  <2>3. stage' = stage \/ stage' = stage + 1
    BY <1>7 DEF StageEnds
  <2>4. Behind' \subseteq Behind \union Deploys(stage)
    BY <1>1, <2>1, <2>3, GenerationAssumption
    DEF Behind, Deploys, StageSet, Parts, TypeOK, GenerationAssumption
  <2> QED
    BY <2>1, <2>2, <2>4 DEF RolloutFollowed
<1>8. CASE StartDetection
  BY <1>8 DEF StartDetection
<1>9. ASSUME NEW r \in Repo, GenerationStep(r)
      PROVE  RolloutFollowed'
  <2>1. UNCHANGED <<affected, remote>>
    BY <1>9 DEF GenerationStep, TaskStep, StartTask, Clone, BeginOutput,
                FinishOutput, TaskEnds, TaskFails
  <2> QED
    BY <1>2, <1>9, <2>1, StillFollowed DEF GenerationStep, mainVars, config
<1>10. ASSUME NEW o \in Output, BackgroundDetection(o)
       PROVE  RolloutFollowed'
  BY <1>10 DEF BackgroundDetection, RolloutFollowed
<1>11. CASE Ended \/ UNCHANGED vars
  BY <1>2, <1>11, StillFollowed DEF Ended, vars, generationVars, mainVars, config
<1> QED
  BY <1>3, <1>4, <1>5, <1>6, <1>7, <1>8, <1>9, <1>10, <1>11 DEF Next, MainStep

\* No step changes what is configured.
LEMMA ConfigStays == [Next]_vars => rollouts' = rollouts
  BY DEF Next, MainStep, StartStage, JoinStage, JoinStageFails, Push, PassOver,
         PushFails, EndPush, AwaitDeployment, AwaitFails, StartDetection,
         StageEnds, Fail, GenerationStep, BackgroundDetection, Ended, vars,
         mainVars, config

-----------------------------------------------------------------------------
(* With rollouts, RolloutPlain implements RolloutGate *)

LEMMA InitRefines == Init => Gate!Init
  BY GenerationAssumption
  DEF GenerationAssumption, Init, GenerationInit, Gate!Init, Released

\* What a push may add to what is released was due: a checkout has nothing of a
\* stage ahead, and what of the stages behind was affected is released already.
LEMMA PushedIsDue ==
  ASSUME Parts, ReleaseInvariant, rollouts,
         \A r \in Repo : remote'[r] \subseteq remote[r] \union checkout[r]
  PROVE  Released' \subseteq Released \union Gate!Due
<1> SUFFICES ASSUME NEW o \in Released', o \notin Released
             PROVE  o \in Gate!Due
  OBVIOUS
<1>1. PICK r \in Repo : o \in checkout[r]
  BY DEF Released
<1>2. o \in Reached /\ o \in affected
  BY <1>1 DEF Parts, NothingAheadCommitted, ReleaseInvariant
<1>3. o \notin Behind
  BY <1>2 DEF ReleaseInvariant, RolloutFollowed
<1> QED
  BY <1>2, <1>3 DEF Reached, Deploys, StageSet, Gate!Due, Gate!OfStage

\* The steps that push, and those that fail the change.
LEMMA PushRefines ==
  ASSUME Parts, ReleaseInvariant, rollouts, Push
  PROVE  [Gate!Next]_(Gate!gateVars)
<1>1. outcome = "running" /\ UNCHANGED <<affected, stage, observed, outcome>>
  BY DEF Push, Parts, MainConsistent
<1>2. \A r \in Repo : /\ remote[r] \subseteq remote'[r]
                      /\ remote'[r] \subseteq remote[r] \union checkout[r]
  BY DEF Push, Parts, GenerationTypeOK, NothingAheadCommitted
<1> DEFINE S == Released' \ Released
<1>3. Released \subseteq Released'
  BY <1>2 DEF Released
<1>4. S \in SUBSET Gate!Due /\ Released' = Released \union S
  BY <1>2, <1>3, PushedIsDue
<1> HIDE DEF S
<1>5. CASE S = {}
  BY <1>1, <1>4, <1>5 DEF Gate!gateVars
<1>6. CASE S # {}
  BY <1>1, <1>4, <1>6 DEF Gate!Release, Gate!Next
<1> QED
  BY <1>5, <1>6

LEMMA MainFailsRefine ==
  ASSUME Parts, ReleaseInvariant, rollouts, JoinStageFails \/ PushFails \/ AwaitFails
  PROVE  Gate!Next
<1>1. /\ pc # "end" /\ outcome' = "failed"
      /\ UNCHANGED <<affected, stage, observed>>
  BY DEF JoinStageFails, PushFails, AwaitFails, Fail
<1>2. outcome = "running"
  BY <1>1 DEF Parts, MainConsistent
<1>3. \A r \in Repo : /\ remote[r] \subseteq remote'[r]
                      /\ remote'[r] \subseteq remote[r] \union checkout[r]
  BY DEF JoinStageFails, PushFails, AwaitFails, Parts, GenerationTypeOK,
         NothingAheadCommitted
<1> DEFINE S == Released' \ Released
<1>4. Released \subseteq Released'
  BY <1>3 DEF Released
<1>5. S \in SUBSET Gate!Due /\ Released' = Released \union S
  BY <1>3, <1>4, PushedIsDue
<1> HIDE DEF S
<1> QED
  BY <1>1, <1>2, <1>5 DEF Gate!Fail, Gate!Next

\* The steps that follow deployments, and the one that ends a stage.
LEMMA AwaitRefines ==
  ASSUME Parts, ReleaseInvariant, rollouts, AwaitDeployment
  PROVE  Gate!Next
<1>1. NextDeployment \in toFollow /\ toFollow \subseteq Deploys(stage)
  BY NextDeploymentIsDue DEF AwaitDeployment, Parts, MainConsistent
<1>2. NextDeployment \in Released
  BY <1>1
  DEF AwaitDeployment, Parts, PushedAsReached, ReleaseInvariant, RolloutFollowed
<1>3. Released' = Released
  BY DEF AwaitDeployment, generationVars, Released
<1> QED
  BY <1>2, <1>3 DEF AwaitDeployment, generationVars, Gate!Observe, Gate!Next

LEMMA StageEndsRefines ==
  ASSUME Parts, ReleaseInvariant, rollouts, StageEnds
  PROVE  Gate!Next
<1>1. Deploys(stage) \intersect affected \subseteq observed
  BY DEF StageEnds, AllFollowed, Parts, MainConsistent, ReleaseInvariant,
         RolloutFollowed
<1>2. Gate!Verified
  BY <1>1 DEF Deploys, StageSet, Gate!Verified, Gate!OfStage
<1>3. outcome = "running" /\ stage \in 1..StageCount
  BY DEF StageEnds, Parts, MainConsistent, TypeOK
<1>4. \/ stage < StageCount /\ stage' = stage + 1 /\ outcome' = outcome
      \/ stage = StageCount /\ outcome' = "done" /\ stage' = stage
  BY <1>3, GenerationAssumption DEF StageEnds, LastStage, GenerationAssumption
<1>5. Released' = Released
  BY DEF StageEnds, generationVars, Released
<1> QED
  BY <1>2, <1>3, <1>4, <1>5 DEF StageEnds, generationVars, Gate!NextStage, Gate!Next

LEMMA OwnStepsStutter ==
  ASSUME UNCHANGED <<affected, stage, remote, observed, outcome>>
  PROVE  UNCHANGED Gate!gateVars
  BY DEF Gate!gateVars, Released

LEMMA StepRefines ==
  ASSUME PlainInvariant, ReleaseInvariant, rollouts, [Next]_vars
  PROVE  [Gate!Next]_(Gate!gateVars)
<1>1. Parts /\ followed = {}
  BY PartsAreInvariant DEF ReleaseInvariant, RolloutFollowed
<1>2. CASE StartStage \/ JoinStage
  BY <1>2, OwnStepsStutter DEF StartStage, JoinStage
<1>3. CASE PassOver \/ EndPush \/ StartDetection
  BY <1>3, OwnStepsStutter DEF PassOver, EndPush, StartDetection, generationVars
<1>4. CASE Push
  BY <1>1, <1>4, PushRefines
<1>5. CASE JoinStageFails \/ PushFails \/ AwaitFails
  BY <1>1, <1>5, MainFailsRefine
<1>6. CASE AwaitDeployment
  BY <1>1, <1>6, AwaitRefines
<1>7. CASE StageEnds
  BY <1>1, <1>7, StageEndsRefines
<1>8. ASSUME NEW r \in Repo, GenerationStep(r)
      PROVE  UNCHANGED Gate!gateVars
  <2>1. UNCHANGED <<affected, remote>>
    BY <1>8 DEF GenerationStep, TaskStep, StartTask, Clone, BeginOutput,
                FinishOutput, TaskEnds, TaskFails
  <2> QED
    BY <1>8, <2>1, OwnStepsStutter DEF GenerationStep, mainVars
<1>9. ASSUME NEW o \in Output, BackgroundDetection(o)
      PROVE  FALSE
  BY <1>1, <1>9 DEF BackgroundDetection
<1>10. CASE Ended \/ UNCHANGED vars
  BY <1>10, OwnStepsStutter DEF Ended, vars, generationVars, mainVars
<1> QED
  BY <1>2, <1>3, <1>4, <1>5, <1>6, <1>7, <1>8, <1>9, <1>10 DEF Next, MainStep

-----------------------------------------------------------------------------
(* Theorems about what is released *)

\* What is released is in order, and with rollouts only after what the stages
\* before it changed was observed.
THEOREM ReleaseHolds == Spec => []ReleaseInvariant
<1>1. Init => ReleaseInvariant
  BY ReleaseInit
<1>2. PlainInvariant /\ PlainInvariant' /\ ReleaseInvariant /\ [Next]_vars
        => ReleaseInvariant'
  BY CommitsStayAffected, StillToPush, OrderStays, RolloutStaysFollowed,
     ConfigStays DEF ReleaseInvariant
<1> QED
  BY <1>1, <1>2, PlainHolds, PTL DEF Spec

\* A stage's repositories are pushed in configured order, so that a push that
\* fails leaves exactly the changed repositories before it pushed (_process).
THEOREM PushesAreOrdered == Spec => []PushOrder
<1>1. ReleaseInvariant => PushOrder
  BY DEF ReleaseInvariant
<1> QED
  BY <1>1, ReleaseHolds, PTL

\* With rollouts configured, the plain loop pushes and observes its outputs in
\* the order RolloutGate promises.
THEOREM PlainImplementsGate == Spec => ImplementsGate
<1>1. Init => Gate!Init
  BY InitRefines
<1>2. PlainInvariant /\ ReleaseInvariant /\ [Next]_vars
        => [rollouts => Gate!Next]_(Gate!gateVars)
  BY StepRefines
<1> QED
  BY <1>1, <1>2, PlainHolds, ReleaseHolds, PTL DEF Spec, ImplementsGate

GateProofs == INSTANCE RolloutGateProofs WITH released <- Released

\* With rollouts an output is on its branch only if every affected output of the
\* stages before its own was seen in its cluster (README, "Rollouts").
THEOREM RolloutsDeployInOrder ==
  Spec => (rollouts => [](Gate!StageOrder /\ Gate!DoneMeansDeployed))
<1>1. GateProofs!GateAssumption
  BY GenerationAssumption DEF GenerationAssumption, GateProofs!GateAssumption
<1>2. GateProofs!GateSpec => []GateProofs!StageOrder
  BY <1>1, GateProofs!StagesAreOrdered
<1>3. GateProofs!GateSpec => []GateProofs!DoneMeansDeployed
  BY <1>1, GateProofs!DoneIsDeployed
<1>4. Gate!Init => GateProofs!Init
  BY DEF Gate!Init, GateProofs!Init
<1>5. [Gate!Next]_(Gate!gateVars) => [GateProofs!Next]_(GateProofs!gateVars)
  BY DEF Gate!Next, Gate!Release, Gate!Fail, Gate!Observe, Gate!NextStage,
         Gate!Verified, Gate!Due, Gate!OfStage, Gate!gateVars,
         GateProofs!Next, GateProofs!Release, GateProofs!Fail,
         GateProofs!Observe, GateProofs!NextStage, GateProofs!Verified,
         GateProofs!Due, GateProofs!OfStage, GateProofs!gateVars
<1>6. GateProofs!StageOrder /\ GateProofs!DoneMeansDeployed
        => Gate!StageOrder /\ Gate!DoneMeansDeployed
  BY DEF Gate!StageOrder, Gate!DoneMeansDeployed, GateProofs!StageOrder,
         GateProofs!DoneMeansDeployed
<1>7. PlainInvariant /\ ReleaseInvariant /\ rollouts /\ [Next]_vars
        => [Gate!Next]_(Gate!gateVars)
  BY StepRefines
<1>8. Init => Gate!Init
  BY InitRefines
<1>9. rollouts /\ [Next]_vars => rollouts'
  BY ConfigStays
<1> QED
  BY <1>2, <1>3, <1>4, <1>5, <1>6, <1>7, <1>8, <1>9, PlainHolds, ReleaseHolds, PTL
  DEF Spec, GateProofs!GateSpec
==============================================================================
