--------------------------- MODULE StageGeneration ---------------------------
(***************************************************************************)
(* Generating outputs into manifests checkouts, one task per repository:   *)
(* the pool of _run_concurrently, the per-repository task it runs, and the *)
(* main thread's launch and join.  RolloutPlain and RolloutAhead extend    *)
(* this module with the main thread that decides what to generate when.    *)
(*                                                                         *)
(* manifest-builder is external: generating an output either fails or      *)
(* succeeds, and commits exactly when the config commit affects it.  A     *)
(* commit is named by the output it is for, so a checkout and a remote     *)
(* branch are the sets of outputs whose commits they hold.                 *)
(***************************************************************************)
EXTENDS Naturals, FiniteSets

CONSTANTS
  Output,          \* the outputs this change was resolved to
  Repo,            \* the manifests repositories they are generated into
  RepoOf,          \* the repository of each output
  StageCount,      \* number of stages, over all rollouts in configured order
  StageOf,         \* the stage that deploys each output
  Position,        \* an output's place in the configured order
  Concurrency      \* the settings of max-concurrency considered

ASSUME GenerationAssumption ==
  /\ IsFiniteSet(Output)
  /\ RepoOf \in [Output -> Repo]
  /\ StageCount \in Nat \ {0}
  /\ StageOf \in [Output -> 1..StageCount]
  /\ Position \in [Output -> Nat]
  /\ \A o, p \in Output : Position[o] = Position[p] => o = p
  /\ Concurrency \subseteq Nat \ {0}

VARIABLES
  maxConcurrency, \* how many tasks run at once
  affected,   \* outputs the config commit changes; only generating tells
  checkout,   \* per repository, the outputs committed in the workspace's clone
  remote,     \* per repository, the outputs pushed to its branch
  cloned,     \* repositories the main thread has noted as cloned
  generated,  \* outputs whose generation result the main thread holds
  task        \* per repository, the task generating into it

generationVars == <<maxConcurrency, affected, checkout, remote, cloned,
                    generated, task>>

StageSet(i)  == {o \in Output : StageOf[o] = i}
OutputsOf(r) == {o \in Output : RepoOf[o] = r}

\* The first of a set of outputs in configured order, and the repository that
\* comes first when the outputs of a stage are grouped by repository.
FirstOutput(S) == CHOOSE o \in S : \A p \in S : Position[o] <= Position[p]
FirstRepo(S, R) == RepoOf[FirstOutput({o \in S : RepoOf[o] \in R})]
ReposOf(S)     == {RepoOf[o] : o \in S}

NoTask == [state |-> "none", todo |-> {}, done |-> {}]
TaskState == {"none", "queued", "cloning", "ready", "generating", "ok", "failed"}
Task == [state : TaskState, todo : SUBSET Output, done : SUBSET Output]

InState(states) == {r \in Repo : task[r].state \in states}
Active == InState({"cloning", "ready", "generating"})

GenerationTypeOK ==
  /\ maxConcurrency \in Concurrency
  /\ affected \subseteq Output
  /\ checkout \in [Repo -> SUBSET Output]
  /\ remote \in [Repo -> SUBSET Output]
  /\ cloned \subseteq Repo
  /\ generated \subseteq Output
  /\ task \in [Repo -> Task]

GenerationInit ==
  /\ maxConcurrency \in Concurrency
  /\ affected \in SUBSET Output
  /\ checkout = [r \in Repo |-> {}]
  /\ remote = [r \in Repo |-> {}]
  /\ cloned = {}
  /\ generated = {}
  /\ task = [r \in Repo |-> NoTask]

-----------------------------------------------------------------------------
\* Mutant: what is already generated is generated again.
LaunchAgain(S) ==
  task' = [r \in Repo |->
             IF S \intersect OutputsOf(r) = {} THEN NoTask
             ELSE [state |-> "queued", todo |-> S \intersect OutputsOf(r),
                   done |-> {}]]

\* Mutant: a repository is generated whole, the outputs of later stages with it.
LaunchRepositories(S) ==
  task' = [r \in Repo |->
             IF (S \intersect OutputsOf(r)) \ generated = {} THEN NoTask
             ELSE [state |-> "queued", todo |-> OutputsOf(r) \ generated,
                   done |-> {}]]

\* The main thread hands the outputs of S it has no result for to the pool.
Launch(S) ==
  task' = [r \in Repo |->
             LET missing == (S \intersect OutputsOf(r)) \ generated
             IN  IF missing = {} THEN NoTask
                 ELSE [state |-> "queued", todo |-> missing, done |-> {}]]

\* Tasks start in order as workers free up.  A single worker is the calling
\* thread itself, which goes no further than the first task that fails.
StartTask(r) ==
  LET queued == InState({"queued"})
  IN  /\ r \in queued
      /\ r = FirstRepo(UNION {task[q].todo : q \in queued}, queued)
      /\ Cardinality(Active) < maxConcurrency
      /\ maxConcurrency = 1 => InState({"failed"}) = {}
      /\ task' = [task EXCEPT ![r].state = IF r \in cloned THEN "ready"
                                                           ELSE "cloning"]
      /\ UNCHANGED <<maxConcurrency, affected, checkout, remote, cloned,
                     generated>>

\* A clone starts from an emptied directory: what the checkout held is gone.
Clone(r) ==
  /\ task[r].state = "cloning"
  /\ checkout' = [checkout EXCEPT ![r] = remote[r]]
  /\ task' = [task EXCEPT ![r].state = "ready"]
  /\ UNCHANGED <<maxConcurrency, affected, remote, cloned, generated>>

BeginOutput(r, stop) ==
  /\ task[r].state = "ready"
  /\ task[r].todo # {}
  /\ ~stop
  /\ task' = [task EXCEPT ![r].state = "generating"]
  /\ UNCHANGED <<maxConcurrency, affected, checkout, remote, cloned,
                 generated>>

FinishOutput(r) ==
  LET o == FirstOutput(task[r].todo)
  IN  /\ task[r].state = "generating"
      /\ checkout' = [checkout EXCEPT ![r] = @ \union ({o} \intersect affected)]
      /\ task' = [task EXCEPT ![r] = [state |-> "ready",
                                      todo  |-> task[r].todo \ {o},
                                      done  |-> task[r].done \union {o}]]
      /\ UNCHANGED <<maxConcurrency, affected, remote, cloned, generated>>

TaskEnds(r, stop) ==
  /\ task[r].state = "ready"
  /\ task[r].todo = {} \/ stop
  /\ task' = [task EXCEPT ![r].state = "ok"]
  /\ UNCHANGED <<maxConcurrency, affected, checkout, remote, cloned,
                 generated>>

TaskFails(r) ==
  /\ task[r].state \in {"cloning", "generating"}
  /\ task' = [task EXCEPT ![r].state = "failed"]
  /\ UNCHANGED <<maxConcurrency, affected, checkout, remote, cloned,
                 generated>>

TaskStep(r, stop) ==
  \/ StartTask(r) \/ Clone(r) \/ BeginOutput(r, stop) \/ FinishOutput(r)
  \/ TaskEnds(r, stop) \/ TaskFails(r)

\* Mutant: the first failure is raised without waiting for the other tasks.
TasksFinishedOrFailed ==
  InState({"queued", "cloning", "ready", "generating"}) = {} \/ InState({"failed"}) # {}

\* Mutant: a single worker is waited for even past the task that failed.
TasksAllRun == Active = {} /\ InState({"queued"}) = {}

\* Every task is let finish even when one fails, except those a single worker
\* never came to.
TasksFinished ==
  /\ Active = {}
  /\ InState({"queued"}) = {} \/ (maxConcurrency = 1 /\ InState({"failed"}) # {})

TasksFailed == InState({"failed"}) # {}

\* Mutant: that a repository was cloned is not noted.
KeepOutputsOnly ==
  /\ generated' = generated \union UNION {task[r].done : r \in Repo}
  /\ cloned' = cloned

\* A join that raises keeps no result of any task, not even of those that
\* finished; one that does not takes them all in.
KeepResults ==
  /\ generated' = generated \union UNION {task[r].done : r \in Repo}
  /\ cloned' = cloned \union InState({"ok"})

DropResults == UNCHANGED <<generated, cloned>>
==============================================================================
