---------------------------- MODULE RolloutAhead ----------------------------
(***************************************************************************)
(* ChangeProcessor with generate-while-waiting: stages deployed in up to   *)
(* two parts each, the deployments of a part waited for on a thread of     *)
(* their own while the rest of the stage, and then the next stage, is      *)
(* generated (_deploy_generating_while_waiting).                           *)
(*                                                                         *)
(* Threads: the main thread (pc), the generation pool's tasks (task), and  *)
(* one thread per wait (wait).  A wait left running when its stage fails   *)
(* is not cancelled.                                                       *)
(***************************************************************************)
EXTENDS StageGeneration

CONSTANT Predictions  \* the predictions considered, each a set of outputs

ASSUME PredictionsAssumption == Predictions \subseteq SUBSET Output

VARIABLES
  predicted,  \* outputs generated first; Output itself where nothing was predicted
  stage,      \* the stage the main thread is deploying
  pc,         \* where the main thread is
  part,       \* the part being generated: 1 predicted, 2 the rest, 3 past both
  considered, \* outputs a push has already decided about
  deployed,   \* what the pushes of this part have sent so far
  wait,       \* per part, the wait for what it deployed
  held,       \* whether generating ahead failed and the failure is held
  observed,   \* outputs whose deployment a wait has seen
  outcome,    \* "running", then "done" or "failed"
  failure     \* what the change failed of

mainVars == <<predicted, stage, pc, part, considered, deployed, held, outcome,
              failure>>
vars == <<generationVars, mainVars, wait, observed>>

Parts == {1, 2}
NoWait == [state |-> "none", todo |-> {}]
Wait == [state : {"none", "running", "ok", "failed"}, todo : SUBSET Output]

TypeOK ==
  /\ GenerationTypeOK
  /\ predicted \subseteq Output
  /\ stage \in 1..StageCount
  /\ pc \in {"stage", "generate", "push", "ahead", "aheadJoin", "await", "end"}
  /\ part \in 1..3
  /\ considered \subseteq Output
  /\ deployed \subseteq Output
  /\ wait \in [Parts -> Wait]
  /\ held \in BOOLEAN
  /\ observed \subseteq Output
  /\ outcome \in {"running", "done", "failed"}
  /\ failure \in {"none", "generation", "push", "detection"}

Init ==
  /\ GenerationInit
  /\ predicted \in Predictions
  /\ stage = 1
  /\ pc = "stage"
  /\ part = 1
  /\ considered = {}
  /\ deployed = {}
  /\ wait = [k \in Parts |-> NoWait]
  /\ held = FALSE
  /\ observed = {}
  /\ outcome = "running"
  /\ failure = "none"

-----------------------------------------------------------------------------
\* Mutant: the first output is pushed on its own, whatever was predicted.
FirstAlone(S, k) ==
  IF S = {} THEN {} ELSE IF k = 1 THEN {FirstOutput(S)} ELSE S \ {FirstOutput(S)}

PartOf(S, k) == IF k = 1 THEN S \intersect predicted ELSE S \ predicted

\* The parts of a stage are those that are not empty.
PartFrom(S, k) ==
  IF k = 1 /\ PartOf(S, 1) # {} THEN 1
  ELSE IF k <= 2 /\ PartOf(S, 2) # {} THEN 2 ELSE 3

Waits(state) == {k \in Parts : wait[k].state = state}

\* The stage's wait is over: all observed, or one found missing already.
Waited == Waits("running") = {} \/ Waits("failed") # {}

StopGenerating == pc = "aheadJoin" /\ Waited

Fail(kind) ==
  /\ outcome' = "failed"
  /\ failure' = kind
  /\ pc' = "end"
  /\ DropResults
  /\ UNCHANGED <<maxConcurrency, affected, checkout, task, predicted, stage,
                 part, considered, deployed, held, wait, observed>>

\* Move on to the k-th part of the stage or, past both, to the wait.
EnterPart(k) ==
  LET next == PartFrom(StageSet(stage), k)
  IN  /\ part' = next
      /\ IF next = 3 THEN pc' = "ahead" /\ task' = [r \in Repo |-> NoTask]
         ELSE pc' = "generate" /\ Launch(PartOf(StageSet(stage), next))

StartStage ==
  /\ pc = "stage"
  /\ ~held
  /\ wait' = [k \in Parts |-> NoWait]
  /\ EnterPart(1)
  /\ UNCHANGED <<maxConcurrency, affected, checkout, remote, cloned, generated,
                 predicted, stage, considered, deployed, held, observed,
                 outcome, failure>>

\* Mutant: the failure surfaces while the stage before is still waited for.
RaiseHeldAtOnce ==
  /\ pc = "await"
  /\ held
  /\ Fail("generation")
  /\ UNCHANGED remote

\* A failure while generating ahead surfaces as the stage it was for starts.
RaiseHeld ==
  /\ pc = "stage"
  /\ held
  /\ Fail("generation")
  /\ UNCHANGED remote

\* After a part is generated, a deployment already found missing fails the
\* stage before anything more of it is pushed.
JoinPart ==
  /\ pc = "generate"
  /\ TasksFinished
  /\ ~TasksFailed
  /\ Waits("failed") = {}
  /\ KeepResults
  /\ task' = [r \in Repo |-> NoTask]
  /\ pc' = "push"
  /\ UNCHANGED <<maxConcurrency, affected, checkout, remote, predicted, stage,
                 part, considered, deployed, wait, held, observed, outcome,
                 failure>>

JoinPartFails ==
  /\ pc = "generate"
  /\ TasksFinished
  /\ \/ TasksFailed /\ Fail("generation")
     \/ ~TasksFailed /\ Waits("failed") # {} /\ Fail("detection")
  /\ UNCHANGED remote

-----------------------------------------------------------------------------
\* What the stage has generated and not decided about, and what of it changed.
Fresh   == (generated \intersect StageSet(stage)) \ considered
Changed == Fresh \intersect affected
PushRepo == FirstRepo(StageSet(stage), ReposOf(Changed))

\* A push sends the checkout as it stands.
Push ==
  /\ pc = "push"
  /\ Changed # {}
  /\ remote' = [remote EXCEPT ![PushRepo] = checkout[PushRepo]]
  /\ considered' = considered \union (Fresh \intersect OutputsOf(PushRepo))
  /\ deployed' = deployed \union (Changed \intersect OutputsOf(PushRepo))
  /\ UNCHANGED <<maxConcurrency, affected, checkout, cloned, generated, task,
                 predicted, stage, pc, part, wait, held, observed, outcome,
                 failure>>

\* A push fails with the remote refusing it or, in transport, having taken it.
PushFails ==
  /\ pc = "push"
  /\ Changed # {}
  /\ \/ UNCHANGED remote
     \/ remote' = [remote EXCEPT ![PushRepo] = checkout[PushRepo]]
  /\ Fail("push")

\* Nothing left to push: what was sent is waited for on a thread of its own.
EndPart ==
  /\ pc = "push"
  /\ Changed = {}
  /\ considered' = considered \union Fresh
  /\ wait' = IF deployed = {} THEN wait
             ELSE [wait EXCEPT ![part] = [state |-> "running", todo |-> deployed]]
  /\ deployed' = {}
  /\ EnterPart(part + 1)
  /\ UNCHANGED <<maxConcurrency, affected, checkout, remote, cloned, generated,
                 predicted, stage, held, observed, outcome, failure>>

-----------------------------------------------------------------------------
\* With the stage pushed, the next one is generated while it is waited for:
\* only while a wait is running, and only if the next stage has outputs.
GenerateAhead ==
  /\ pc = "ahead"
  /\ stage < StageCount
  /\ StageSet(stage + 1) # {}
  /\ ~Waited
  /\ part' = PartFrom(StageSet(stage + 1), 1)
  /\ Launch(PartOf(StageSet(stage + 1), part'))
  /\ pc' = "aheadJoin"
  /\ UNCHANGED <<maxConcurrency, affected, checkout, remote, cloned, generated,
                 predicted, stage, considered, deployed, wait, held, observed,
                 outcome, failure>>

SkipAhead ==
  /\ pc = "ahead"
  /\ stage = StageCount \/ StageSet(stage + 1) = {} \/ Waited
  /\ pc' = "await"
  /\ UNCHANGED <<generationVars, predicted, stage, part, considered, deployed,
                 wait, held, observed, outcome, failure>>

JoinAhead ==
  LET next == PartFrom(StageSet(stage + 1), part + 1)
  IN  /\ pc = "aheadJoin"
      /\ TasksFinished
      /\ IF TasksFailed
           THEN /\ DropResults
                /\ held' = TRUE
                /\ pc' = "await"
                /\ task' = [r \in Repo |-> NoTask]
                /\ UNCHANGED part
           ELSE /\ KeepResults
                /\ held' = held
                /\ part' = next
                /\ IF next = 3
                     THEN pc' = "await" /\ task' = [r \in Repo |-> NoTask]
                     ELSE pc' = pc /\ Launch(PartOf(StageSet(stage + 1), next))
      /\ UNCHANGED <<maxConcurrency, affected, checkout, remote, predicted,
                     stage, considered, deployed, wait, observed, outcome,
                     failure>>

\* Mutant: a wait that has not failed yet is taken for one that is over.
NotFailed(k) == wait[k].state # "failed"

\* The waits are collected in order, each blocked on until it is done.
Settled(k) == wait[k].state \in {"none", "ok"}

LastStage == stage = StageCount

StageVerified ==
  /\ pc = "await"
  /\ \A k \in Parts : Settled(k)
  /\ IF LastStage
       THEN stage' = stage /\ outcome' = "done" /\ pc' = "end"
       ELSE stage' = stage + 1 /\ outcome' = outcome /\ pc' = "stage"
  /\ UNCHANGED <<generationVars, predicted, part, considered, deployed, wait,
                 held, observed, failure>>

StageFails ==
  /\ pc = "await"
  /\ \E k \in Parts : /\ wait[k].state = "failed"
                      /\ \A j \in 1..(k - 1) : Settled(j)
  /\ Fail("detection")
  /\ UNCHANGED remote

-----------------------------------------------------------------------------
\* A wait follows its deployments in turn; the cluster shows one, or does not
\* within the detection timeout.
Observe(k) ==
  LET i == CHOOSE i \in 1..StageCount : wait[k].todo \subseteq StageSet(i)
      r == FirstRepo(StageSet(i), ReposOf(wait[k].todo))
      o == FirstOutput(wait[k].todo \intersect OutputsOf(r))
  IN  /\ wait[k].state = "running"
      /\ observed' = observed \union {o}
      /\ wait' = [wait EXCEPT ![k] =
                    [state |-> IF @.todo = {o} THEN "ok" ELSE "running",
                     todo  |-> @.todo \ {o}]]
      /\ UNCHANGED <<generationVars, mainVars>>

DetectionFails(k) ==
  /\ wait[k].state = "running"
  /\ wait' = [wait EXCEPT ![k].state = "failed"]
  /\ UNCHANGED <<generationVars, mainVars, observed>>

WaitStep(k) == Observe(k) \/ DetectionFails(k)

GenerationStep(r) ==
  /\ TaskStep(r, StopGenerating)
  /\ UNCHANGED <<mainVars, wait, observed>>

MainStep ==
  \/ StartStage \/ RaiseHeld \/ JoinPart \/ JoinPartFails
  \/ Push \/ PushFails \/ EndPart
  \/ GenerateAhead \/ SkipAhead \/ JoinAhead
  \/ StageVerified \/ StageFails

\* The change has answered and no wait is left running.
Ended == pc = "end" /\ Waits("running") = {} /\ UNCHANGED vars

Next ==
  \/ MainStep
  \/ \E r \in Repo : GenerationStep(r)
  \/ \E k \in Parts : WaitStep(k)
  \/ Ended

Spec == Init /\ [][Next]_vars

\* The operating system lets some thread that can go on do so, and every external
\* call ends: a generation or a clone returns, a wait has its timeout.
FairSpec == Spec /\ WF_vars(Next)

-----------------------------------------------------------------------------
(* Properties *)

Released == UNION {remote[r] : r \in Repo}

Gate == INSTANCE RolloutGate WITH released <- Released

\* Whatever was predicted, generated ahead or failed, and however the threads
\* interleave, the change pushes and observes its outputs in the order the
\* rollout configures, as RolloutGate says (change.py, the docstring of
\* _deploy_generating_while_waiting: "never reorders a deployment").
ImplementsGate == Gate!GateSpec

\* What was generated stays committed in the checkout until it is pushed: no
\* later clone of the repository throws it away (cloned in _generate_missing).
NothingGeneratedLost ==
  \A o \in generated \intersect affected : o \in checkout[RepoOf[o]]

\* No output is generated a second time on top of its own commit, whether it
\* was first generated ahead, in an interrupted part or in its own stage.
GeneratedOnce ==
  \A r \in Active : task[r].todo \intersect (generated \union checkout[r]) = {}

\* A stage that is one part pushes nothing if any of its outputs fails to
\* generate, in any repository (README, "Concurrency").
WholeStagePushesNothing ==
  failure = "generation" /\ (\/ StageSet(stage) \subseteq predicted
                             \/ StageSet(stage) \intersect predicted = {})
    => Released \intersect StageSet(stage) = {}

\* A failure of generating ahead never takes the place of the verdict on the
\* stage being waited for: it surfaces only with every earlier stage verified,
\* every earlier wait over, and nothing of its own stage pushed.
HeldFailureWaits ==
  failure = "generation" /\ held =>
    /\ affected \intersect {o \in Output : StageOf[o] < stage} \subseteq observed
    /\ Released \intersect StageSet(stage) = {}

\* When the change has ended and its workspace is removed, no task is still
\* generating into a checkout; only waits, which read the cluster, may run on.
WorkspaceQuiet == pc = "end" => Active = {}

\* Every change is answered, with the main thread never left waiting for a task
\* or a wait that does not come, and every wait ends even if the change failed.
Answers == <>(pc = "end" /\ Waits("running") = {})

-----------------------------------------------------------------------------
(* Why the properties last, for the proofs *)

\* What is being generated: the rest of a part of this stage or the next.
Generating == pc \in {"generate", "aheadJoin"}
GeneratingStage == IF pc = "aheadJoin" THEN stage + 1 ELSE stage
Missing(r) ==
  (PartOf(StageSet(GeneratingStage), part) \intersect OutputsOf(r)) \ generated

\* No checkout has anything of a stage after this one.
CommittedStage == IF pc \in {"aheadJoin", "await", "end"} THEN stage + 1 ELSE stage

\* The main thread's variables say the same of the change.
MainConsistent ==
  /\ pc = "end" <=> outcome # "running"
  /\ pc # "end" => failure = "none"
  /\ held => pc \in {"await", "stage", "end"}
  /\ pc \in {"generate", "push"} =>
       part \in Parts /\ PartOf(StageSet(stage), part) # {}
  /\ pc = "aheadJoin" => part \in Parts /\ stage < StageCount
  /\ pc \notin {"push", "end"} => deployed = {}

\* The tasks have what is missing of the part, done or still to do; none is
\* left once the main thread has joined them, and none can go on at the end.
TaskOfPart(r) ==
  /\ task[r].todo \union task[r].done = Missing(r)
  /\ task[r].todo \intersect task[r].done = {}
  /\ task[r].done \intersect affected \subseteq checkout[r]
  /\ task[r].state \in {"none", "queued", "cloning"} => task[r].done = {}
  /\ task[r].state = "cloning" => r \notin cloned
  /\ task[r].state = "generating" => task[r].todo # {}
  /\ task[r].state = "none" \/ (task[r].state = "ok" /\ pc = "generate") =>
       task[r].todo = {}

TasksOfPart ==
  /\ Generating => \A r \in Repo : TaskOfPart(r)
  /\ ~Generating /\ pc # "end" => \A r \in Repo : task[r] = NoTask
  /\ pc = "end" => TasksFinished

\* A checkout has what its branch has, and, unless a failure dropped results,
\* nothing that is neither held as generated nor done by its task; a
\* repository with anything generated is noted as cloned.
CommitsKept ==
  /\ \A r \in Repo :
       /\ remote[r] \subseteq checkout[r]
       /\ checkout[r] \subseteq OutputsOf(r) \intersect affected
       /\ \A o \in checkout[r] : StageOf[o] <= CommittedStage
       /\ pc # "end" /\ ~held => checkout[r] \subseteq generated \union task[r].done
  /\ \A o \in generated : RepoOf[o] \in cloned
  /\ NothingGeneratedLost

\* A part is decided about whole before the next is entered, and the stage
\* before it is waited for.
PartsConsidered ==
  /\ \A o \in considered :
       StageOf[o] <= stage /\ (pc = "stage" => StageOf[o] < stage)
  /\ pc \in {"generate", "push"} =>
       \A k \in Parts : k < part => PartOf(StageSet(stage), k) \subseteq considered
  /\ pc = "push" => PartOf(StageSet(stage), part) \subseteq generated
  /\ pc \in {"ahead", "aheadJoin", "await"} => StageSet(stage) \subseteq considered

\* What was decided about and changed is pushed, and observed, in a wait or to
\* be in the wait of this part; the stages behind are observed.
Pending == UNION {wait[k].todo : k \in Parts}

ConsideredFollowed ==
  /\ considered \intersect affected \intersect StageSet(stage)
       \subseteq deployed \union observed \union Pending
  /\ deployed \subseteq Released \intersect StageSet(stage)
  /\ observed \subseteq Released
  /\ \A k \in Parts :
       /\ wait[k].todo \subseteq Released \intersect StageSet(stage)
       /\ wait[k].state \in {"none", "ok"} <=> wait[k].todo = {}
       /\ pc \in {"generate", "push"} /\ part <= k => wait[k] = NoWait
  /\ \A o \in affected : StageOf[o] < stage => o \in observed

\* Nothing of a stage is released before its first part is.
ReleasedInOrder ==
  /\ \A o \in Released : StageOf[o] <= stage
  /\ \/ pc = "stage"
     \/ /\ pc = "generate"
        /\ \A k \in Parts : k < part => PartOf(StageSet(stage), k) = {}
     => Released \intersect StageSet(stage) = {}
  /\ WholeStagePushesNothing
  /\ HeldFailureWaits

AheadInvariant ==
  /\ TypeOK
  /\ MainConsistent
  /\ TasksOfPart
  /\ CommitsKept
  /\ PartsConsidered
  /\ ConsideredFollowed
  /\ ReleasedInOrder
==============================================================================
