---------------------------- MODULE RolloutPlain ----------------------------
(***************************************************************************)
(* ChangeProcessor without generate-while-waiting: the loop of _process    *)
(* that generates a stage whole, pushes its repositories in order and then *)
(* follows the deployments.  A rollout waits for them on the main thread;  *)
(* a change without rollouts is one stage, answered as soon as it is       *)
(* pushed, its deployments followed by daemon threads that gate nothing.   *)
(***************************************************************************)
EXTENDS StageGeneration

VARIABLES
  rollouts,  \* whether [[rollout]] entries are configured
  detect,    \* detect-deployment
  stage,     \* the stage being deployed
  pc,        \* where the main thread is
  toPush,    \* outputs of the stage whose repository has not been come to
  toFollow,  \* deployments of the stage not followed yet
  followed,  \* deployments a daemon thread was started for
  ended,     \* those whose daemon thread is over
  observed,  \* outputs whose deployment has been seen
  outcome,   \* "running", then "done" or "failed"
  failure    \* what the change failed of

config == <<rollouts, detect>>
mainVars == <<config, stage, pc, toPush, toFollow, outcome, failure>>
vars == <<generationVars, mainVars, followed, ended, observed>>

TypeOK ==
  /\ GenerationTypeOK
  /\ rollouts \in BOOLEAN
  /\ detect \in BOOLEAN
  /\ stage \in 1..StageCount
  /\ pc \in {"stage", "generate", "push", "detect", "end"}
  /\ toPush \subseteq Output
  /\ toFollow \subseteq Output
  /\ followed \subseteq Output
  /\ ended \subseteq followed
  /\ observed \subseteq Output
  /\ outcome \in {"running", "done", "failed"}
  /\ failure \in {"none", "generation", "push", "detection"}

\* config.py refuses rollouts without detection.
Init ==
  /\ GenerationInit
  /\ rollouts \in BOOLEAN
  /\ detect \in IF rollouts THEN {TRUE} ELSE BOOLEAN
  /\ stage = 1
  /\ pc = "stage"
  /\ toPush = {}
  /\ toFollow = {}
  /\ followed = {}
  /\ ended = {}
  /\ observed = {}
  /\ outcome = "running"
  /\ failure = "none"

\* Without rollouts there is one stage of every output.
Deploys(i) == IF rollouts THEN StageSet(i) ELSE Output

Fail(kind) ==
  /\ outcome' = "failed"
  /\ failure' = kind
  /\ pc' = "end"
  /\ UNCHANGED <<maxConcurrency, affected, checkout, cloned, generated, task,
                 config, stage, toPush, toFollow, followed, ended, observed>>

StartStage ==
  /\ pc = "stage"
  /\ Launch(Deploys(stage))
  /\ pc' = "generate"
  /\ UNCHANGED <<maxConcurrency, affected, checkout, remote, cloned, generated,
                 config, stage, toPush, toFollow, followed, ended, observed, outcome,
                 failure>>

JoinStage ==
  /\ pc = "generate"
  /\ TasksFinished
  /\ ~TasksFailed
  /\ KeepResults
  /\ task' = [r \in Repo |-> NoTask]
  /\ toPush' = Deploys(stage)
  /\ toFollow' = Deploys(stage) \intersect affected
  /\ pc' = "push"
  /\ UNCHANGED <<maxConcurrency, affected, checkout, remote, config, stage,
                 followed, ended, observed, outcome, failure>>

JoinStageFails ==
  /\ pc = "generate"
  /\ TasksFinished
  /\ TasksFailed
  /\ Fail("generation")
  /\ UNCHANGED remote

-----------------------------------------------------------------------------
\* Mutant: the repositories are come to in the order they are named last.
LastRepo ==
  RepoOf[CHOOSE o \in toPush : \A p \in toPush : Position[p] <= Position[o]]

\* Repositories are come to in configured order; one the stage changed nothing
\* in is passed over.
NextRepo == FirstRepo(Deploys(stage), ReposOf(toPush))

RepoChanged == toPush \intersect OutputsOf(NextRepo) \intersect affected # {}

Push ==
  /\ pc = "push"
  /\ toPush # {}
  /\ RepoChanged
  /\ remote' = [remote EXCEPT ![NextRepo] = checkout[NextRepo]]
  /\ toPush' = toPush \ OutputsOf(NextRepo)
  /\ UNCHANGED <<maxConcurrency, affected, checkout, cloned, generated, task,
                 config, stage, pc, toFollow, followed, ended, observed, outcome,
                 failure>>

PassOver ==
  /\ pc = "push"
  /\ toPush # {}
  /\ ~RepoChanged
  /\ toPush' = toPush \ OutputsOf(NextRepo)
  /\ UNCHANGED <<generationVars, config, stage, pc, toFollow, followed, ended,
                 observed, outcome, failure>>

\* A push fails with the remote refusing it or, in transport, having taken it.
PushFails ==
  /\ pc = "push"
  /\ toPush # {}
  /\ RepoChanged
  /\ \/ UNCHANGED remote
     \/ remote' = [remote EXCEPT ![NextRepo] = checkout[NextRepo]]
  /\ Fail("push")

\* Mutant: detection begins with the first repository pushed.
EndPushEarly ==
  /\ pc = "push"
  /\ toPush # Deploys(stage)
  /\ pc' = "detect"
  /\ UNCHANGED <<generationVars, config, stage, toPush, toFollow, followed, ended,
                 observed, outcome, failure>>

EndPush ==
  /\ pc = "push"
  /\ toPush = {}
  /\ pc' = "detect"
  /\ UNCHANGED <<generationVars, config, stage, toPush, toFollow, followed, ended,
                 observed, outcome, failure>>

-----------------------------------------------------------------------------
NextDeployment ==
  FirstOutput(toFollow \intersect
              OutputsOf(FirstRepo(Deploys(stage), ReposOf(toFollow))))

\* A rollout waits for one deployment after the other.
AwaitDeployment ==
  /\ pc = "detect"
  /\ rollouts
  /\ toFollow # {}
  /\ observed' = observed \union {NextDeployment}
  /\ toFollow' = toFollow \ {NextDeployment}
  /\ UNCHANGED <<generationVars, config, stage, pc, toPush, followed, ended, outcome,
                 failure>>

AwaitFails ==
  /\ pc = "detect"
  /\ rollouts
  /\ toFollow # {}
  /\ Fail("detection")
  /\ UNCHANGED remote

\* Without a rollout a daemon thread is started for each deployment.
StartDetection ==
  /\ pc = "detect"
  /\ ~rollouts
  /\ detect
  /\ toFollow # {}
  /\ followed' = followed \union {NextDeployment}
  /\ toFollow' = toFollow \ {NextDeployment}
  /\ UNCHANGED <<generationVars, config, stage, pc, toPush, ended, observed,
                 outcome, failure>>

LastStage == rollouts => stage = StageCount

\* Mutant: only what a rollout waits for is followed.
AwaitedFollowed == rollouts => toFollow = {}

\* Mutant: the last deployment of a stage is not waited for.
AllButOneFollowed == detect => Cardinality(toFollow) <= 1

AllFollowed == detect => toFollow = {}

StageEnds ==
  /\ pc = "detect"
  /\ AllFollowed
  /\ IF LastStage
       THEN stage' = stage /\ outcome' = "done" /\ pc' = "end"
       ELSE stage' = stage + 1 /\ outcome' = outcome /\ pc' = "stage"
  /\ UNCHANGED <<generationVars, config, toPush, toFollow, followed, ended, observed,
                 failure>>

\* A daemon thread's detection succeeds or fails; either is only logged.
BackgroundDetection(o) ==
  /\ o \in followed \ ended
  /\ ended' = ended \union {o}
  /\ observed' \in {observed, observed \union {o}}
  /\ UNCHANGED <<generationVars, mainVars, followed>>

GenerationStep(r) ==
  /\ TaskStep(r, FALSE)
  /\ UNCHANGED <<mainVars, followed, ended, observed>>

MainStep ==
  \/ StartStage \/ JoinStage \/ JoinStageFails \/ Push \/ PassOver \/ PushFails
  \/ EndPush \/ AwaitDeployment \/ AwaitFails \/ StartDetection \/ StageEnds

\* The change has answered and its daemon threads have ended.
Ended == pc = "end" /\ followed = ended /\ UNCHANGED vars

Next ==
  \/ MainStep
  \/ \E r \in Repo : GenerationStep(r)
  \/ \E o \in Output : BackgroundDetection(o)
  \/ Ended

Spec == Init /\ [][Next]_vars

-----------------------------------------------------------------------------
(* Properties *)

Released == UNION {remote[r] : r \in Repo}

Gate == INSTANCE RolloutGate WITH released <- Released

\* With rollouts, the plain loop keeps the promise of RolloutGate: GateSpec,
\* of the behaviours whose service has rollouts configured.
ImplementsGate ==
  /\ rollouts => Gate!Init
  /\ [][rollouts => Gate!Next]_(Gate!gateVars)

\* A generation that fails anywhere in a stage pushes nothing of the stage,
\* whichever repositories were already generated (README, "Concurrency").
FailedGenerationPushesNothing ==
  failure = "generation" => Released \intersect Deploys(stage) = {}

\* A stage's repositories are pushed in configured order: one is pushed only
\* after every repository ahead of it the stage changed, so a push that fails
\* leaves those before it pushed and none after it (_process).
PushOrder ==
  \A o, p \in Deploys(stage) \intersect affected :
    /\ o \in Released
    /\ RepoOf[p] = FirstRepo(Deploys(stage), {RepoOf[o], RepoOf[p]})
    => p \in Released

\* What a rollout has observed, or a change without one left to daemon threads.
Followed == IF rollouts THEN observed ELSE followed

\* A change answered as deployed has pushed every output it affects, over all of
\* its stages, and with detection has had each of them observed, or has started
\* a daemon thread that follows it (_detect_stage_deployments).
DoneMeansFollowed ==
  outcome = "done" =>
    /\ affected \subseteq Released
    /\ detect => affected \subseteq Followed

\* Without a rollout detection gates nothing: it neither fails the change nor
\* starts before everything has been pushed.
BackgroundGatesNothing ==
  ~rollouts =>
    /\ failure # "detection"
    /\ followed \union observed # {} => affected \subseteq Released

-----------------------------------------------------------------------------
(* Why the properties last, for the proofs *)

\* What the stages behind this one deploy, and what the change has come to.
Behind == IF rollouts THEN {o \in Output : StageOf[o] < stage} ELSE {}
Reached == Behind \union Deploys(stage)

\* The main thread's variables say the same of the change.
MainConsistent ==
  /\ rollouts => detect
  /\ ~rollouts => stage = 1
  /\ pc = "end" <=> outcome # "running"
  /\ failure # "none" <=> outcome = "failed"
  /\ failure = "detection" => rollouts
  /\ toFollow \subseteq Deploys(stage)

\* A checkout has what its branch has, and neither has anything of a stage that
\* has not begun, nor does the change hold a result of one.
NothingAheadCommitted ==
  /\ generated \subseteq Reached
  /\ \A r \in Repo :
       remote[r] \subseteq checkout[r] /\ checkout[r] \subseteq Reached

\* A task generates outputs of the stage into its own repository.
TasksOfStage ==
  \A r \in Repo :
    /\ task[r].todo \union task[r].done \subseteq Deploys(stage) \intersect OutputsOf(r)
    /\ task[r].state = "generating" => task[r].todo # {}
    /\ task[r].state \in {"none", "ok"} => task[r].todo = {}
    /\ task[r].state \in {"queued", "cloning"} =>
         task[r].todo = Deploys(stage) \intersect OutputsOf(r)
    /\ pc \notin {"generate", "end"} => task[r] = NoTask

\* Nothing of a stage is pushed or kept before its tasks have ended well, and
\* what they have not committed they still have to generate.
StageGeneratedFirst ==
  /\ pc \in {"stage", "generate"} => generated \subseteq Behind
  /\ pc \in {"stage", "generate"} \/ failure = "generation" =>
       Released \intersect Deploys(stage) = {}
  /\ pc = "generate" =>
       \A o \in Deploys(stage) \intersect affected :
         o \in checkout[RepoOf[o]] \union task[RepoOf[o]].todo

\* The outputs of the stages behind are pushed, and those of this one once their
\* repository has been come to.
PushedAsReached ==
  /\ Behind \intersect affected \subseteq Released
  /\ pc = "push" =>
       \A o \in Deploys(stage) \intersect affected :
         o \in checkout[RepoOf[o]] /\ (o \in toPush \/ o \in remote[RepoOf[o]])
  /\ pc = "detect" => Deploys(stage) \intersect affected \subseteq Released

\* Daemon threads follow only what has been pushed whole.
FollowedAfterPush ==
  ~rollouts /\ followed \union observed # {} =>
    pc \in {"detect", "end"} /\ affected \subseteq Released

DoneMeansPushed == outcome = "done" => affected \subseteq Released

PlainInvariant ==
  /\ TypeOK
  /\ MainConsistent
  /\ NothingAheadCommitted
  /\ TasksOfStage
  /\ StageGeneratedFirst
  /\ PushedAsReached
  /\ FollowedAfterPush
  /\ DoneMeansPushed

\* The deployments of the stages behind are followed, and this one's are or still
\* have to be once its generation was joined.
FollowInvariant ==
  detect =>
    /\ Behind \intersect affected \subseteq Followed
    /\ pc \in {"push", "detect"} =>
         Deploys(stage) \intersect affected \subseteq Followed \union toFollow
    /\ outcome = "done" => affected \subseteq Followed

\* What more holds of a rollout: the stages behind were observed, and this one's
\* deployments are observed or still to be.
RolloutFollowed ==
  /\ followed = {}
  /\ observed \subseteq Released
  /\ toFollow \subseteq affected
  /\ Behind \intersect affected \subseteq observed
  /\ pc \in {"push", "detect"} =>
       Deploys(stage) \intersect affected \subseteq observed \union toFollow

\* What is released is of its repository and affected, and in order.
ReleaseInvariant ==
  /\ \A r \in Repo : checkout[r] \subseteq OutputsOf(r) \intersect affected
  /\ pc = "push" => toPush \subseteq Deploys(stage)
  /\ PushOrder
  /\ rollouts => RolloutFollowed
==============================================================================
