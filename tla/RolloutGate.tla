----------------------------- MODULE RolloutGate -----------------------------
(***************************************************************************)
(* What a change that is deployed through rollout stages promises,         *)
(* whatever threads do the work: stages are walked in configured order,    *)
(* only outputs of the current stage reach their manifests repository, and *)
(* the next stage is not started until every affected output of this one   *)
(* has been pushed and observed in its cluster (README, "Rollouts").       *)
(* RolloutAhead and RolloutPlain implement it.                             *)
(***************************************************************************)
EXTENDS Naturals

CONSTANTS
  Output,      \* the outputs the change generates into
  StageCount,  \* how many stages the configured rollouts walk, all told
  StageOf      \* the one stage that deploys each output

\* What a configuration of rollouts guarantees of the constants; theorems about
\* the gate assume it by name.
GateAssumption ==
  /\ StageCount \in Nat \ {0}
  /\ StageOf \in [Output -> 1..StageCount]

VARIABLES
  affected,    \* outputs whose manifests the config commit changes
  stage,       \* the stage being deployed
  released,    \* outputs whose change is on the remote manifests branch
  observed,    \* outputs whose deployment was seen in the cluster
  outcome      \* "running", then "done" or "failed"

gateVars == <<affected, stage, released, observed, outcome>>

OfStage(i) == {o \in Output : StageOf[o] = i}
Before(i)  == {o \in Output : StageOf[o] < i}
Due        == (affected \intersect OfStage(stage)) \ released

TypeOK ==
  /\ affected \subseteq Output
  /\ stage \in 1..StageCount
  /\ released \subseteq affected
  /\ observed \subseteq released
  /\ outcome \in {"running", "done", "failed"}

Init ==
  /\ affected \in SUBSET Output
  /\ stage = 1
  /\ released = {}
  /\ observed = {}
  /\ outcome = "running"

\* One push takes several outputs of a repository to the remote at once.
Release(S) ==
  /\ outcome = "running"
  /\ S # {}
  /\ released' = released \union S
  /\ UNCHANGED <<affected, stage, observed, outcome>>

\* A wait left over from a failed stage may still observe what was pushed.
Observe(o) ==
  /\ observed' = observed \union {o}
  /\ UNCHANGED <<affected, stage, released, outcome>>

Verified == affected \intersect OfStage(stage) \subseteq observed

NextStage ==
  /\ outcome = "running"
  /\ Verified
  /\ \/ stage < StageCount /\ stage' = stage + 1 /\ outcome' = outcome
     \/ stage = StageCount /\ outcome' = "done" /\ stage' = stage
  /\ UNCHANGED <<affected, released, observed>>

\* A push that fails in transport may have been taken by the remote first.
Fail(S) ==
  /\ outcome = "running"
  /\ outcome' = "failed"
  /\ released' = released \union S
  /\ UNCHANGED <<affected, stage, observed>>

Next ==
  \/ \E S \in SUBSET Due : Release(S) \/ Fail(S)
  \/ \E o \in released : Observe(o)
  \/ NextStage

GateSpec == Init /\ [][Next]_gateVars

-----------------------------------------------------------------------------
\* The promise itself: an output is deployed only after every affected output
\* of the stages before its own has been observed in its cluster.
StageOrder ==
  \A o \in released, p \in affected :
    StageOf[p] < StageOf[o] => p \in observed

\* A change reported as deployed has every output it affects in its cluster.
DoneMeansDeployed == outcome = "done" => affected \subseteq observed

\* The invariant that is inductive: stages behind the current one have been
\* observed, and nothing ahead of it has been released.
StagesBehindObserved == \A p \in affected : StageOf[p] < stage => p \in observed
NothingAheadReleased == \A o \in released : StageOf[o] <= stage

GateInvariant ==
  /\ TypeOK
  /\ StagesBehindObserved
  /\ NothingAheadReleased
  /\ DoneMeansDeployed

\* A change that ended pushes nothing more and starts no stage.
EndedStaysEnded ==
  [][outcome # "running" =>
       released' = released /\ stage' = stage /\ outcome' = outcome]_gateVars
==============================================================================
