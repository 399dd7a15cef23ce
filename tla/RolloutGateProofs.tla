-------------------------- MODULE RolloutGateProofs --------------------------
(***************************************************************************)
(* Proofs that a gated rollout deploys its stages in order, for any set of *)
(* outputs and any number of stages.                                       *)
(*                                                                         *)
(* StageOrder by itself is not inductive: a state could have released an   *)
(* output of a stage that has not started, and the release of an earlier   *)
(* affected output's peer would go unnoticed.  GateInvariant adds where    *)
(* the stage stands between what is observed and what is released.         *)
(***************************************************************************)
EXTENDS RolloutGate, TLAPS

LEMMA GateInit ==
  ASSUME GateAssumption
  PROVE  Init => GateInvariant
  BY DEF GateAssumption, Init, GateInvariant, TypeOK, StagesBehindObserved,
         NothingAheadReleased, DoneMeansDeployed

\* What Release and Fail have in common: they add outputs due in this stage.
LEMMA DueIsOfStage ==
  ASSUME GateAssumption, GateInvariant, NEW S \in SUBSET Due
  PROVE  /\ S \subseteq affected
         /\ \A o \in S : StageOf[o] <= stage
  BY DEF GateAssumption, GateInvariant, TypeOK, Due, OfStage

LEMMA GateStep ==
  ASSUME GateAssumption
  PROVE  GateInvariant /\ [Next]_gateVars => GateInvariant'
<1> SUFFICES ASSUME GateInvariant, [Next]_gateVars
             PROVE  GateInvariant'
  OBVIOUS
<1> USE DEF GateInvariant, TypeOK, StagesBehindObserved, NothingAheadReleased,
            DoneMeansDeployed
<1>1. ASSUME NEW S \in SUBSET Due, Release(S)
      PROVE  GateInvariant'
  BY <1>1, DueIsOfStage DEF Release
<1>2. ASSUME NEW S \in SUBSET Due, Fail(S)
      PROVE  GateInvariant'
  BY <1>2, DueIsOfStage DEF Fail
<1>3. ASSUME NEW o \in released, Observe(o)
      PROVE  GateInvariant'
  BY <1>3 DEF Observe
<1>4. CASE NextStage
  <2>1. \A p \in affected : StageOf[p] = stage => p \in observed
    BY <1>4 DEF GateAssumption, NextStage, Verified, OfStage
  <2>2. \A p \in affected : StageOf[p] <= stage => p \in observed
    BY <2>1 DEF GateAssumption
  <2>3. CASE stage < StageCount /\ stage' = stage + 1 /\ outcome' = outcome
    BY <1>4, <2>2, <2>3 DEF GateAssumption, NextStage
  <2>4. CASE stage = StageCount /\ outcome' = "done" /\ stage' = stage
    BY <1>4, <2>2, <2>4 DEF GateAssumption, NextStage
  <2> QED
    BY <1>4, <2>3, <2>4 DEF NextStage
<1>5. CASE UNCHANGED gateVars
  BY <1>5 DEF gateVars
<1> QED
  BY <1>1, <1>2, <1>3, <1>4, <1>5 DEF Next

\* Every reachable state of a gated rollout satisfies the inductive invariant,
\* the type invariant among its parts (_process and
\* _deploy_generating_while_waiting in change.py, seen as one gate).
THEOREM GateHolds ==
  ASSUME GateAssumption
  PROVE  GateSpec => []GateInvariant
  BY GateInit, GateStep, PTL DEF GateSpec

\* No output is pushed before every affected output of the stages before its
\* own has been observed in its cluster, however many outputs and stages.
THEOREM StagesAreOrdered ==
  ASSUME GateAssumption
  PROVE  GateSpec => []StageOrder
<1>1. GateInvariant => StageOrder
  BY DEF GateAssumption, GateInvariant, TypeOK, StageOrder,
         StagesBehindObserved, NothingAheadReleased
<1> QED
  BY <1>1, GateHolds, PTL

\* A change answered as deployed is in every cluster it affects.
THEOREM DoneIsDeployed ==
  ASSUME GateAssumption
  PROVE  GateSpec => []DoneMeansDeployed
<1>1. GateInvariant => DoneMeansDeployed
  BY DEF GateInvariant
<1> QED
  BY <1>1, GateHolds, PTL

\* Once a change has failed or is done it pushes nothing more: an output left
\* unpushed by a failed stage stays so.
THEOREM EndedChangesNothing == GateSpec => EndedStaysEnded
<1>1. [Next]_gateVars =>
        [outcome # "running" =>
           released' = released /\ stage' = stage /\ outcome' = outcome]_gateVars
  BY DEF Next, Release, Fail, Observe, NextStage, gateVars
<1> QED
  BY <1>1, PTL DEF GateSpec, EndedStaysEnded
==============================================================================
