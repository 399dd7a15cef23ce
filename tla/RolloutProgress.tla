--------------------------- MODULE RolloutProgress ---------------------------
(***************************************************************************)
(* How far an observed Kubernetes object is towards what a change asked of *)
(* it (kubernetes.py): the goals of a wait and the verdicts that tell      *)
(* whether an object has reached one.  Pure: a verdict depends on nothing  *)
(* but the one object.                                                     *)
(*                                                                         *)
(* An object is its manifest-id and, of a Deployment or a StatefulSet, the *)
(* fields the verdicts read; a count that is missing from it is zero.      *)
(***************************************************************************)
EXTENDS Naturals

Absent == [id |-> "absent"]

Verdict == {"pending", "complete", "failed"}
Goals == {"manifest-id", "deployment", "statefulset", "removal"}

ManifestIdProgress(obj) == IF obj.id = "ours" THEN "complete" ELSE "pending"

\* Mutant: whether the controller has seen the change is not asked.
DeploymentUnobserved(obj) ==
  IF obj.paused \/ obj.exceeded THEN "failed"
  ELSE IF \/ obj.updated < obj.desired
          \/ obj.replicas > obj.updated
          \/ obj.available < obj.updated
       THEN "pending" ELSE "complete"

\* Mutant: the deadline is asked about before the generation.
DeploymentExceededFirst(obj) ==
  IF obj.paused \/ obj.exceeded THEN "failed"
  ELSE IF \/ obj.observed < obj.generation
          \/ obj.updated < obj.desired
          \/ obj.replicas > obj.updated
          \/ obj.available < obj.updated
       THEN "pending" ELSE "complete"

\* The checks of kubectl rollout status: what the status says of a rollout
\* counts only once the controller has observed the generation.
DeploymentProgress(obj) ==
  IF obj.paused THEN "failed"
  ELSE IF obj.observed < obj.generation THEN "pending"
  ELSE IF obj.exceeded THEN "failed"
  ELSE IF \/ obj.updated < obj.desired
          \/ obj.replicas > obj.updated
          \/ obj.available < obj.updated
       THEN "pending" ELSE "complete"

\* How many replicas a partition leaves to be updated.
Covered(obj) ==
  IF obj.partition > obj.desired THEN 0 ELSE obj.desired - obj.partition

StatefulSetProgress(obj) ==
  IF obj.observed < obj.generation THEN "pending"
  ELSE IF obj.onDelete THEN "complete"
  ELSE IF \/ obj.ready < obj.desired
          \/ obj.updated < Covered(obj)
          \/ obj.partition = 0 /\ ~obj.current
       THEN "pending" ELSE "complete"

\* A rollout means something only of an object that carries the manifest-id.
Progress(goal, obj) ==
  IF goal = "removal" THEN IF obj = Absent THEN "complete" ELSE "pending"
  ELSE IF ManifestIdProgress(obj) # "complete" THEN "pending"
  ELSE CASE goal = "manifest-id" -> "complete"
         [] goal = "deployment"  -> DeploymentProgress(obj)
         [] goal = "statefulset" -> StatefulSetProgress(obj)
==============================================================================
