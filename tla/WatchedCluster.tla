---------------------------- MODULE WatchedCluster ----------------------------
(***************************************************************************)
(* The cluster a deployment is watched in, as far as relcoord can tell:    *)
(* external, modelled from what kubernetes.py reads and relies on.  A      *)
(* deployer writes one object and removes another, a controller rolls the  *)
(* write out to pods and reports on them in the status some time later,    *)
(* and a later change may write the object again.                          *)
(***************************************************************************)
EXTENDS RolloutProgress

CONSTANTS
  Desired,     \* replicas of the workload
  Partitions   \* partitions a StatefulSet may be configured with

ASSUME ClusterAssumption ==
  Desired \in Nat \ {0} /\ 0 \in Partitions /\ Partitions \subseteq Nat

VARIABLES
  kind,       \* the goal of the written object, by its kind
  written,    \* the object the change writes, as the API serves it
  removed,    \* the object it removes
  pods,       \* the pods: of another template, of this one, and ready
  served,     \* how many resources discovery lists for each object's kind
  rolledOut,  \* this template's pods have been as asked (history)
  gaveUp      \* the last generation the controller gave up on (history)

clusterVars == <<kind, written, removed, pods, served, rolledOut, gaveUp>>

Object == {"written", "removed"}

Workload ==
  [id : {"old", "ours", "newer"}, generation : 1..3, paused : BOOLEAN,
   desired : {Desired}, partition : Partitions, onDelete : BOOLEAN,
   observed : 0..3, exceeded : BOOLEAN, updated : 0..Desired,
   replicas : 0..(2 * Desired), available : 0..(2 * Desired),
   ready : 0..Desired, current : BOOLEAN]

ClusterTypeOK ==
  /\ kind \in Goals \ {"removal"}
  /\ written \in Workload \union {Absent}
  /\ removed \in {[id |-> "old"], Absent}
  /\ pods \in [old : 0..Desired, new : 0..Desired, ready : 0..Desired]
  /\ served \in [Object -> 0..2]
  /\ rolledOut \in BOOLEAN
  /\ gaveUp \in 0..2

\* As an earlier change left the object: rolled out, or given up half way.
Left(exceeded, updated, replicas) ==
  [id |-> "old", generation |-> 1, paused |-> FALSE, desired |-> Desired,
   partition |-> 0, onDelete |-> FALSE, observed |-> 1, exceeded |-> exceeded,
   updated |-> updated, replicas |-> replicas, available |-> Desired,
   ready |-> Desired, current |-> TRUE]

Complete == Left(FALSE, Desired, Desired)
GivenUp  == Left(TRUE, 1, 1 + Desired)

\* A kind of Kubernetes' own is served; a custom one may be served later, or
\* by several groups, and no longer once its definition is removed.
ClusterInit ==
  /\ kind \in Goals \ {"removal"}
  /\ \/ written = Absent /\ pods = [old |-> 0, new |-> 0, ready |-> 0]
     \/ /\ written = Complete
        /\ pods = [old |-> 0, new |-> Desired, ready |-> Desired]
     \/ /\ kind = "deployment" /\ written = GivenUp
        /\ pods = [old |-> Desired, new |-> 1, ready |-> 0]
  /\ removed \in {[id |-> "old"], Absent}
  /\ served \in [Object -> 0..2]
  /\ kind # "manifest-id" => served["written"] = 1
  /\ written # Absent => served["written"] > 0
  /\ removed # Absent => served["removed"] > 0
  /\ rolledOut = (written = Complete)
  /\ gaveUp = IF written = GivenUp THEN 1 ELSE 0

\* Whether the pods p are what the object obj asks for.
PodsAsAsked(p, obj) ==
  CASE kind = "manifest-id" -> TRUE
    [] kind = "deployment"  -> p.old = 0 /\ p.new = Desired /\ p.ready = Desired
    [] kind = "statefulset" ->
         obj.onDelete \/ (p.ready = Desired /\ p.new >= Covered(obj))

\* A Deployment's readiness is that of its new pods, the old ones stay up.
Ready(p) == IF kind = "deployment" THEN p.old + p.ready ELSE p.ready

-----------------------------------------------------------------------------
\* What a creation starts from: a new workload has no status.
Fresh ==
  [id |-> "old", generation |-> 0, paused |-> FALSE, desired |-> Desired,
   partition |-> 0, onDelete |-> FALSE, observed |-> 0, exceeded |-> FALSE,
   updated |-> 0, replicas |-> 0, available |-> 0, ready |-> 0,
   current |-> TRUE]

\* The object obj as the change asks for it.
Applied(obj, bump, paused, partition, onDelete) ==
  [obj EXCEPT !.id = "ours", !.generation = IF bump THEN @ + 1 ELSE @,
     !.paused = paused, !.partition = partition, !.onDelete = onDelete]

\* The deployer creates the object, or writes to its metadata alone, to its
\* spec, or to the template of its pods too.
Write ==
  /\ written = Absent \/ written.id = "old"
  /\ served["written"] > 0
  /\ \E template, bump, onDelete, paused \in BOOLEAN, partition \in Partitions :
       /\ template \/ onDelete \/ paused \/ partition > 0 => bump
       /\ written = Absent => template
       /\ kind # "statefulset" => partition = 0 /\ ~onDelete
       /\ kind # "deployment" => ~paused
       /\ written' = Applied(IF written = Absent THEN Fresh ELSE written,
                             bump, paused, partition, onDelete)
       /\ pods' = IF template /\ written # Absent
                    THEN [old |-> Desired, new |-> 0, ready |->
                            IF kind = "deployment" THEN 0 ELSE pods.ready]
                    ELSE pods
       /\ rolledOut' = \/ rolledOut /\ ~template
                       \/ PodsAsAsked(pods', written')
  /\ UNCHANGED <<kind, removed, served, gaveUp>>

\* A later change takes the object over.
Supersede ==
  /\ written # Absent
  /\ written.id = "ours"
  /\ written' = [written EXCEPT !.id = "newer", !.generation = @ + 1]
  /\ UNCHANGED <<kind, removed, pods, served, rolledOut, gaveUp>>

RemoveObject ==
  /\ removed' = Absent
  /\ removed # Absent
  /\ UNCHANGED <<kind, written, pods, served, rolledOut, gaveUp>>

\* A definition of a custom kind is installed, or removed with its objects.
Serve ==
  /\ \/ served["written"] = 0 /\ served' = [served EXCEPT !["written"] = 1]
     \/ /\ removed = Absent /\ served["removed"] > 0
        /\ served' = [served EXCEPT !["removed"] = 0]
  /\ UNCHANGED <<kind, written, removed, pods, rolledOut, gaveUp>>

\* What a later change rolls out is not followed: its manifest-id is not the one
\* waited for, so nothing of its status is read.
RollsOut ==
  /\ kind # "manifest-id"
  /\ written # Absent
  /\ written.id # "newer"
  /\ ~written.paused

\* A Deployment's pods of the new template come beside the old ones, those of
\* a StatefulSet take their place, above the partition.  A pod becomes ready
\* after it has come, and may cease to be.
RunPods ==
  /\ RollsOut
  /\ \/ /\ kind = "deployment"
        /\ \/ pods.new < Desired /\ pods' = [pods EXCEPT !.new = @ + 1]
           \/ pods.old > 0 /\ pods' = [pods EXCEPT !.old = @ - 1]
     \/ /\ kind = "statefulset"
        /\ ~written.onDelete
        /\ pods.new < Covered(written) \/ pods.old + pods.new < Desired
        /\ pods' = [old   |-> IF pods.old > 0 THEN pods.old - 1 ELSE 0,
                    new   |-> pods.new + 1,
                    ready |-> IF pods.ready > 0 THEN pods.ready - 1 ELSE 0]
     \/ /\ pods.ready < Desired
        /\ \/ pods.ready < pods.new
           \/ kind = "statefulset" /\ pods.ready < pods.old + pods.new
        /\ pods' = [pods EXCEPT !.ready = @ + 1]
     \/ pods.ready > 0 /\ pods' = [pods EXCEPT !.ready = @ - 1]
  /\ rolledOut' = \/ rolledOut
                  \/ PodsAsAsked(pods', written)
  /\ UNCHANGED <<kind, written, removed, served, gaveUp>>

\* The controller reports the generation it is at and the pods as they are; it
\* may give up on a Deployment that is not rolled out, and makes a StatefulSet's
\* new revision current some time after its last pod.
ReportStatus ==
  /\ RollsOut
  /\ \E exceeded, current \in BOOLEAN :
       /\ exceeded => kind = "deployment" /\ ~PodsAsAsked(pods, written)
       /\ current => kind = "deployment" \/ pods.old = 0
       /\ kind = "deployment" => current
       /\ written' = [written EXCEPT
            !.observed = written.generation, !.exceeded = exceeded,
            !.updated = pods.new, !.replicas = pods.old + pods.new,
            !.available = Ready(pods), !.ready = pods.ready,
            !.current = current]
       /\ gaveUp' = IF exceeded THEN written.generation ELSE gaveUp
  /\ UNCHANGED <<kind, removed, pods, served, rolledOut>>

ClusterStep ==
  Write \/ Supersede \/ RemoveObject \/ Serve \/ RunPods \/ ReportStatus
==============================================================================
