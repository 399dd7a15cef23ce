---------------------------- MODULE DeploymentWatch ----------------------------
(***************************************************************************)
(* KubernetesDeploymentDetector.wait_for_success (kubernetes.py): one      *)
(* thread waits for the object a change writes and then for the removal    *)
(* of another, each by a list and, while that is not enough, by watches,   *)
(* until the deadline the two share.  The cluster is WatchedCluster's.     *)
(*                                                                         *)
(* A watch delivers events in order and the detector passes over those     *)
(* that settle nothing, so of the events still to be delivered only the    *)
(* first verdict that settles the wait is kept.                            *)
(***************************************************************************)
EXTENDS WatchedCluster

VARIABLES
  pc,       \* "resolve", "clock" (after a discovery without the kind),
            \* "list", "look" (at what it listed), "watch", "end"
  current,  \* the object waited for
  seen,     \* the verdict on the object as last listed
  coming,   \* the first settling verdict among the events to be delivered
  known,    \* what discovery listed, cached by the detector; or nothing yet
  late,     \* the deadline has passed
  outcome,  \* how the wait ended
  onTime    \* all was in place at the deadline, no list or discovery just
            \* answered, and still is (history)

watchVars == <<pc, current, seen, coming, known, late, outcome>>
vars == <<watchVars, onTime, clusterVars>>

\* The cache before the first discovery.
Undiscovered == [o \in {} |-> 0]

Outcome ==
  {"running", "ok", "givenUp", "timedOut", "unserved", "ambiguous",
   "callFailed"}

TypeOK ==
  /\ ClusterTypeOK
  /\ pc \in {"resolve", "clock", "list", "look", "watch", "end"}
  /\ current \in Object
  /\ seen \in Verdict
  /\ coming \in Verdict
  /\ known \in [Object -> 0..2] \union {Undiscovered}
  /\ late \in BOOLEAN
  /\ outcome \in Outcome
  /\ (outcome = "running") = (pc # "end")
  /\ onTime \in BOOLEAN

\* What an object has to reach, and how far it is.
Goal(o)   == IF o = "removed" THEN "removal" ELSE kind
Stored(o) == IF o = "removed" THEN removed ELSE written
Verdicts(o) == Progress(Goal(o), Stored(o))

AllInPlace ==
  \A o \in Object : Verdicts(o) = "complete" /\ served[o] = 1

Init ==
  /\ ClusterInit
  /\ pc = "resolve"
  /\ current = "written"
  /\ seen = "pending"
  /\ coming = "pending"
  /\ known = Undiscovered
  /\ late = FALSE
  /\ outcome = "running"
  /\ onTime = FALSE

-----------------------------------------------------------------------------
End(result) ==
  /\ pc' = "end"
  /\ outcome' = result

\* The wait for an object is settled by a verdict that is not pending: failed
\* ends it all, complete goes on to the next object.
Settle(verdict) ==
  CASE verdict = "failed" -> End("givenUp") /\ UNCHANGED current
    [] verdict = "complete" /\ current = "removed" ->
         End("ok") /\ UNCHANGED current
    [] OTHER -> /\ pc' = "resolve"
                /\ current' = "removed"
                /\ UNCHANGED outcome

\* How many resources the cache holds for an object's kind.
Known(o) == IF known = Undiscovered THEN 0 ELSE known[o]

\* A discovery is one request for every group; the step is the one that answers
\* for the current object's kind.  The first discovery is followed by another
\* without a look at the clock.
Discover ==
  /\ pc = "resolve"
  /\ Known(current) = 0
  /\ known' = served
  /\ pc' = IF known # Undiscovered /\ served[current] = 0 THEN "clock" ELSE pc
  /\ UNCHANGED <<current, seen, coming, late, outcome>>

\* The kind was not served by then: past the deadline that ends the wait.
LookAtClock ==
  /\ pc = "clock"
  /\ IF late THEN End("unserved") ELSE pc' = "resolve" /\ UNCHANGED outcome
  /\ UNCHANGED <<current, seen, coming, known, late>>

Resolve ==
  /\ pc = "resolve"
  /\ Known(current) > 0
  /\ IF Known(current) > 1
       THEN End("ambiguous")
       ELSE pc' = "list" /\ UNCHANGED outcome
  /\ UNCHANGED <<current, seen, coming, known, late>>

\* Mutant: the deadline is looked at before the object is.
ListInTime ==
  /\ pc = "list"
  /\ served[current] > 0
  /\ IF late THEN End("timedOut") ELSE pc' = "look" /\ UNCHANGED outcome
  /\ seen' = Verdicts(current)
  /\ UNCHANGED <<current, coming, known, late>>

List ==
  /\ pc = "list"
  /\ served[current] > 0
  /\ pc' = "look"
  /\ seen' = Verdicts(current)
  /\ UNCHANGED <<current, coming, known, late, outcome>>

\* A kind that was served when it was resolved and no longer is: not found.
NotServed ==
  /\ pc = "list" \/ (pc = "look" /\ seen = "pending" /\ ~late)
  /\ served[current] = 0
  /\ End("callFailed")
  /\ UNCHANGED <<current, seen, coming, known, late>>

ListSettles ==
  /\ pc = "look"
  /\ seen # "pending"
  /\ Settle(seen)
  /\ UNCHANGED <<seen, coming, known, late>>

\* Mutant: past the deadline the object is listed again.
NeverTimesOut ==
  /\ pc = "look"
  /\ seen = "pending"
  /\ late
  /\ pc' = "list"
  /\ UNCHANGED <<current, seen, coming, known, late, outcome>>

\* Past the deadline an object that is not there yet ends the wait.
TimeOut ==
  /\ pc = "look"
  /\ seen = "pending"
  /\ late
  /\ End("timedOut")
  /\ UNCHANGED <<current, seen, coming, known, late>>

\* Mutant: the watch starts at the next change instead of at the present.
OpenAtNext ==
  /\ pc = "look"
  /\ seen = "pending"
  /\ ~late
  /\ served[current] > 0
  /\ \/ pc' = "watch" /\ coming' = "pending"
     \/ pc' = "list" /\ UNCHANGED coming
  /\ UNCHANGED <<current, seen, known, late, outcome>>

\* The watch is opened without a resource version, so its first event is the
\* object as it is, if there is one; a throttled one is listed again instead.
Open ==
  /\ pc = "look"
  /\ seen = "pending"
  /\ ~late
  /\ served[current] > 0
  /\ \/ /\ pc' = "watch"
        /\ coming' = IF Stored(current) = Absent
                       THEN "pending" ELSE Verdicts(current)
     \/ pc' = "list" /\ UNCHANGED coming
  /\ UNCHANGED <<current, seen, known, late, outcome>>

EventSettles ==
  /\ pc = "watch"
  /\ coming # "pending"
  /\ Settle(coming)
  /\ coming' = "pending"
  /\ UNCHANGED <<seen, known, late>>

\* A watch expires, is dropped, or reports that it cannot go on; what it had
\* not delivered is lost and the object is listed again.
WatchEnds ==
  /\ pc = "watch"
  /\ pc' = "list"
  /\ coming' = "pending"
  /\ UNCHANGED <<current, seen, known, late, outcome>>

\* Whether a call to the API server is made or under way.
Calling ==
  \/ pc = "resolve" /\ Known(current) = 0
  \/ pc \in {"list", "watch"}
  \/ pc = "look" /\ seen = "pending" /\ ~late

\* A discovery, list or watch fails, after as many retries as throttling gets.
CallFails ==
  /\ Calling
  /\ End("callFailed")
  /\ UNCHANGED <<current, seen, coming, known, late>>

Detect ==
  \/ Discover \/ LookAtClock \/ Resolve \/ List \/ NotServed \/ ListSettles \/ TimeOut
  \/ Open \/ EventSettles \/ WatchEnds

-----------------------------------------------------------------------------
\* What the cluster does becomes an event of the watch that is open.
ClusterMoves ==
  /\ pc # "end"
  /\ UNCHANGED <<pc, current, seen, known, late, outcome>>
  /\ ClusterStep
  /\ coming' = IF pc = "watch" /\ coming = "pending" THEN Verdicts(current)'
               ELSE coming
  /\ onTime' = (onTime /\ AllInPlace')

Deadline ==
  /\ pc # "end"
  /\ ~late
  /\ late' = TRUE
  /\ onTime' = (AllInPlace /\ pc \notin {"look", "clock"})
  /\ UNCHANGED <<pc, current, seen, coming, known, outcome, clusterVars>>

\* The wait is over; what the cluster does then is not followed.
Ended == pc = "end" /\ UNCHANGED vars

Next ==
  \/ (Detect \/ CallFails) /\ UNCHANGED <<onTime, clusterVars>>
  \/ ClusterMoves
  \/ Deadline
  \/ Ended

Spec == Init /\ [][Next]_vars

\* The detector's thread runs, the clock goes on, and no watch outlasts its
\* timeoutSeconds; nothing is asked of the cluster or of calls succeeding.
FairSpec ==
  /\ Spec
  /\ WF_vars(Detect /\ UNCHANGED <<onTime, clusterVars>>)
  /\ WF_vars(Deadline)

-----------------------------------------------------------------------------
\* The wait succeeds only if the write landed, pods of its template have at some
\* moment been what it asks for, and the other object has gone: status left by
\* an earlier template never counts (_rollout_goal_progress, the two verdicts).
SuccessIsRollout ==
  outcome = "ok" =>
    /\ written # Absent
    /\ written.id # "old"
    /\ rolledOut
    /\ removed = Absent

\* The generation of the change's own write.
OwnGeneration ==
  IF written.id = "newer" THEN written.generation - 1 ELSE written.generation

\* The wait fails early only for a rollout of this very write: one that is
\* paused, or that the controller gave up on at its generation or a later one,
\* never for a generation before it (_deployment_rollout_progress).  A write that
\* changes no more than annotations makes no generation: a rollout given up on
\* before it is then its own too.
GivenUpIsOfThisWrite ==
  outcome = "givenUp" =>
    /\ kind = "deployment"
    /\ written.id # "old"
    /\ written.paused \/ gaveUp >= OwnGeneration

\* What was all in place at the deadline and stays so is never reported as
\* missing: the last look comes after the deadline (_wait_for_object and
\* _resource_for look before they compare the clock).  Only a list or a discovery
\* already answered when the deadline passes may have been too early to tell.
InPlaceIsNotLate == outcome \in {"timedOut", "unserved"} => ~onTime

\* While a watch is open and has nothing to deliver, the written object is not
\* at its goal: no write falls between the list and the watch (the docstring of
\* _watch_object).  A removal may: it has no event then, and is only seen by the
\* list after the watch.
WatchMissesNoWrite ==
  pc = "watch" /\ current = "written" /\ coming = "pending" =>
    Verdicts("written") = "pending"

\* Every wait ends, whatever the cluster does (the deadline of wait_for_success).
EveryWaitEnds == <>(pc = "end")

-----------------------------------------------------------------------------
(* Why the verdicts are of this write, for the proofs *)

\* An object of an earlier change is as such changes leave it, and a write has
\* at most one generation more.
Generations ==
  written # Absent =>
    /\ written.observed <= written.generation
    /\ written.id = "old" =>
         /\ written.generation = 1 /\ ~written.paused
         /\ written.partition = 0 /\ ~written.onDelete
    /\ written.id = "ours" => written.generation <= 2

\* A status that says the controller gave up was reported when it did.
ExceededGaveUp ==
  written # Absent /\ written.exceeded => gaveUp >= written.observed

\* Pods and status that are what the object asks for have been so of this
\* template.
AsAskedIsRolledOut ==
  written # Absent =>
    /\ PodsAsAsked(pods, written) => rolledOut
    /\ kind = "deployment" /\ DeploymentProgress(written) = "complete" => rolledOut
    /\ kind = "statefulset" /\ StatefulSetProgress(written) = "complete" => rolledOut

\* What a settled wait for an object means, which no later step undoes.
Landed == written # Absent /\ written.id # "old" /\ rolledOut
Abandoned ==
  /\ kind = "deployment"
  /\ written # Absent
  /\ written.id # "old"
  /\ written.paused \/ gaveUp >= OwnGeneration

VerdictMeans(verdict) ==
  /\ verdict = "complete" =>
       IF current = "written" THEN Landed ELSE removed = Absent
  /\ verdict = "failed" => current = "written" /\ Abandoned

VerdictsMean ==
  /\ pc = "look" => VerdictMeans(seen)
  /\ pc = "watch" => VerdictMeans(coming)
  /\ current = "removed" => Landed
  /\ outcome = "ok" => Landed /\ removed = Absent
  /\ outcome = "givenUp" => Abandoned

\* What is in place at the deadline is found by the discovery or list after it.
OnTimeIsFound ==
  /\ onTime => late /\ pc # "clock" /\ (pc # "end" => AllInPlace)
  /\ onTime /\ pc = "look" => seen = "complete"

WatchInvariant ==
  /\ TypeOK
  /\ Generations
  /\ ExceededGaveUp
  /\ AsAskedIsRolledOut
  /\ VerdictsMean
  /\ OnTimeIsFound
  /\ InPlaceIsNotLate
  /\ WatchMissesNoWrite
==============================================================================
