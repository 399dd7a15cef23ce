---------------------------- MODULE ManifestPush ----------------------------
(***************************************************************************)
(* Several changes pushing to one branch of a manifests repository:        *)
(* _push_manifests and the git operations under it (change.py, git.py).    *)
(* Each clones the branch once, commits a stage on top of its checkout,    *)
(* pushes it, and, refused by a branch that moved, fetches the branch,     *)
(* rebases its own commits onto it and pushes again, a bounded number of   *)
(* times.                                                                  *)
(*                                                                         *)
(* A commit stands for its patch, and a branch is the sequence of its      *)
(* commits since the first change cloned it, which is what the hash of its *)
(* tip identifies.  A commit's files are those of its writer's directory,  *)
(* so replaying it never changes what another writer's commit did.         *)
(***************************************************************************)
EXTENDS Naturals, Sequences, SequencesExt, FiniteSets

CONSTANTS
  Writer,          \* the changes, each of its own config repository
  Directory,       \* the directory each writer generates into
  Stages,          \* how many stages a change pushes
  PerStage,        \* how many commits a stage makes
  PushAttempts,    \* PUSH_ATTEMPTS
  Retries,         \* how often a git operation is tried again, whether the
                   \* network failed it or the remote refused its token
  PolicyRefuses,   \* whether the remote may refuse a push for a reason of its own
  ResponseLost     \* whether a push may be taken and fail in transport all the same

ASSUME PushAssumption ==
  /\ Stages \in Nat \ {0}
  /\ PerStage \in Nat \ {0}
  /\ PushAttempts \in Nat \ {0}
  /\ Retries \in Nat
  /\ PolicyRefuses \in BOOLEAN
  /\ ResponseLost \in BOOLEAN

VARIABLES
  remote,     \* the branch of the manifests repository
  checkout,   \* per writer, the branch of its clone
  tracking,   \* per writer, the remote-tracking ref of that branch
  told,       \* per writer, what the push in hand was told the branch is
  made,       \* per writer, how many commits it has generated
  reported,   \* per writer, how many it has reported as pushed
  attempt,    \* per writer, the attempt of the push in hand
  failures,   \* per writer, how often the git operation in hand has failed
  at,         \* per writer, where it is
  answer,     \* per writer, "running", "done" or what its change failed of
  unanswered  \* writers a push of which was taken unanswered (properties only)

pushVars == <<remote, checkout, tracking, told, made, reported, attempt,
              failures, at, answer, unanswered>>
local == <<checkout, tracking, made, reported>>

Commit == [writer : Writer, n : 1..(Stages * PerStage)]
Answers == {"running", "done", "refused", "moved", "conflict", "transport"}
Counter(n) == [Writer -> 0..n]

PushTypeOK ==
  /\ remote \in Seq(Commit)
  /\ checkout \in [Writer -> Seq(Commit)]
  /\ tracking \in [Writer -> Seq(Commit)]
  /\ told \in [Writer -> Seq(Commit)]
  /\ made \in Counter(Stages * PerStage)
  /\ reported \in Counter(Stages * PerStage)
  /\ attempt \in Counter(PushAttempts)
  /\ failures \in Counter(Retries)
  /\ at \in [Writer -> {"clone", "generate", "push", "send", "fetch", "end"}]
  /\ answer \in [Writer -> Answers]
  /\ unanswered \subseteq Writer

PushInit ==
  /\ remote = <<>>
  /\ checkout = [w \in Writer |-> <<>>]
  /\ tracking = [w \in Writer |-> <<>>]
  /\ told = [w \in Writer |-> <<>>]
  /\ made = [w \in Writer |-> 0]
  /\ reported = [w \in Writer |-> 0]
  /\ attempt = [w \in Writer |-> 0]
  /\ failures = [w \in Writer |-> 0]
  /\ at = [w \in Writer |-> "clone"]
  /\ answer = [w \in Writer |-> "running"]
  /\ unanswered = {}

-----------------------------------------------------------------------------
Goto(w, label) == at' = [at EXCEPT ![w] = label]

EndChange(w, how) ==
  /\ Goto(w, "end")
  /\ answer' = [answer EXCEPT ![w] = how]

Clone(w) ==
  /\ at[w] = "clone"
  /\ checkout' = [checkout EXCEPT ![w] = remote]
  /\ tracking' = [tracking EXCEPT ![w] = remote]
  /\ Goto(w, "generate")
  /\ UNCHANGED <<remote, told, made, reported, attempt, failures, answer>>

\* manifest-builder commits the stage's outputs on top of the checkout.
Generate(w) ==
  /\ at[w] = "generate"
  /\ made[w] < Stages * PerStage
  /\ checkout' = [checkout EXCEPT ![w] =
                    @ \o [i \in 1..PerStage |-> [writer |-> w, n |-> made[w] + i]]]
  /\ made' = [made EXCEPT ![w] = @ + PerStage]
  /\ attempt' = [attempt EXCEPT ![w] = 1]
  /\ failures' = [failures EXCEPT ![w] = 0]
  /\ Goto(w, "push")
  /\ UNCHANGED <<remote, tracking, told, reported, answer>>

AllPushed(w) ==
  /\ at[w] = "generate"
  /\ made[w] = Stages * PerStage
  /\ EndChange(w, "done")
  /\ UNCHANGED <<remote, local, told, attempt, failures>>

-----------------------------------------------------------------------------
\* A push that succeeds moves the tracking ref to the checkout's tip.
Pushed(w) ==
  /\ tracking' = [tracking EXCEPT ![w] = checkout[w]]
  /\ reported' = [reported EXCEPT ![w] = made[w]]
  /\ Goto(w, "generate")
  /\ UNCHANGED <<checkout, told, made, attempt, failures, answer>>

\* A push first asks where the branch is, and is refused by dulwich itself if
\* the checkout's branch does not descend from it.
Advertised(w) == IsPrefix(remote, checkout[w])

AskBranch(w) ==
  /\ at[w] = "push"
  /\ Advertised(w)
  /\ checkout[w] # remote
  /\ told' = [told EXCEPT ![w] = remote]
  /\ Goto(w, "send")
  /\ UNCHANGED <<remote, local, attempt, failures, answer>>

\* What was pushed already is not sent again, and is pushed for all that.
NothingToSend(w) ==
  /\ at[w] = "push"
  /\ checkout[w] = remote
  /\ Pushed(w)
  /\ UNCHANGED remote

Refused(w) ==
  /\ failures' = [failures EXCEPT ![w] = 0]
  /\ Goto(w, "fetch")
  /\ UNCHANGED <<remote, local, told, attempt, answer>>

Diverged(w) ==
  /\ at[w] = "push"
  /\ ~Advertised(w)
  /\ Refused(w)

\* The remote updates its branch only from where the push was told it is.
StillThere(w) == remote = told[w]

Taken(w) ==
  /\ at[w] = "send"
  /\ StillThere(w)
  /\ remote' = checkout[w]
  /\ Pushed(w)

\* The refusal of one ref is in the push's result, not an exception.
SendRefused(w) ==
  /\ at[w] = "send"
  /\ PolicyRefuses \/ ~StillThere(w)
  /\ Refused(w)

\* Mutant: the retries of an operation are not counted.
InTransportForever(w) ==
  /\ Goto(w, IF at[w] = "fetch" THEN "fetch" ELSE "push")
  /\ UNCHANGED <<local, told, attempt, failures, answer>>

\* A failure in transport is retried from the start of the operation, and in
\* the end fails the change.
InTransport(w) ==
  /\ IF failures[w] < Retries
       THEN /\ failures' = [failures EXCEPT ![w] = @ + 1]
            /\ Goto(w, IF at[w] = "fetch" THEN "fetch" ELSE "push")
            /\ UNCHANGED answer
       ELSE EndChange(w, "transport") /\ UNCHANGED failures
  /\ UNCHANGED <<local, told, attempt>>

TransportFails(w) ==
  /\ at[w] \in {"push", "send", "fetch"}
  /\ InTransport(w)
  /\ UNCHANGED remote

TakenUnanswered(w) ==
  /\ ResponseLost
  /\ at[w] = "send"
  /\ StillThere(w)
  /\ remote' = checkout[w]
  /\ unanswered' = unanswered \union {w}
  /\ InTransport(w)

-----------------------------------------------------------------------------
\* What a refused push does once it has fetched the branch: give up if the
\* branch has not moved, or if it has on every attempt, and rebase otherwise.
Moved(w) == remote # tracking[w]

RefusedUnmoved(w) ==
  /\ at[w] = "fetch"
  /\ ~Moved(w)
  /\ EndChange(w, "refused")
  /\ UNCHANGED <<remote, local, told, attempt, failures>>

LastAttempt(w) == attempt[w] = PushAttempts

RefusedAgain(w) ==
  /\ at[w] = "fetch"
  /\ Moved(w)
  /\ LastAttempt(w)
  /\ EndChange(w, "moved")
  /\ UNCHANGED <<remote, local, told, attempt, failures>>

\* Mutant: everything the checkout has is replayed, not what follows the base.
AllOfCheckout(w) == checkout[w]

\* The commits after the one the remote is known to have.
Own(w) == SubSeq(checkout[w], Len(tracking[w]) + 1, Len(checkout[w]))

\* Mutant: the tracking ref is left where it was by a rebase.
RebaseUnrecorded(w) ==
  /\ at[w] = "fetch"
  /\ Moved(w)
  /\ ~LastAttempt(w)
  /\ checkout' = [checkout EXCEPT ![w] = remote \o Own(w)]
  /\ attempt' = [attempt EXCEPT ![w] = @ + 1]
  /\ failures' = [failures EXCEPT ![w] = 0]
  /\ Goto(w, "push")
  /\ UNCHANGED <<remote, tracking, told, made, reported, answer>>

Rebase(w) ==
  /\ at[w] = "fetch"
  /\ Moved(w)
  /\ ~LastAttempt(w)
  /\ checkout' = [checkout EXCEPT ![w] = remote \o Own(w)]
  /\ tracking' = [tracking EXCEPT ![w] = remote]
  /\ attempt' = [attempt EXCEPT ![w] = @ + 1]
  /\ failures' = [failures EXCEPT ![w] = 0]
  /\ Goto(w, "push")
  /\ UNCHANGED <<remote, told, made, reported, answer>>

\* A rebase has something to merge only with commits of the same directory.
RebaseConflicts(w) ==
  /\ at[w] = "fetch"
  /\ Moved(w)
  /\ ~LastAttempt(w)
  /\ \E i \in DOMAIN remote : /\ remote[i].writer # w
                              /\ Directory[remote[i].writer] = Directory[w]
                              /\ remote[i] \notin Range(tracking[w])
  /\ EndChange(w, "conflict")
  /\ UNCHANGED <<remote, local, told, attempt, failures>>

AnsweredStep(w) ==
  \/ Clone(w) \/ Generate(w) \/ AllPushed(w)
  \/ AskBranch(w) \/ NothingToSend(w) \/ Diverged(w)
  \/ Taken(w) \/ SendRefused(w) \/ TransportFails(w)
  \/ RefusedUnmoved(w) \/ RefusedAgain(w) \/ Rebase(w) \/ RebaseConflicts(w)

WriterStep(w) ==
  \/ AnsweredStep(w) /\ UNCHANGED unanswered
  \/ TakenUnanswered(w)

PushesEnded == (\A w \in Writer : at[w] = "end") /\ UNCHANGED pushVars

PushNext == (\E w \in Writer : WriterStep(w)) \/ PushesEnded

PushSpec == PushInit /\ [][PushNext]_pushVars

\* A change's push runs on a thread of its own, which the scheduler and the
\* timeouts of the connections let go on whatever the other changes do.
FairPushSpec == PushSpec /\ \A w \in Writer : WF_pushVars(WriterStep(w))

-----------------------------------------------------------------------------
(* Properties *)

\* The branch is a log that every change appends its stages to, whole and in
\* order, whatever it had to be rebased over, and each once unless the answer to
\* a push was lost; never at the cost of another's commit, and what a change
\* reports is there (_push_manifests).
Log == INSTANCE BranchLog WITH log <- remote

ImplementsLog == Log!LogSpec

\* Nothing that reached the branch is ever taken off it again, answers lost or
\* not (the push has no force and the remote compares before it swaps).
BranchOnlyGrows == [][IsPrefix(remote, remote')]_remote

\* Every change answers, however the other changes move the branch, refusals
\* and failures in transport being bounded.
EveryChangeAnswers == \A w \in Writer : <>(at[w] = "end")

\* When a refused push goes on to rebase, no commit it replays is on the branch
\* already, if every answer reached the change: the tracking ref has moved with
\* each push and each rebase.
ReplaysOnlyUnpushed ==
  \A w \in Writer \ unanswered :
    at[w] = "fetch" => Range(Own(w)) \intersect Range(remote) = {}

-----------------------------------------------------------------------------
(* Why the branch is a log, for the proofs *)

Pushing == {"push", "send", "fetch"}

\* The stage a writer is pushing.
InHand(w) == [i \in 1..PerStage |-> [writer |-> w, n |-> reported[w] + i]]

\* The branch grows by stages, and a writer makes one at a time.
Whole(n) == \E k \in Nat : n = k * PerStage

StagesWhole ==
  /\ Whole(Len(remote))
  /\ \A w \in Writer : Whole(Len(tracking[w])) /\ Whole(made[w])

\* What a writer knows of the branch is still there.
Follows(s, t) == Len(t) <= Len(s) /\ \A i \in 1..Len(t) : s[i] = t[i]
TrackingStays == \A w \in Writer : Follows(remote, tracking[w])

\* A checkout has what is tracked and, on top of it, the stage in hand.
CheckoutIsOnTop ==
  \A w \in Writer :
    /\ at[w] \in {"clone", "generate"} =>
         made[w] = reported[w] /\ checkout[w] = tracking[w]
    /\ at[w] \in Pushing =>
         made[w] = reported[w] + PerStage /\ checkout[w] = tracking[w] \o InHand(w)
    /\ at[w] = "send" => told[w] = tracking[w]

\* A writer whose pushes were all answered has reported what it has on the branch.
AnsweredIsReported ==
  \A w \in Writer \ unanswered :
    \A i \in 1..Len(remote) : remote[i].writer = w => remote[i].n <= reported[w]

PushInvariant ==
  /\ PushTypeOK
  /\ StagesWhole
  /\ TrackingStays
  /\ CheckoutIsOnTop
  /\ AnsweredIsReported

-----------------------------------------------------------------------------
(* Why every change answers, for the proofs *)

\* What a change has left to do, the weightiest first: to clone and to answer,
\* commits to make, to finish the push in hand, attempts, to have this one
\* refused, retries, and to ask where the branch is.
ToDo(w) ==
  << CASE at[w] = "clone" -> 2 [] at[w] = "end" -> 0 [] OTHER -> 1,
     Stages * PerStage - made[w],
     IF at[w] \in Pushing THEN 1 ELSE 0,
     PushAttempts - attempt[w],
     IF at[w] = "fetch" THEN 0 ELSE 1,
     Retries - failures[w],
     IF at[w] = "push" THEN 1 ELSE 0 >>

Less(s, t) ==
  \E i \in 1..7 : s[i] < t[i] /\ \A j \in 1..(i - 1) : s[j] = t[j]

\* Every step of a change leaves it less to do, and no other change's step leaves
\* it more: refusals and failures are counted, and what resets a count uses up
\* what weighs more (_push_manifests, _retry_transient).
StepsRunOut ==
  [][ \A w \in Writer :
        IF WriterStep(w) THEN Less(ToDo(w)', ToDo(w))
        ELSE ToDo(w)' = ToDo(w) ]_pushVars
==============================================================================
