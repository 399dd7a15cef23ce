--------------------------- MODULE DiffGeneration ---------------------------
(***************************************************************************)
(* One diff of a config commit (DiffCommentProcessor): the commit rebased  *)
(* onto its default branch, the outputs the request may see generated into *)
(* a throwaway checkout per manifests repository, one pool of threads      *)
(* generating and another having each tree judged, and the comment made of *)
(* what both found.  Nothing is pushed.                                    *)
(*                                                                         *)
(* manifest-builder, manifest-validator, git and GitHub are external.  A   *)
(* commit is named by the output it is for, a checkout and a tree read     *)
(* from it by the commits in them; what a commit changes line by line      *)
(* matters only to what the comment leaves out, for one repository like    *)
(* for another, and is chosen for one as the comment is made.  Finding the *)
(* comment to edit is in PullRequestComment; here commenting succeeds or   *)
(* fails.                                                                  *)
(***************************************************************************)
EXTENDS ManifestDiff

CONSTANTS
  Output,       \* the outputs configured
  Repo,         \* the manifests repositories they are generated into
  RepoOf,       \* the repository of each output
  Position,     \* an output's place in the configured order
  Requests,     \* the requests considered
  Declarations, \* the targets a config may declare and go by; {} for none
  Settings      \* the settings of the service considered

\* A request's role restricts it to some outputs and it may ask for some of
\* those, in either case {} to none in particular; it may be streamed, and may
\* name a section.
Request == [role : SUBSET Output, asked : SUBSET Output,
            streamed : BOOLEAN, section : BOOLEAN]

\* How many tasks each pool runs at once, whether there is a validator, and for
\* each output the outputs whose directories are its own or inside it.
Setting == [maxConcurrency : Nat \ {0}, validator : BOOLEAN,
            within : [Output -> SUBSET Output]]

ASSUME DiffAssumption ==
  /\ IsFiniteSet(Output)
  /\ RepoOf \in [Output -> Repo]
  /\ Position \in [Output -> Nat]
  /\ \A o, p \in Output : Position[o] = Position[p] => o = p
  /\ Requests \subseteq Request
  /\ Declarations \subseteq SUBSET Output
  /\ Settings \subseteq Setting
  /\ \A s \in Settings : \A o \in Output :
       o \in s.within[o] /\ \A p \in s.within[o] : RepoOf[p] = RepoOf[o]

VARIABLES
  request,    \* the request answered
  settings,   \* those of the service
  affected,   \* outputs the commit changes; only generating tells
  flawed,     \* outputs whose commit the validator's checks object to
  pc,         \* where the diff's own thread is
  selected,   \* the outputs it generates
  task,       \* per repository, the task generating into its checkout
  checkout,   \* per repository, the outputs committed in the checkout
  shown,      \* per repository, the outputs its diff shows a change of
  validation, \* per output, the judging of its tree
  comment,    \* what the comment was made of
  failure     \* what the diff failed of

choiceVars == <<request, settings, affected, flawed>>
vars == <<choiceVars, pc, selected, task, checkout, shown, validation, comment,
          failure>>

NoTask == [state |-> "none", todo |-> {}]
Task == [state : {"none", "queued", "cloning", "generating", "reading",
                  "diffing", "ok", "failed"},
         todo  : SUBSET Output]

\* A validation that ended without a verdict is an error, and one of a tree
\* without files is nothing at all; one that broke ends the diff.
Verdict == {"passed", "failed", "error", "nothing", "broken"}
NoValidation == [state |-> "none", tree |-> {}]
Validation == [state : {"none", "queued", "running"} \union Verdict,
               tree  : SUBSET Output]

Failures == {"none", "refused", "transport", "config", "generation",
             "validation", "comment"}
NoComment == [kind |-> "none", shows |-> {}, diff |-> {}, passed |-> {}]

TypeOK ==
  /\ request \in Requests
  /\ settings \in Settings
  /\ affected \subseteq Output
  /\ flawed \subseteq Output
  /\ pc \in {"plan", "source", "select", "plugins", "section", "pools",
             "comment", "end"}
  /\ selected \subseteq Output
  /\ task \in [Repo -> Task]
  /\ checkout \in [Repo -> SUBSET Output]
  /\ shown \in [Repo -> SUBSET Output]
  /\ validation \in [Output -> Validation]
  /\ comment \in [kind : {"none", "rebase", "diff"},
                  shows : SUBSET Output, diff : Diffs \union {{}},
                  passed : SUBSET Output]
  /\ failure \in Failures

Init ==
  /\ request \in Requests
  /\ settings \in Settings
  /\ affected \in SUBSET Output
  /\ flawed \in {{}} \union {{o} : o \in affected}
  /\ pc = "plan"
  /\ selected = {}
  /\ task = [r \in Repo |-> NoTask]
  /\ checkout = [r \in Repo |-> {}]
  /\ shown = [r \in Repo |-> {}]
  /\ validation = [o \in Output |-> NoValidation]
  /\ comment = NoComment
  /\ failure = "none"

OutputsOf(r) == {o \in Output : RepoOf[o] = r}
FirstOutput(S) == CHOOSE o \in S : \A p \in S : Position[o] <= Position[p]

\* The diff's workspace is removed on every way to "end".
Fail(kind) == failure' = kind /\ pc' = "end"

-----------------------------------------------------------------------------
\* A request may narrow what its role names, and only that.
Allowed == request.asked \subseteq request.role

Plan ==
  /\ pc = "plan"
  /\ IF Allowed THEN pc' = "source" /\ UNCHANGED failure ELSE Fail("refused")
  /\ UNCHANGED <<choiceVars, selected, task, checkout, shown, validation,
                 comment>>

\* What the request may reach; a role that names none leaves every output.
Granted == IF request.asked = {} THEN request.role ELSE request.asked

\* The handler hands the processor what was granted, except that the one that
\* streams hands it nothing.
Handed == IF request.streamed THEN {} ELSE Granted

\* Handed none, every configured output is permitted.
Permitted == IF Handed = {} THEN Output ELSE Handed

\* The commit is cloned and rebased onto the default branch.
CheckoutSource ==
  /\ pc = "source"
  /\ \/ pc' = "select" /\ UNCHANGED <<comment, failure>>
     \/ Fail("transport") /\ UNCHANGED comment
  /\ UNCHANGED <<choiceVars, selected, task, checkout, shown, validation>>

\* Where it does not rebase, the comment asks for that instead.
RebaseConflicts ==
  /\ pc = "source"
  /\ pc' = "comment"
  /\ comment' = [NoComment EXCEPT !.kind = "rebase"]
  /\ UNCHANGED <<choiceVars, selected, task, checkout, shown, validation,
                 failure>>

\* A config that declares targets is generated into those; one that declares
\* any that is not permitted is refused, and any for a request of a section.
Select(declared) ==
  /\ pc = "select"
  /\ IF declared = {}
       THEN selected' = Permitted /\ pc' = "plugins" /\ UNCHANGED failure
       ELSE IF declared \subseteq Permitted /\ ~request.section
       THEN selected' = declared /\ pc' = "plugins" /\ UNCHANGED failure
       ELSE Fail("config") /\ UNCHANGED selected
  /\ UNCHANGED <<choiceVars, task, checkout, shown, validation, comment>>

\* A commit without config, or a section without a system repository.
NoDeployConfig ==
  /\ pc = "select"
  /\ Fail("config")
  /\ UNCHANGED <<choiceVars, selected, task, checkout, shown, validation,
                 comment>>

\* One task for each repository of a permitted output, with the selected
\* outputs in it, which may be none.
QueueTasks(outputs) ==
  /\ task' = [r \in Repo |->
                IF OutputsOf(r) \intersect Permitted = {} THEN NoTask
                ELSE [state |-> "queued", todo |-> OutputsOf(r) \intersect outputs]]
  /\ pc' = "pools"

FetchPlugins ==
  /\ pc = "plugins"
  /\ \/ ~request.section /\ QueueTasks(selected) /\ UNCHANGED failure
     \/ request.section /\ pc' = "section" /\ UNCHANGED <<task, failure>>
     \/ Fail("transport") /\ UNCHANGED task
  /\ UNCHANGED <<choiceVars, selected, checkout, shown, validation, comment>>

\* The targets the system repository builds from a section take the place of
\* the permitted outputs, and there have to be some.
SelectSection(built) ==
  /\ pc = "section"
  /\ IF built # {} /\ built \subseteq Permitted
       THEN selected' = built /\ QueueTasks(built) /\ UNCHANGED failure
       ELSE Fail("config") /\ UNCHANGED <<selected, task>>
  /\ UNCHANGED <<choiceVars, checkout, shown, validation, comment>>

-----------------------------------------------------------------------------
InState(states) == {r \in Repo : task[r].state \in states}
Active == InState({"cloning", "generating", "reading", "diffing"})
Tasks == Repo \ InState({"none"})

\* A single worker, or a single task, is the calling thread, which goes no
\* further than the first task that fails.
OnCaller == settings.maxConcurrency = 1 \/ Cardinality(Tasks) = 1

FirstPermitted(r) == FirstOutput(OutputsOf(r) \intersect Permitted)

StartTask(r) ==
  /\ task[r].state = "queued"
  /\ \A q \in InState({"queued"}) :
       Position[FirstPermitted(r)] <= Position[FirstPermitted(q)]
  /\ Cardinality(Active) < settings.maxConcurrency
  /\ OnCaller => InState({"failed"}) = {}
  /\ task' = [task EXCEPT ![r].state = "cloning"]
  /\ UNCHANGED <<checkout, shown, validation>>

Clone(r) ==
  /\ task[r].state = "cloning"
  /\ task' = [task EXCEPT ![r].state =
                 IF task[r].todo = {} THEN "diffing" ELSE "generating"]
  /\ UNCHANGED <<checkout, shown, validation>>

\* Each output commits on top of the one before it.
Generate(r) ==
  /\ task[r].state = "generating"
  /\ checkout' = [checkout EXCEPT
                    ![r] = @ \union ({FirstOutput(task[r].todo)} \intersect affected)]
  /\ task' = [task EXCEPT ![r].state = "reading"]
  /\ UNCHANGED <<shown, validation>>

\* What the checkout holds in an output's directory.
TreeOf(o) == checkout[RepoOf[o]] \intersect settings.within[o]

\* The output's tree is read from the checkout as it stands, and judging it
\* left to the other pool; without a validator there is only the next output.
Submit(r) ==
  LET o == FirstOutput(task[r].todo)
      rest == task[r].todo \ {o}
  IN  /\ task[r].state = "reading"
      /\ validation' =
           IF settings.validator
             THEN [validation EXCEPT ![o] = [state |-> "queued", tree |-> TreeOf(o)]]
             ELSE validation
      /\ task' = [task EXCEPT ![r] =
                    [state |-> IF rest = {} THEN "diffing" ELSE "generating",
                     todo |-> rest]]
      /\ UNCHANGED <<checkout, shown>>

\* Mutant: the diff is taken against the commit before.
TakeLastDiff(r) ==
  LET all == checkout[r]
  IN  /\ task[r].state = "diffing"
      /\ shown' = [shown EXCEPT ![r] =
                     {o \in all : \A p \in all : Position[p] <= Position[o]}]
      /\ task' = [task EXCEPT ![r].state = "ok"]
      /\ UNCHANGED <<checkout, validation>>

\* What was committed since the clone is the repository's diff.
TakeDiff(r) ==
  /\ task[r].state = "diffing"
  /\ shown' = [shown EXCEPT ![r] = checkout[r]]
  /\ task' = [task EXCEPT ![r].state = "ok"]
  /\ UNCHANGED <<checkout, validation>>

TaskFails(r) ==
  /\ r \in Active
  /\ task' = [task EXCEPT ![r].state = "failed"]
  /\ UNCHANGED <<checkout, shown, validation>>

TaskStep(r) ==
  /\ pc = "pools"
  /\ \/ StartTask(r) \/ Clone(r) \/ Generate(r) \/ Submit(r) \/ TakeDiff(r)
     \/ TaskFails(r)
  /\ UNCHANGED <<choiceVars, pc, selected, comment, failure>>

-----------------------------------------------------------------------------
Validations(states) == {o \in Output : validation[o].state \in states}

\* Mutant: the tree is read by the thread that has it judged.
StartValidationUnread(o) ==
  /\ validation[o].state = "queued"
  /\ Cardinality(Validations({"running"})) < settings.maxConcurrency
  /\ validation' = [validation EXCEPT
                      ![o] = [state |-> "running", tree |-> TreeOf(o)]]

StartValidation(o) ==
  /\ validation[o].state = "queued"
  /\ Cardinality(Validations({"running"})) < settings.maxConcurrency
  /\ validation' = [validation EXCEPT ![o].state = "running"]

\* The ways a validator's event stream may end: with its verdict of the tree,
\* or in one of the ways that leave relcoord without one.
StreamEnds(tree) ==
  {IF tree \intersect flawed = {} THEN "passed" ELSE "failed"}
    \union {"malformed", "errorEvent", "cut", "unreachable"}

VerdictOf(end) == IF end \in {"passed", "failed"} THEN end ELSE "error"

\* A tree without files is not judged at all.
EndValidation(o) ==
  /\ validation[o].state = "running"
  /\ \E verdict \in {VerdictOf(end) : end \in StreamEnds(validation[o].tree)}
                    \union {"nothing", "broken"} :
       validation' = [validation EXCEPT ![o].state = verdict]

ValidationStep(o) ==
  /\ StartValidation(o) \/ EndValidation(o)
  /\ UNCHANGED <<choiceVars, pc, selected, task, checkout, shown, comment,
                 failure>>

-----------------------------------------------------------------------------
\* Mutant: a single worker is waited for even past the task that failed.
TasksAllRun == InState({"queued"}) \union Active = {}

TasksFinished ==
  /\ Active = {}
  /\ InState({"queued"}) = {} \/ (OnCaller /\ InState({"failed"}) # {})

\* Mutant: a failed task ends the diff without the validations.
NotWaited == InState({"failed"}) # {} \/ Validations({"queued", "running"}) = {}

\* Leaving the validation pool waits for what was handed to it, whether or not
\* the repositories went well.
PoolsLeft == Validations({"queued", "running"}) = {}

JoinFails ==
  /\ pc = "pools"
  /\ TasksFinished
  /\ PoolsLeft
  /\ \/ InState({"failed"}) # {} /\ Fail("generation")
     \/ /\ InState({"failed"}) = {}
        /\ Validations({"broken"}) # {}
        /\ Fail("validation")
  /\ UNCHANGED <<choiceVars, selected, task, checkout, shown, validation,
                 comment>>

\* The comment shows the diffs of the repositories that changed and tells which
\* outputs did not pass.
Join ==
  /\ pc = "pools"
  /\ TasksFinished
  /\ PoolsLeft
  /\ InState({"failed"}) = {}
  /\ Validations({"broken"}) = {}
  /\ LET shows == UNION {shown[r] : r \in Repo}
     IN  \E diff \in IF shows = {} THEN {{}} ELSE Diffs :
           comment' = [kind |-> "diff", shows |-> shows, diff |-> diff,
                       passed |-> Validations({"passed"})]
  /\ pc' = "comment"
  /\ UNCHANGED <<choiceVars, selected, task, checkout, shown, validation,
                 failure>>

\* The comment is posted or, without a pull request, only returned.
Comment ==
  /\ pc = "comment"
  /\ \/ pc' = "end" /\ UNCHANGED failure
     \/ Fail("comment")
  /\ UNCHANGED <<choiceVars, selected, task, checkout, shown, validation,
                 comment>>

DiffStep ==
  \/ Plan \/ CheckoutSource \/ RebaseConflicts
  \/ \E declared \in Declarations : Select(declared)
  \/ \E built \in Declarations : SelectSection(built)
  \/ NoDeployConfig \/ FetchPlugins \/ JoinFails \/ Join \/ Comment

Ended == pc = "end" /\ UNCHANGED vars

Next ==
  \/ DiffStep
  \/ \E r \in Repo : TaskStep(r)
  \/ \E o \in Output : ValidationStep(o)
  \/ Ended

Spec == Init /\ [][Next]_vars

\* Threads are scheduled and external calls return, each having a timeout.
FairSpec == Spec /\ WF_vars(Next)

-----------------------------------------------------------------------------
(* Properties *)

\* What is committed in an output's directory when the output has been generated:
\* its own manifests, and those of the outputs before it that are inside it.
CommittedBy(o) ==
  {p \in selected \intersect affected \intersect settings.within[o] :
     Position[p] <= Position[o]}

\* A verdict is that of the directory the output was generated into, with nothing
\* of the outputs generated after it, and one that never came is no pass
\* (_diff_repository: "The tree is read here, before the next output commits").
VerdictIsOfItsTree ==
  \A o \in Output :
    /\ validation[o].state = "passed" => CommittedBy(o) \intersect flawed = {}
    /\ validation[o].state = "failed" => CommittedBy(o) \intersect flawed # {}

\* A diff is commented only when it shows every change the commit makes to the
\* selected outputs, over all repositories, and each of them was judged or
\* could not be, if there is a validator.
CommentIsComplete ==
  comment.kind = "diff" =>
    /\ comment.shows = selected \intersect affected
    /\ settings.validator => selected \subseteq Validations(Verdict)

\* When a diff has ended, well or not, none of its threads is still running: not
\* one to generate into the removed workspace, nor one to report progress.
NothingRunsOn ==
  pc = "end" => Active = {} /\ Validations({"queued", "running"}) = {}

\* What a comment does not show of a diff is noise or named in its summary,
\* which are made of different things, the text of hunks and whole documents
\* (README: the comment "summarizes those repeated metadata-only changes instead
\* of showing them").  It is not so of every line: in a hunk whose label names a
\* key one goes that merely has such a name, and one without a key of its own
\* goes with the key it is taken for or, taken for none, with its whole hunk.
HidesOnlyNoise == HidesNoiseOnly(comment.diff)

\* Every diff is answered, whatever fails and however few threads there are.
Answers == <>(pc = "end")

\* A diff previews only outputs its role permits and its request asks for
\* (README, "Restricting a role to an output": "`/v1/diffcomment` is restricted
\* the same way").  A diff that is streamed violates it.
PreviewsThePermitted == Granted # {} => selected \subseteq Granted

-----------------------------------------------------------------------------
(* Why the properties last, for the proofs *)

Mine(r) == OutputsOf(r) \intersect selected

\* What the task of a repository has been through, and what it has generated.
Taken(r) == Mine(r) \ task[r].todo
Generated(r) ==
  Taken(r) \union
    IF task[r].state = "reading" THEN {FirstOutput(task[r].todo)} ELSE {}

\* Until the pools there is nothing of a diff.
NothingYet ==
  pc \in {"plan", "source", "select", "plugins", "section"} =>
    /\ task = [r \in Repo |-> NoTask]
    /\ checkout = [r \in Repo |-> {}]
    /\ shown = [r \in Repo |-> {}]
    /\ validation = [o \in Output |-> NoValidation]

\* A task takes its outputs in the configured order, and each has been handed
\* to the other pool when the task goes on to the next.
TaskTakesInOrder(r) ==
  /\ task[r].todo \subseteq Mine(r)
  /\ \A o \in Taken(r), p \in task[r].todo : Position[o] <= Position[p]
  /\ settings.validator => \A o \in Taken(r) : validation[o].state # "none"
  /\ task[r].state = "none" => Mine(r) = {}
  /\ task[r].state \in {"queued", "cloning"} => Taken(r) = {}
  /\ task[r].state \in {"generating", "reading"} => task[r].todo # {}
  /\ task[r].state \in {"diffing", "ok"} => task[r].todo = {}

\* A checkout holds what was generated into it, and a diff shows all of it.
CheckoutIsGenerated(r) ==
  task[r].state # "failed" =>
    /\ checkout[r] = Generated(r) \intersect affected
    /\ shown[r] = IF task[r].state = "ok" THEN checkout[r] ELSE {}

PoolsInOrder ==
  pc = "pools" => \A r \in Repo : TaskTakesInOrder(r) /\ CheckoutIsGenerated(r)

\* A validation has the tree its output was generated into, and its verdict.
ValidationOfItsTree ==
  \A o \in Output :
    /\ validation[o].state # "none" => validation[o].tree = CommittedBy(o)
    /\ validation[o].state = "passed" => validation[o].tree \intersect flawed = {}
    /\ validation[o].state = "failed" => validation[o].tree \intersect flawed # {}

QuietAfterwards ==
  pc \in {"comment", "end"} =>
    Active = {} /\ Validations({"queued", "running"}) = {}

CommentedAfterwards ==
  comment.kind = "diff" => pc \in {"comment", "end"}

DiffInvariant ==
  /\ TypeOK
  /\ selected \subseteq Permitted
  /\ NothingYet
  /\ PoolsInOrder
  /\ ValidationOfItsTree
  /\ QuietAfterwards
  /\ CommentedAfterwards
  /\ CommentIsComplete
==============================================================================
