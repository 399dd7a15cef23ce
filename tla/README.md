# relcoord in TLA+

relcoord is an HTTP service that registers image versions and, mainly, deploys
*changes*: it generates Kubernetes manifests for a commit of a config
repository with manifest-builder, pushes them to manifests repositories, and
watches the clusters take them up, stage by stage where rollouts are
configured.  It also previews changes as pull request comments.  This directory
holds TLA+ modules for the parts of it that are hard to test, the TLC
configurations that check them, and TLAPS proofs.

Line numbers are those of `src/relcoord/` at the commit modelled.
`PROJECT.json` maps every definition that models code to its lines, and lists
the hazards each property is for.

## 1. The system

| component | state | operations | correct when |
|---|---|---|---|
| Change processing (`change.py`, `ChangeProcessor`) | workspace checkouts, generated results, waits, a held failure | generate, push and follow the outputs of each stage, optionally generating ahead | outputs are deployed in stage order; a stage that fails deploys nothing after it; nothing generated is lost or generated twice; every change ends |
| Pushing manifests (`change.py`, `_push_manifests` and below) | checkout branch, remote branch, remote-tracking ref | push, fetch, rebase, retry | commits reach the branch once, nobody's commit is lost, what is reported as pushed is on the branch |
| Image version store (`store.py` and its backends, `retrying_store.py`, `service.py`) | versions and their timestamps per image | register, latest | a version keeps its timestamp, two versions never share one, latest is the newest, across concurrent requests and retries |
| Event streams (`app.py`, `_work_events`) | event queue between worker thread and response | stream progress, end with an outcome | progress in order, one final event after it, work whose client has gone is finished and logged |
| Deployment detection (`kubernetes.py`) | one list or watch per object, cached discovery, a deadline | wait for a change's objects | succeeds only on a rollout of this write, fails early only for it, always ends |
| HTTP handlers and planning (`app.py`) | none | change, diffcomment, register, latest | a request reaches only what its role allows; failures map to statuses |
| Git credentials (`git.py`) | idcat token cache shared by all threads | fetch, invalidate, retry once on 401 | a refused token is replaced |
| Diff comments (`change.py` `DiffCommentProcessor`, `manifest_diff.py`) | one fresh clone per repository, validations | generate on top of the clone, diff against the commit cloned, filter, comment | the diff shows what merging would deploy |
| Pull request comments (`github.py`) | the comments on GitHub | find, edit or post | one comment per pull request and marker |
| Validation (`validator.py`) | event stream of manifest-validator | validate a tree | a missing verdict is never a pass |
| Output selection (`change.py`) | none: pure | permitted, selected, predicted outputs and stages | a change reaches the outputs its role, request and config allow, and no other |
| Authentication (`auth.py`) | signing key cache | validate a bearer token | a token is accepted for a role it satisfies, with a key its issuer publishes |
| EKS credentials (`eks.py`) | one signed token | sign again when aged | requests carry a token that is still valid |
| Configuration, CLI, tracing, version | none that changes after start | load, serve | malformed configuration is refused at start |

**Interaction.** An HTTP handler plans a change (role, request, outputs) and
hands it to a worker thread, which calls `ChangeProcessor.process`.  That thread
starts pool threads for generation and for waits, all of which report progress
through a callback that posts to the event loop's queue.  Pushes meet the other
writers of a manifests repository only at the remote, and a change meets its
deployer only through what a cluster shows.  The token cache is shared by every
thread that talks to GitHub.

**What is hard.** Threads that generate into a checkout another step pushes
from; failures held back while something else is waited for; pushes that are
refused, overtaken, or taken without an answer; registrations that race or
whose answer is lost; a client that disconnects at any await; a status that
still speaks of an earlier write; lists and watches with gaps between them, and
a deadline that passes at any moment.

## 2. Modules

### Requests: `SigningKeys`, `OutputSelection`, `ChangeRequest`

`SigningKeys` is the two caches a bearer token's key is looked up in: the key
set each issuer's client last fetched (PyJWT's, external) and, in front of it,
`_SigningKeyCache`, whose hits do not renew an entry, which evicts the least
recently used and deletes what has expired as a lookup comes upon it.  Issuers
publish and withdraw keys, and may give a new key the id of an old one.

`OutputSelection` holds the pure parts of planning, as operators: which
configurations are accepted at start (`ConfigAccepted`), what a role and a
request let through (`Granted`, `Permitted`), which outputs the targets of the
config or of a section select (`Selected`, `SectionTargets`), their stages
(`Stages`), and which of them a commit is predicted to change (`Predicted`).

`ChangeRequest` is a request from its token to its stages: authenticate, plan,
check out, select, fetch the system repository's plugins and the section's
targets, schedule, answer.  One request is followed at a time, since requests
share nothing but the keys, and a lookup of a key is one step of the event
loop.  It ends where `RolloutAhead` and `RolloutPlain` begin: they take any
stages its selection can produce, and `RolloutAhead` any prediction.

### Rollouts: `RolloutGate`, `StageGeneration`, `RolloutAhead`, `RolloutPlain`

`RolloutGate` is the promise: stages in order, a release only of outputs due in
the current stage, the next stage only after every affected output of this one
was observed.  It knows neither threads nor repositories.

`StageGeneration` is what both stage loops share: one task per manifests
repository, run by the pool of `_run_concurrently` (`Launch`, `TaskStep`,
`TasksFinished`), cloning a repository unless it is noted as cloned, generating
one output after another and committing into the checkout.  manifest-builder is
external: it fails or not, and commits when the config commit affects the
output.  With one worker the tasks run in turn on the calling thread and stop at
the first failure.

`RolloutAhead` is `_deploy_generating_while_waiting`: the main thread takes a
stage in up to two parts (predicted outputs, then the rest), pushes a part, has
a thread wait for it, generates the rest and then the next stage meanwhile, and
holds a failure of generating ahead until the stage waited for is verified.
Threads: `pc` is the main thread, `task[r]` a pool task, `wait[k]` a wait.

`RolloutPlain` is the loop of `_process` without generating ahead.  Whether
rollouts and detection are configured are variables that never change, so one
run covers the gated loop, the single stage with background detection
(`followed` are the outputs a daemon thread was started for, `ended` those whose
thread is over), and no detection at all.

### Pushing: `BranchLog`, `ManifestPush`

`BranchLog` is the promise: a branch is a log that stages are appended to,
whole; only a stage whose appending the writer never learnt of may be appended
again.  `ManifestPush` is `_push_manifests`: clone, commit, push, refused or
taken with or without an answer, fetch, compare with the tracking ref, rebase
the commits above it, and again up to `PushAttempts` times.  A commit stands
for its patch; two changes of one directory may conflict.

### Versions: `VersionRegistry`, `RetryingStore`, `DynamoStore`, `SurrealStore`

`VersionRegistry` is the promise of a backend, and what `InMemoryImageInfoStore`
does in one step.  `RetryingStore` is the decorator that runs a registration
again after a transient failure; the backends extend it with one action per
call: the read, the conditional write, and the reads that find out what a
refused write met.  A call may be applied and its answer lost (`ResponseLost`);
DynamoDB may cancel a transaction for contention whatever its conditions say
(`Contention`).  `DynamoStore` also models `latest`, whose sort keys are text.

### Streams: `EventStream`

`_work_events`: the work's thread posts callbacks to the event loop, the last of
which is the sentinel that closes the queue; the task is resolved separately.
The stream takes from the queue, sends keep-alives, awaits the task and sends
the final event, and may be cancelled where it is suspended.  Waits that outlive
a failed stage keep posting (`EmitLate`).

### Detection: `RolloutProgress`, `WatchedCluster`, `DeploymentWatch`

`RolloutProgress` holds the pure verdicts on an observed object, check by check.
`WatchedCluster` is external: an object written and one removed, pods that are
replaced, become ready and cease to be, a controller that reports late and may
give up, a later change that takes the object over, kinds that come to be served
late or cease to be.  `DeploymentWatch` is `wait_for_success`: resolve the kind
by discovery, list, judge, look at the clock, watch, judge each event, list
again.  A discovery is many requests, of which the one that answers for the kind
is the step (`Discover`); the clock is looked at in another (`LookAtClock`).  Of the events a watch has yet to deliver only the first that settles the
wait is kept (`coming`), since the code passes over the others.

### Diffs: `DiffGeneration`, `ManifestDiff`, `InstallationTokens`, `PullRequestComment`

`DiffGeneration` is one diff of a config commit from its request to its
comment: what the role and the request let through (`Allowed`, `Granted`), what
the handler hands to the processor (`Handed`), the checkout and its rebase, the
outputs selected, and then two pools, of one worker or of several.  A task per
manifests repository clones it, generates its outputs one after another and
takes the diff; if a validator is configured, a validation per output judges the
tree in that output's directory.  A commit is named by the output it is for, so
a checkout and a tree read from it are sets of outputs and a verdict read from
the wrong tree shows; `settings.within` says which outputs' directories lie
inside which.  A request for a section has its outputs selected anew from the
system repository's targets (`SelectSection`).

`ManifestDiff` is what `manifest_diff.py` leaves out of a repository's diff
before `DiffGeneration` comments it: ids, checksums, metadata that changed alike
on several manifests, and the keys left with nothing else below them.  The
summary is made of the documents (`Repeated`), the filter works on the text of
hunks (`Seen`, `LeftOut`), where a line's parents may be out of sight and all
there is of them is git's label, and where a line without a key, as the item of
a list, is taken for the last key above it.  A hunk is a set of edited lines,
each with the path of its key, or of the one above it, and how much of that path
the hunk shows.

`InstallationTokens` is the cache of GitHub installation tokens and what a
thread does with it: look up, fetch outside the lock, store, use, and on a
refusal invalidate and try once more, over the transient retries of each try.
idcat hands out a new token or one it has handed out before (`reused`).  The
tokens' ages, their being refused before they expire, and what GitHub answers
are external.  `PullRequestComment` composes it with
`DiffCommentProcessor._comment`: two diffs of one pull request clone with tokens
of the cache, then list the comments page by page, remember the newest of
relcoord's, and edit it or post another, among other people's comments and
deletions.  A listing GitHub answers malformed counts as shorter than it is, or
as empty (`ListMalformed`); `missed` notes that a diff may have missed a comment,
for that or any other reason.

## 3. Runs

| run | instance | what it shows |
|---|---|---|
| `request` | 2 issuers, 4 keys, 2 of one id, 2 cached; 3 outputs, 2 targets, 2 sections; 3 accepted configurations and 2 refused at start | a withdrawn key is accepted no longer than both caches may keep it, and a rotation is followed by the first token that shows it; a change is deployed only where one role its token fits and its request allow, reaches every target it declares, each output in one stage; a prediction errs towards more |
| `ahead` | 5 outputs, 2 repositories, 3 stages, 1 or 2 workers, with fairness | generating ahead implements the gate; nothing generated is lost or done twice; a failed stage pushes nothing whole; a held failure waits; the workspace is quiet when removed; every change is answered and its waits end |
| `plain` | 4 outputs, 3 repositories, 2 stages, all four configurations | the plain loop implements the gate where rollouts are configured, pushes in order, is done only with everything pushed and each deployment observed or left to a daemon thread, and background detection gates nothing |
| `push` | 2 changes of 2 stages of 2 commits on one directory, 2 attempts, 1 lost answer each | the branch is a log; nothing is replayed that is there; every change answers |
| `dynamo` | 2 versions, 3 timestamps, 3 requests, 2 attempts, contention, lost answers | `DynamoStore` implements the registry; its items agree |
| `dynamo_latest` | whole and fractional timestamps | violated: latest is not the newest |
| `surreal` | 2 versions, 2 timestamps, 3 requests, either index named | `SurrealStore` implements the registry, the creator of a version is never refused it, and every request is answered |
| `stream` | 3 events, 2 late ones | events in order, the outcome told or logged unless the wait for it was cancelled |
| `watch` | 2 replicas, partitions 0, 1 and 3 | a wait succeeds only on this write's rollout, fails early only for it, does not report as late what was in place, misses no write, and ends |
| `diff` | 3 outputs, 2 repositories, 1 or 2 workers, directories inside one another or beside, with a validator or without, a section asked for or not, every set of outputs affected and one or none flawed, diffs of two manifests of up to four edits each, with fairness | each verdict is that of its output's directory; what is commented is whole and hides nothing but noise and lines without a key; no thread outlives the diff; every diff is answered |
| `diff_streamed` | the same | violated: a streamed diff previews outputs its role and its request leave out |
| `comment` | 2 diffs, 2 tokens and either of them again, 3 comments on up to 3 pages, listings cut short, 1 deletion | an operation refused a token that was handed out once never comes back to it; a second comment is posted, or an older one edited, only where a diff may have missed a comment |

**Bounds and why they are enough.**  Requests: a cache of two keys is filled by
two issuers, and evicts with a third key; one of the four keys has the id
of one that may be withdrawn, another is new; a cache TTL of two ticks and a key
set's lifespan of one let each expire while the other holds.  Of three outputs
two share a target, so that a target can be partly permitted; two sections and
another path are the fewest that can be mapped, shared, left unmapped or
removed; two roles of one issuer, one restricted, give tokens that fit either,
both or none.  The setting whose keys rotate refuses every request at its plan,
the others keep their keys.  Stages: three are needed for a stage to be
generated while another is waited for and a third to be held back; with two
repositories one of them is returned to by a later stage, and one stage has two
outputs in one checkout so that a part can be interrupted between them.  Pushes:
two attempts and two stages per change let a change be overtaken, rebase, be
overtaken again and give up, and leave the tracking ref of a first stage to a
second.  Store: with three requests on two versions two can be the same
registration and a third contend with both; two attempts let one be retried
after a lost answer; timestamps of one second with and without a fraction are
where text order and time order part.  Stream: three events fill the queue past
the sentinel's place.  Watch: two replicas let a rollout be partly updated,
partly drained and partly ready; partition 1 covers some replicas but not all
and partition 3 more than there are;
one write and one superseding write give every order of generation, status and
manifest-id.  Diffs: of three outputs two
share a checkout, so that one is generated onto the other while it is validated;
two repositories and one worker or two give the calling thread and the pool; the
two that share a checkout have directories beside each other, or the earlier's
or the later's holds the other's, so that an earlier flaw is in the later tree
or is not; two manifests meet the threshold of the summary or do not, and a hunk
begins at the top, at a label, or below what shows its parents, with lines
without a key under each.
Comments: pages of one comment make every listing take several calls, between
which the other diff posts or a comment is deleted; two tokens let one be
refused and a thread come late with it after the second was fetched, or be handed
the first once more; three comments on three pages let a full last page be the
reason for a miss.
`Retries` in `ManifestPush` and `PullRequestComment` bounds the transient
retries of `git.py`, `Attempts` the store's; `MaxTokens`, `MaxPages`,
`MaxComments` and `Deletions` bound what GitHub and idcat do.

**Fairness.**  Specifications with liveness assume that threads are scheduled,
that external calls return (each has a timeout in the code or in the library),
and that the clock goes on.  They never assume that a call succeeds, that a
cluster moves, that a push is not overtaken, or that a client stays.  `ahead`
and `diff` assume only that some step is taken while one can be (weak fairness
of `Next` as a whole): no loop is there for a scheduler to favour, so nothing
more is needed for an answer.

Deadlock is checked in every run: an ended behaviour stutters by an action
of its own that is enabled only where nothing is left to do, and `request` goes on
to the next request.  `diff_streamed` and `dynamo_latest` check one property
each, which the code violates.

## 4. Disagreements found

- `dynamo_latest`: `datetime.isoformat` leaves a zero fraction out and "Z"
  sorts after ".", so a version registered on the whole second is latest before
  later ones of the same second.
- `diff_streamed`: `_diff_events` does not hand `plan.outputs` to the diff
  processor, as the handler that answers with JSON does (`app.py` 455, 1099), so
  a streamed diff previews every configured output whatever the role and the
  request name.

Met while modelling, without a run of their own:

- After a push is taken and its answer lost, and the branch moves on, the
  commits above the remote-tracking ref are already on the branch and are
  replayed, unlike what `_pushed_commit`'s docstring says (`change.py`
  3329-3331).  `BranchLog` and `ReplaysOnlyUnpushed` except the writers this
  happens to.
- A registration cancelled for contention with its own duplicate may be told it
  conflicts with the version it asked for, on DynamoDB; the theorem
  `WithoutContentionConflictsName` (section 5) shows that nothing else makes it
  there.
- On SurrealDB a duplicate that arrives between another's read and its `CREATE`
  breaks both unique indexes, and where the error names the timestamp's it is
  told that the version it asked for conflicts with itself
  (`surreal_store.py` 168-175), against `docs/version-service-design.md` 93,
  183 and 196, by which a duplicate succeeds with `created: false`.
  `VersionRegistry` permits that answer; `CreatorsAreNotRefused` says what is
  left of the promise, that whoever stored the version is never given it.
- Where several permitted outputs share a target, `_selected_outputs` keeps the
  last of them (`by_target`, `change.py` 2322) and a config that
  declares the target is deployed to that one only.  `NothingIsLeftOut` says
  that each target is reached, not each output of it.
- In a hunk that git labels, a line whose key has the name of a suppressed one
  is left out wherever it is (`manifest_diff.py` 488): with the label `app`
  changed alike on two manifests, a change of `spec.selector.matchLabels.app`
  is not shown.  And since suppression is by path, a manifest that changes a
  summarized key otherwise than the summary says shows nothing of it.
  `HidesOnlyNoise` excepts both.
- A line without a key is taken for the last key above it
  (`manifest_diff.py` 516-519), and that key is left out where all that changes
  below it is noise (415-422).  With only git's label `metadata` above it, a
  changed finalizer goes with a changed manifest-id: neither noise nor in the
  summary, though the docstring of `suppressed_yaml_paths` speaks only of a
  line "a manifest only gained to carry a manifest-id".  A line taken for no key
  goes with its hunk where the rest of that is noise (452, 426-432).
  `HidesOnlyNoise` excepts such lines, and no others without a key.
- A withheld target is answered with 500, a withheld output named in the request
  with 403.
- A prediction counts a path below no section of the head's config for every
  output, and one below a section for those built from it; what a section's
  directory was before the commit that makes it one it does not know.  Only the
  order of generation depends on it, never what is deployed.
- A key set is fetched on the event loop, which serves nothing else meanwhile.
- SurrealDB's token, once its renewal has given up (six attempts), fails every
  request until a restart, without retries since the failure is not transient.
- A client that goes away between the sentinel and the task's being resolved
  cancels the wait, and the outcome is neither told nor logged, unlike what the
  repository's README says of disconnecting.  `OutcomeKnownUnlessCancelled`
  excepts it.
- A removal between a list and its watch has no event and is seen only when the
  watch has expired, by default the whole timeout later (`kubernetes.py`
  405-407 says nothing can be missed there).
- A removal whose kind ceases to be served with it fails the wait for it.
- The retried creation of a version that was applied is answered as existing.
- `_clone_repository`'s `except Exception` (`change.py` 3055-3064) takes a
  `CredentialError` too, and what is then reported is a failure of transport
  instead of one of credentials.
- Two diffs that race post two comments, and both stay; later diffs edit the
  newer one.
- A comment listing that GitHub answers with 200 but not as a list counts as an
  empty page and ends the search, and entries that are no objects make a page
  look like the last (`github.py` 156-163, 172-180): a diff then posts a second
  comment, or edits an older one, though nothing raced.  `SecondOnlyIfMissed`
  and `NewestIsEdited` count that as a comment missed.
- A token refused while a comment is listed or written is not replaced; only
  git's operations are tried again with a fresh token.
- A token fetched before another thread invalidated the entry is stored after
  it; it is then refused and replaced in its turn (`RefusedIsReplaced`).
- idcat may hand out a token again (`git.py` 26-33), also the one just refused,
  in the one fetch that a refusal leads to (179-185): the operation then fails
  with a token that a second fetch might have replaced.  `RefusedIsReplaced`
  excepts tokens handed out more than once.
- A later change that takes the object over before the wait has seen this one's
  manifest-id leaves the wait to time out, though nothing failed
  (`kubernetes.py` 743).

## 5. Proofs

`RolloutGateProofs`: `GateInvariant` is inductive for any outputs and any number
of stages (`GateHolds`), under `GateAssumption`, which the configuration's
checks guarantee.  `StageOrder` alone is not inductive: nothing in it says that
what lies behind the current stage was observed or that nothing ahead of it is
released, which is what `StagesBehindObserved` and `NothingAheadReleased` add.
`StagesAreOrdered`, `DoneIsDeployed` and `EndedChangesNothing` follow.

`RolloutPlainProofs`: `PlainInvariant` is inductive for any outputs,
repositories, stages and workers (`PlainHolds`), under `GenerationAssumption`:
finitely many outputs, each in one repository and one stage, in a configured
order.  The properties alone say nothing of the states between: that tasks
commit only outputs of the stage (`TasksOfStage`, `NothingAheadCommitted`), that
nothing of a stage is pushed while any of it is still to be generated
(`StageGeneratedFirst`), that what is not still to be pushed has been
(`PushedAsReached`), and that daemon threads start after that
(`FollowedAfterPush`).  That the first of a set of outputs is one of them
(`FirstOutputIsFirst`) rests on the proper parts of a finite set being well
founded.  `FailedGenerationAlwaysPushesNothing` and `BackgroundNeverGates`
follow.  With `FollowInvariant`, that what the loop has gone past is observed or
left to a daemon thread (`FollowHolds`), so does `DoneAlwaysMeansFollowed`.  `ReleaseInvariant` adds where a rollout stands
(`ReleaseHolds`): what is behind is observed, and what this stage deploys is
observed or still to be.  `PushesAreOrdered` is part of it; its step is that the
repository pushed next is the first of those still to be pushed, so that one
ahead of it is not among them and has been.  With it every step of a rollout is
a step of `RolloutGate` or a stutter (`PlainImplementsGate`), and the gate's own
theorem then says of the plain loop that it deploys in stage order
(`RolloutsDeployInOrder`).

`RolloutAheadProofs`: `AheadInvariant` is inductive under the same assumption
(`AheadHolds`).  Its parts are one per hand a result passes through: tasks
generate what the part they were launched for lacks (`TasksOfPart`); what a
checkout has is held as generated or done by a task, unless a failure dropped it
(`CommitsKept`); a part is decided about whole before the next is entered
(`PartsConsidered`); what was decided about and changed is observed, in a wait
or to be in the next (`ConsideredFollowed`); and nothing of a stage is released
before its first part is (`ReleasedInOrder`).  `NothingGeneratedIsEverLost`,
`NothingIsGeneratedTwice`, `WholeStageAlwaysPushesNothing`,
`HeldFailureAlwaysWaits` and `WorkspaceIsQuiet` follow.  `AheadImplementsGate`
needs all of the parts at two steps: at a push, for what is released to be due,
and at the end of a stage, for all of it to have been observed.  So generating
ahead never reorders (`GeneratingAheadNeverReorders`).

`RequestProofs`, of the handler: `KeysInvariant` and `RequestInvariant` are inductive for
any keys, lifetimes, cache size, configurations, requests and commits
(`RequestsHold`), under `KeysAssumption` and `SettingsAssumption`.  What is
refused says nothing of what the caches hold: the first bounds how long ago a
key of a set (`RecentSet`) and of an entry (`RecentEntry`) was withdrawn by its
age, and by its age and the set's lifespan; that ids differ (`IdsDiffer`) is
what makes a fetch find the key a token was signed with.  The second carries the
role's limit through the plan, the selection and the stages, one part per hand
it passes through.  `WithdrawnKeyIsAlwaysRefused`, `RotationIsAlwaysFollowed`,
`AlwaysDeploysOnlyWhatIsGranted` and `PredictionAlwaysErrsTowardsMore` follow.
`WholeInvariant` is the other direction, that nothing asked for gets lost on the
way (`NothingIsEverLeftOut`): what is handed over is a list of configured
outputs, the output a target selects is one of the list, the last that has the
target (`TargetSelectsOne`, from `LargestIsOne`: finitely many numbers have a
largest), and an accepted configuration stages each output once
(`StagesAreWhole`).

`RequestProofs`, of the stream: `OrderInvariant` is inductive for any number of
events (`OrderHolds`).  What the client has, the event being sent, the queue and
the callbacks are, in this order, what was posted (`NothingOvertakes`), the
sentinel among them at the place it was posted at (`Posted`): so that the stream
comes to it only after all that was reported ahead of it, and later events stay
behind it.  `EventsAreInOrder` is part of it.

`DeliveryProofs`, of the push: `PushInvariant` is inductive for any changes,
stages, commits per stage, attempts and retries (`PushHolds`).  A checkout is
what is tracked and the stage in hand on top of it (`CheckoutIsOnTop`), what is
tracked is still on the branch (`TrackingStays`), and what was answered is
reported (`AnsweredIsReported`), so that the stage in hand, numbered after what
is reported, is not on the branch yet and a rebase replays nothing twice
(`NothingIsReplayed`).  That a push appends the stage in hand and nothing else
also needs everything to come in whole stages (`StagesWhole`): a branch the
checkout is ahead of is then the one tracked, and not that with a part of the
stage (`BranchIsTracked`).  Every step is a step of
`BranchLog` or a stutter (`PushImplementsLog`), answers lost or not, and the
branch never shrinks (`BranchAlwaysGrows`).

Why every change answers has a part that needs no fairness, and it is proved.
`ToDo` is what a change has left, the weightiest first: the clone and the answer,
commits, the push in hand, attempts, this attempt's refusal, retries, the fetch.
Every step of a change makes it lexicographically less and no other change makes
it more (`StepsAlwaysRunOut`), and it is counted in numbers (`ToDoIsCounted`).
That a change which is let go on does answer stays with TLC
(`EveryChangeAnswers`).

`DeliveryProofs`, of the wait: `WatchInvariant` is inductive for any number of
replicas and any partitions (`WatchHolds`).  The four properties speak of how a
wait ended; the invariant says what each verdict in hand means (`VerdictMeans`)
and that no step of the cluster undoes it (`LandedKept`, `AbandonedKept`).  A
verdict means it because an object that says its rollout is complete, at its own
generation, has had such pods (`AsAskedIsRolledOut`), and one that says its
deadline was exceeded was given up on at a generation it has observed
(`ExceededGaveUp`): a write either makes a generation no status speaks of yet or
leaves all but the manifest-id as it was (`WriteWrites`).  `OnTimeIsFound` adds
that what was in place at the deadline is what the discovery or the list after
it sees, one already answered by then excepted.
`SuccessIsAlwaysRollout`, `GivenUpIsAlwaysOfThisWrite`, `InPlaceIsNeverLate` and
`WatchesMissNoWrite` follow, and rest on `WatchedCluster`'s account of the
cluster, which is external.

`VersionRegistryProofs`: `RegistryInvariant` is inductive (`RegistryHolds`);
creators being stored and differing is what makes "created" an answer given at
most once.

`StoreProofs`: both backends, which share the lemmas about the retries around
them.  `StoreInvariant` is inductive for any requests, versions, timestamps and
attempts, lost answers and contention included (`StoreHolds`), so that a
version's two items always agree (`ItemsAlwaysAgree`), and every step of
`DynamoStore` is a step of `VersionRegistry` or a stutter
(`StoreImplementsRegistry`).  The theorems of the registry then hold of the
store through the refinement (`AnswersAlwaysTrue`), and without contention a
conflict always names another version (`WithoutContentionConflictsName`).
`SurrealInvariant` is `SurrealStore`'s (`SurrealHolds`): records differ, each has
a request that created it, and a creator that was not answered reads again from
the start, where it finds its own record (`CreatorsReadAgain`).  The last is why
a creator whose answer was lost is never refused its own version, whichever
index is named (`CreatorsAreNeverRefused`), and with it `SurrealStore` implements the
registry too (`SurrealImplementsTheRegistry`, `SurrealAnswersTrue`).

`DiffProofs`, of the diff: whatever the diff, the keys and the threshold, what is
left out of it is noise, or one of the lines that `HidesNoiseOnly` excepts
(`FilterHidesNoiseOnly`).  Its one case that is not a
definition's is a key that goes with what changed below it: all of that goes
too, either as noise or as a key with only noise below (`BelowGoesToo`).  Hence
so it is of every comment of every diff of any outputs, repositories and workers
(`CommentHidesOnlyNoise`).  `DiffInvariant` is inductive (`DiffHolds`): a task
takes its outputs in the configured order, and what is in its checkout is what
it has generated of the affected ones (`CheckoutIsGenerated`), so that the tree
a validation is handed is its output's directory as it was when the output had
been committed (`ValidationOfItsTree`).  `VerdictsAreOfTheirTrees`, `CommentsAreComplete` and
`NoThreadOutlivesItsDiff` follow.

`DiffProofs`, of the comment: `TokenInvariant` is inductive for any number of
threads, tokens and refusals (`TokensHold`), under `TokenAssumption`, and
`RefusedIsAlwaysReplaced` follows.  `RefusedIsReplaced` alone is not inductive:
a thread may store a token that another has been refused, unless a token about
to be stored that was handed out once is known to its thread alone
(`StoringIsAlone`).
`CommentInvariant` (`CommentsHold`) says of a pull request where no comment can
have been missed that ids ascend and that each diff has found the newest marked comment of the
pages it has looked through; `SecondsFollowAMiss` and `NewestIsAlwaysEdited` are
action properties that follow.  `CommentAssumption` asks for room for a second
comment and that nobody else is called as one of the threads.

Every invariant and action property of a passing run is a theorem, and so are
the refinements.  Only model-checked: all liveness (`Answers`,
`EveryChangeAnswers`, `EveryRequestAnswered`, `OutcomeKnownUnlessCancelled`,
`EveryWaitEnds`), which is out of the prover's reach, and the two properties the
code violates.

A proof module covers the components that share a subject, so those it extends
have names of their own; in one that stands alone they are `Init`, `Next` and
`Spec`.

## 6. Not modelled

See "components" in `PROJECT.json`.  Planned parts are below; command line,
tracing and the EKS token have little control worth checking, and of the
configuration only the checks that the selection of outputs rests on are
modelled (`ConfigAccepted`).
Left out of the modelled parts: contents of manifests, events and errors,
durations other than the order in which deadlines pass, and the resolution of
names and URLs.

## 7. Plan

In this order:

1. The config checkout and its rebase, and which commit's manifests win when two
   changes of one config repository run at once.
2. The renewal of SurrealDB's token, and the lengths a comment is cut to.

A property joins a run of the module it is about; a run is added only for an
instance or an assumption that no run has.
