--------------------------- MODULE OutputSelection ---------------------------
(***************************************************************************)
(* Which outputs a change is generated into, in which stages, and which of *)
(* them first: the checks of the configuration at start (config.py), what  *)
(* a role and a request permit (app.py), what the config commit or its     *)
(* section selects, the stages and the prediction (change.py).             *)
(*                                                                         *)
(* A deployment is a record of what the service is configured with: its    *)
(* outputs in order, the target of each, the stages of its rollouts one    *)
(* after the other, its roles and whether it has a system repository.  A   *)
(* config is a function from the targets it declares to the sections each  *)
(* is built from, its domain empty when it declares config blocks instead. *)
(* A name configured twice (of outputs, of roles) and malformed TOML are   *)
(* left out.                                                               *)
(***************************************************************************)
EXTENDS Naturals, Sequences, SequencesExt, FiniteSets

-----------------------------------------------------------------------------
(* The configuration *)

\* Rollouts name configured outputs only, each of them, and none twice.
RolloutsAccepted(d) ==
  d.stages # <<>> =>
    /\ UNION {ToSet(d.stages[i]) : i \in DOMAIN d.stages} = ToSet(d.outputs)
    /\ \A i, j \in DOMAIN d.stages :
         IF i = j THEN IsInjective(d.stages[i])
         ELSE ToSet(d.stages[i]) \intersect ToSet(d.stages[j]) = {}

RolesAccepted(d) ==
  \A i \in DOMAIN d.roles : ToSet(d.roles[i].outputs) \subseteq ToSet(d.outputs)

ConfigAccepted(d) == RolloutsAccepted(d) /\ RolesAccepted(d)

-----------------------------------------------------------------------------
(* What is permitted *)

\* A role's outputs are the ceiling and the default.  One that names none
\* leaves nothing for a request to select from.
RequestAllowed(role, outputs) == ToSet(outputs) \subseteq ToSet(role.outputs)

Granted(role, outputs) == IF outputs = <<>> THEN role.outputs ELSE outputs

\* Granted none, every configured output is permitted.
Permitted(d, granted) == IF granted = <<>> THEN d.outputs ELSE granted

-----------------------------------------------------------------------------
(* What is selected *)

TargetsOf(d, outputs) == {d.target[o] : o \in outputs}

\* The places at which an output of a target is named, and not again.
PlacesOf(d, outputs, t) ==
  {n \in DOMAIN outputs : /\ d.target[outputs[n]] = t
                          /\ \A m \in 1..(n - 1) : outputs[m] # outputs[n]}

\* Of two outputs of one target the later is the one a declaration selects.
ByTarget(d, outputs, t) == outputs[Max(PlacesOf(d, outputs, t))]

\* Mutant: a target that matches no output is passed over.
AnyMatches(d, permitted, declared) ==
  declared \intersect TargetsOf(d, ToSet(permitted)) # {}

\* Every declared target is that of a permitted output, withheld or unknown.
AllMatch(d, permitted, declared) == declared \subseteq TargetsOf(d, ToSet(permitted))

Selectable(d, permitted, declared, system) ==
  declared = {} \/ system \/ AllMatch(d, permitted, declared)

Selected(d, permitted, declared, system) ==
  IF declared = {} \/ system
    THEN ToSet(permitted)
    ELSE {o \in ToSet(permitted) : /\ d.target[o] \in declared
                                   /\ o = ByTarget(d, permitted, d.target[o])}

\* A section is only for a config that declares no targets, and takes a system
\* repository to say which targets are built from it.
SectionAllowed(d, section, declared) ==
  section = {} \/ (d.system /\ declared = {})

SectionTargets(config, section) ==
  {t \in DOMAIN config : section \subseteq config[t]}

-----------------------------------------------------------------------------
(* Stages *)

\* A stage carries the selected ones of its outputs, which may be none.
Stages(d, selected) ==
  IF d.stages = <<>> THEN <<selected>>
  ELSE [i \in DOMAIN d.stages |-> ToSet(d.stages[i]) \intersect selected]

-----------------------------------------------------------------------------
(* Prediction *)

\* A commit is the config of its first parent and its own, and the paths at the
\* top of the config directory under which it changes something.

SectionsOf(config) == UNION {config[t] : t \in DOMAIN config}

\* The targets whose entry the commit adds, removes or changes.
ChangedTargets(before, after) ==
  {t \in DOMAIN before \union DOMAIN after :
     ~ (t \in DOMAIN before /\ t \in DOMAIN after /\ before[t] = after[t])}

\* Mutant: a path that is in no section is taken to reach nothing.
NothingUnmapped(commit) == DOMAIN commit.before = {}

\* A path in no section may be read by every target, and so may anything when
\* the parent's config declared no targets.
ReachesEvery(commit) ==
  \/ DOMAIN commit.before = {}
  \/ ~ (commit.paths \subseteq SectionsOf(commit.after))

Affected(commit) ==
  ChangedTargets(commit.before, commit.after) \union
  {t \in DOMAIN commit.after : commit.paths \intersect commit.after[t] # {}}

\* None of a root commit; of any other the outputs expected to change.
Predicted(d, commit, outputs) ==
  IF commit.root THEN {}
  ELSE IF ReachesEvery(commit) THEN {outputs}
  ELSE {{o \in outputs : d.target[o] \in Affected(commit)}}
==============================================================================
