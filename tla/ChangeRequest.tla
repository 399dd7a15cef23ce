---------------------------- MODULE ChangeRequest ----------------------------
(***************************************************************************)
(* A request for a change from its bearer token to the stages it deploys:  *)
(* the handler authenticates it, takes the first of its issuer's roles     *)
(* that the token fits, plans it within that role, and hands the plan to   *)
(* the processor, which selects outputs of what it was handed.             *)
(*                                                                         *)
(* Requests share only the keys, and looking one up is a step of the event *)
(* loop that nothing interrupts, so one is followed at a time; what the    *)
(* issuers publish and how time passes a request can tell only as it looks *)
(* its key up.  Generating and deploying the stages is in RolloutAhead and *)
(* RolloutPlain, reporting it in EventStream.                              *)
(***************************************************************************)
EXTENDS SigningKeys, OutputSelection

CONSTANT
  Settings  \* the configurations the service may be started with, each with
            \* the keys, requests, commits and system repositories it meets

ASSUME SettingsAssumption ==
  \A n \in DOMAIN Settings :
    LET s == Settings[n]
    IN  /\ IsInjective(s.deployment.outputs)
        /\ s.deployment.outputs \in Seq(ToSet(s.deployment.outputs))
        /\ \A b \in s.bodies : b.outputs \in Seq(ToSet(b.outputs))
        /\ Len(s.deployment.roles) \in Nat
        /\ DOMAIN s.deployment.roles = 1..Len(s.deployment.roles)
        /\ s.first \union s.keys \subseteq Key
        /\ \A k, l \in s.first : SameId(k, l) => k = l
        /\ \A i \in DOMAIN s.deployment.roles :
             LET role == s.deployment.roles[i]
             IN  /\ role.outputs \in Seq(ToSet(role.outputs))
                 /\ \E k \in s.first : IssuerOf[k] = role.issuer

VARIABLES
  chosen,     \* the settings the service runs with
  pc,         \* what is done with the request in hand
  token,      \* the key it was signed with and the roles its claims fit
  role,       \* the role it is authenticated as
  body,       \* what it asks for
  handed,     \* the outputs the plan permits it, none for all
  commit,     \* the config commit it is for
  selected,   \* the outputs selected
  stages,     \* the stages they are deployed in
  predicted,  \* the outputs expected to change, in a set: none if not guessed
  answer      \* the status it is answered with

requestVars == <<token, role, body, handed, commit, selected, stages, predicted,
                 answer>>
vars == <<keyVars, chosen, pc, requestVars>>

settings == Settings[chosen]
deployment == settings.deployment
Roles == deployment.roles

NoToken == [key |-> {}, fits |-> {}]
NoBody == [outputs |-> <<>>, system |-> FALSE, section |-> {}, with |-> {}]
NoCommit == [root |-> TRUE, before |-> <<>>, after |-> <<>>, paths |-> {}]

\* The service starts only with a configuration that is accepted.
Init ==
  /\ chosen \in {n \in DOMAIN Settings : ConfigAccepted(Settings[n].deployment)}
  /\ KeysInit(settings.first)
  /\ pc = "idle"
  /\ token = NoToken
  /\ role = {}
  /\ body = NoBody
  /\ handed = <<>>
  /\ commit = NoCommit
  /\ selected = {}
  /\ stages = <<>>
  /\ predicted = {}
  /\ answer = 0

TypeOK ==
  /\ KeysTypeOK
  /\ chosen \in DOMAIN Settings
  /\ pc \in {"idle", "authenticate", "plan", "checkout", "select", "plugins",
             "stages", "deploy", "answered"}
  /\ token.key \subseteq Key /\ token.fits \subseteq DOMAIN Roles
  /\ role \subseteq DOMAIN Roles
  /\ body \in settings.bodies \union {NoBody}
  /\ ToSet(handed) \subseteq ToSet(deployment.outputs)
  /\ commit \in settings.commits \union {NoCommit}
  /\ selected \subseteq ToSet(deployment.outputs)
  /\ \A i \in DOMAIN stages : stages[i] \subseteq ToSet(deployment.outputs)
  /\ predicted \subseteq SUBSET ToSet(deployment.outputs)
  /\ answer \in {0, 202, 400, 401, 403, 422, 500, 502}

-----------------------------------------------------------------------------
Reply(status) == pc' = "answered" /\ answer' = status

\* A token is signed by a key its issuer has published, and its claims and its
\* audience are those that some of the roles require.
Receive(key, fits) ==
  /\ pc = "idle"
  /\ token' = [key |-> {key}, fits |-> fits]
  /\ pc' = "authenticate"
  /\ UNCHANGED <<keyVars, chosen, role, body, handed, commit, selected, stages,
                 predicted, answer>>

RolesOf(key) == {i \in DOMAIN Roles : Roles[i].issuer = IssuerOf[key]}

\* The roles are tried in the order they are configured.
Fitting(key) == token.fits \intersect RolesOf(key)

FirstRole(key) == {i \in Fitting(key) : \A j \in Fitting(key) : i <= j}

\* A token of an issuer that no role names is refused unseen; any other is
\* verified with the key that is found under its id.
Unconfigured(key) ==
  /\ RolesOf(key) = {}
  /\ Reply(401)
  /\ UNCHANGED <<keyVars, role>>

Verify(key) ==
  /\ RolesOf(key) # {}
  /\ \E result \in Lookups(key) :
       /\ Lookup(key, result)
       /\ IF result.found = {key} /\ Fitting(key) # {}
            THEN role' = FirstRole(key) /\ pc' = "plan" /\ UNCHANGED answer
            ELSE Reply(401) /\ UNCHANGED role

Authenticate ==
  /\ pc = "authenticate"
  /\ \E key \in token.key : Unconfigured(key) \/ Verify(key)
  /\ UNCHANGED <<chosen, token, body, handed, commit, selected, stages,
                 predicted>>

-----------------------------------------------------------------------------
(* The plan *)

Role == Roles[CHOOSE i \in role : TRUE]

\* System mode takes a role that allows it, and nothing that picks a config or
\* an image of its own.
Plan(b) ==
  /\ pc = "plan"
  /\ body' = b
  /\ IF b.system /\ ~Role.system
       THEN Reply(403) /\ UNCHANGED handed
     ELSE IF b.system /\ b.with \union b.section # {}
       THEN Reply(400) /\ UNCHANGED handed
     ELSE IF ~RequestAllowed(Role, b.outputs)
       THEN Reply(403) /\ UNCHANGED handed
     ELSE /\ handed' = Granted(Role, b.outputs)
          /\ pc' = "checkout"
          /\ UNCHANGED answer
  /\ UNCHANGED <<keyVars, chosen, token, role, commit, selected, stages,
                 predicted>>

\* What is not JSON, or not of the expected types, is refused before the rest.
Malformed ==
  /\ pc = "plan"
  /\ Reply(400)
  /\ UNCHANGED <<keyVars, chosen, token, role, body, handed, commit, selected,
                 stages, predicted>>

-----------------------------------------------------------------------------
(* The processor *)

permitted == Permitted(deployment, handed)

Checkout(c) ==
  /\ pc = "checkout"
  /\ commit' = c
  /\ pc' = "select"
  /\ UNCHANGED <<keyVars, chosen, token, role, body, handed, selected, stages,
                 predicted, answer>>

\* The checkout fails in transport, or has no config directory.
CheckoutFails ==
  /\ pc = "checkout"
  /\ Reply(502) \/ (~body.system /\ Reply(400))
  /\ UNCHANGED <<keyVars, chosen, token, role, body, handed, commit, selected,
                 stages, predicted>>

\* Two answers to which outputs to deploy to are a config error, no way to
\* answer it is one of the change.
Select ==
  LET declared == DOMAIN commit.after
  IN  /\ pc = "select"
      /\ IF ~SectionAllowed(deployment, body.section, declared)
           THEN Reply(IF deployment.system THEN 400 ELSE 500) /\ UNCHANGED selected
         ELSE IF ~Selectable(deployment, permitted, declared, body.system)
           THEN Reply(500) /\ UNCHANGED selected
         ELSE /\ selected' = Selected(deployment, permitted, declared, body.system)
              /\ pc' = "plugins"
              /\ UNCHANGED answer
      /\ UNCHANGED <<keyVars, chosen, token, role, body, handed, commit, stages,
                     predicted>>

\* Mutant: a section is matched against every output that is configured.
AnyConfigured == deployment.outputs

\* The outputs the targets of a section are matched against.
SectionOutputs == permitted

\* The system repository is cloned for its plugins, and for the targets of a
\* section: they are selected as though the config had declared them.
FetchPlugins(config) ==
  LET built == SectionTargets(config, body.section)
  IN  /\ pc = "plugins"
      /\ IF body.section = {}
           THEN pc' = "stages" /\ UNCHANGED <<selected, answer>>
         ELSE IF built # {} /\ AllMatch(deployment, SectionOutputs, built)
           THEN /\ selected' = Selected(deployment, SectionOutputs, built, FALSE)
                /\ pc' = "stages"
                /\ UNCHANGED answer
         ELSE Reply(500) /\ UNCHANGED selected
      /\ UNCHANGED <<keyVars, chosen, token, role, body, handed, commit, stages,
                     predicted>>

\* The clone fails in transport, or has no plugins or no targets to read.
PluginsFail ==
  /\ pc = "plugins"
  /\ deployment.system /\ ~body.system
  /\ Reply(502) \/ Reply(500)
  /\ UNCHANGED <<keyVars, chosen, token, role, body, handed, commit, selected,
                 stages, predicted>>

\* Only generating while waiting has a use for a prediction, and only a system
\* mode change that declares targets has one made.
Schedule ==
  /\ pc = "stages"
  /\ stages' = Stages(deployment, selected)
  /\ predicted' = IF /\ deployment.ahead
                     /\ body.system
                     /\ DOMAIN commit.after # {}
                    THEN Predicted(deployment, commit, selected)
                    ELSE {}
  /\ pc' = "deploy"
  /\ UNCHANGED <<keyVars, chosen, token, role, body, handed, commit, selected,
                 answer>>

\* Deployed; or stopped by a validation, by git, credentials or a rollout's
\* stage, or by an error without a status of its own.
Deploy ==
  /\ pc = "deploy"
  /\ \E status \in {202, 422, 502, 500} : Reply(status)
  /\ UNCHANGED <<keyVars, chosen, token, role, body, handed, commit, selected,
                 stages, predicted>>

Send ==
  /\ pc = "answered"
  /\ pc' = "idle"
  /\ token' = NoToken
  /\ role' = {}
  /\ body' = NoBody
  /\ handed' = <<>>
  /\ commit' = NoCommit
  /\ selected' = {}
  /\ stages' = <<>>
  /\ predicted' = {}
  /\ answer' = 0
  /\ UNCHANGED <<keyVars, chosen>>

-----------------------------------------------------------------------------
\* Time passes and keys change between two lookups.
Elapse ==
  /\ pc = "idle"
  /\ \/ Tick
     \/ \E k \in settings.keys : Publish(k) \/ Withdraw(k)
  /\ UNCHANGED <<chosen, pc, requestVars>>

Next ==
  \/ Elapse
  \/ \E k \in published \union withdrawn :
       \E fits \in SUBSET DOMAIN Roles : Receive(k, fits)
  \/ Authenticate
  \/ \E b \in settings.bodies : Plan(b)
  \/ Malformed
  \/ \E c \in settings.commits : Checkout(c)
  \/ CheckoutFails \/ Select
  \/ \E config \in settings.systemConfigs : FetchPlugins(config)
  \/ PluginsFail \/ Schedule \/ Deploy \/ Send

Spec == Init /\ [][Next]_vars

-----------------------------------------------------------------------------
(* Properties *)

\* A token is accepted only with a key that its issuer publishes, or withdrew
\* no longer ago than the two caches in a row may keep it, however often it was
\* used since (_SigningKeyCache, whose hits do not renew an entry).
WithdrawnKeyIsRefused ==
  [][pc = "authenticate" /\ pc' = "plan" =>
       \A k \in token.key : k \in published \/ since[k] < Horizon]_vars

\* A token of a key that is published now and whose id is new is refused only
\* if it fits no role or its issuer cannot be reached: a rotation is followed
\* by the first token that shows it, whatever either cache holds.
RotationIsFollowed ==
  [][pc = "authenticate" /\ answer' = 401 =>
       \A k \in token.key :
         \/ Fitting(k) = {}
         \/ k \notin published
         \/ \E l \in withdrawn : SameId(k, l) /\ since[l] < Horizon
         \/ keySet'[IssuerOf[k]] = NoSet]_vars

\* What a change deploys to, over all its stages, a single role of its token's
\* issuer allows that the token fits, and the request asked for if it named any,
\* whether the config, the section or nothing selected the outputs.
DeploysOnlyWhatIsGranted ==
  pc = "deploy" =>
    \E i \in token.fits : \E k \in token.key :
      LET all == UNION Range(stages)
      IN  /\ Roles[i].issuer = IssuerOf[k]
          /\ body.system => Roles[i].system
          /\ Roles[i].outputs # <<>> => all \subseteq ToSet(Roles[i].outputs)
          /\ body.outputs # <<>> => all \subseteq ToSet(body.outputs)

\* A change that is not refused is deployed to an output of every target that
\* its config declares, to each in one stage and no other, and without targets,
\* a section or in system mode to every output it is permitted
\* (README, "Selecting outputs": a mistyped name must not deploy nothing).
NothingIsLeftOut ==
  pc = "deploy" =>
    LET all == UNION Range(stages)
    IN  /\ all = selected
        /\ \A o \in all : Cardinality({i \in DOMAIN stages : o \in stages[i]}) = 1
        /\ DOMAIN commit.after # {} /\ ~body.system =>
             TargetsOf(deployment, all) = DOMAIN commit.after
        /\ body.section = {} /\ (body.system \/ DOMAIN commit.after = {}) =>
             all = ToSet(permitted)

\* The paths a target's manifests may be generated from: all but the sections
\* that only other targets are built from.
Reads(config, t, paths) == paths \ (SectionsOf(config) \ config[t])

\* An output whose target's entry or whose inputs the commit changes is among
\* the predicted, if a guess is made (_predicted_outputs: "erring towards more").
PredictionErrsTowardsMore ==
  \A guess \in predicted : \A o \in selected :
    LET t == deployment.target[o]
    IN  \/ t \in ChangedTargets(commit.before, commit.after)
        \/ t \in DOMAIN commit.after /\ Reads(commit.after, t, commit.paths) # {}
        => o \in guess
==============================================================================
