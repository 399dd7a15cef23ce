--------------------------- MODULE MCChangeRequest ---------------------------
(***************************************************************************)
(* ChangeRequest for two kinds of settings: one whose issuers rotate their *)
(* keys and whose roles refuse what is asked, and ones whose issuer has    *)
(* one key and whose requests, commits and system repository vary, among   *)
(* them configurations that are not accepted.                              *)
(***************************************************************************)
EXTENDS ChangeRequest, TLC

CONSTANTS i1, i2, a1, a2, a3, b1, o1, o2, o3, t1, t2, s1, s2, other

Issuers == (a1 :> i1 @@ a2 :> i1 @@ a3 :> i1 @@ b1 :> i2)

\* a3 takes the id of a1, which is also that of the other issuer's key.
Kids == (a1 :> 1 @@ a2 :> 2 @@ a3 :> 1 @@ b1 :> 1)

TargetOf == (o1 :> t1 @@ o2 :> t2 @@ o3 :> t2)

RoleOf(issuer, system, outputs) ==
  [issuer |-> issuer, system |-> system, outputs |-> outputs]

DeploymentOf(rollouts, roles, system) ==
  [outputs |-> <<o1, o2, o3>>, target |-> TargetOf, stages |-> rollouts,
   roles |-> roles, system |-> system, ahead |-> rollouts # <<>>]

Bodies(outputs, systems, sections, with) ==
  [outputs : outputs, system : systems, section : sections, with : with]

Rotating ==
  [deployment    |-> DeploymentOf(<<>>, <<RoleOf(i1, FALSE, <<o1>>),
                                          RoleOf(i2, FALSE, <<o2>>)>>, TRUE),
   first         |-> {a1, b1},
   keys          |-> {a1, a2, a3},
   bodies        |-> Bodies({<<>>}, {TRUE}, {{}}, {{}}),
   commits       |-> {NoCommit},
   systemConfigs |-> {<<>>}]

\* The sections of t1 are any, those of t2 have s2 among them.
Built == (t1 :> {{s1}, {s2}, {s1, s2}} @@ t2 :> {{s2}, {s1, s2}})

Configs ==
  UNION {{f \in [ts -> SUBSET {s1, s2}] : \A t \in ts : f[t] \in Built[t]} :
           ts \in SUBSET {t1, t2}}

Commits ==
  [root : {FALSE}, before : Configs, after : Configs \ {<<>>},
   paths : SUBSET {s1, s2, other}]
  \union [root : {TRUE}, before : {<<>>}, after : Configs, paths : {{}}]

RolesTried ==
  <<RoleOf(i1, FALSE, <<o1, o3>>), RoleOf(i1, TRUE, <<>>)>>

Asking(configured, commits) ==
  [deployment    |-> configured,
   first         |-> {a1, b1},
   keys          |-> {},
   bodies        |-> Bodies({<<>>, <<o1>>, <<o2>>}, BOOLEAN, {{}, {s1}}, {{}})
                     \union Bodies({<<>>}, {TRUE}, {{}}, {{"image"}}),
   commits       |-> commits,
   systemConfigs |-> Configs]

SettingsTried ==
  <<Rotating,
    Asking(DeploymentOf(<<<<o2>>, <<o1, o3>>>>, RolesTried, TRUE), Commits),
    Asking(DeploymentOf(<<>>, RolesTried, FALSE),
           [root : {TRUE}, before : {<<>>}, after : Configs, paths : {{}}]),
    Asking(DeploymentOf(<<<<o2>>, <<o1, o2, o3>>>>, RolesTried, TRUE), Commits),
    Asking(DeploymentOf(<<<<o1>>, <<o3>>>>, RolesTried, TRUE), Commits)>>
==============================================================================
