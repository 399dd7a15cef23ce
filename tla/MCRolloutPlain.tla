--------------------------- MODULE MCRolloutPlain ---------------------------
(***************************************************************************)
(* Instances of RolloutPlain: three repositories of which one is returned  *)
(* to by a second stage.                                                   *)
(***************************************************************************)
EXTENDS RolloutPlain, TLC

CONSTANTS o1, o2, o3, o4, r1, r2, r3

TwoStageOf == (o1 :> 1 @@ o2 :> 1 @@ o3 :> 2 @@ o4 :> 2)
ThreeRepoOf == (o1 :> r1 @@ o2 :> r2 @@ o3 :> r1 @@ o4 :> r3)

\* Configured order, in which r2 comes first in the first stage.
Order == (o2 :> 1 @@ o1 :> 2 @@ o3 :> 3 @@ o4 :> 4)
==============================================================================
