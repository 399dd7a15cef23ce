--------------------------- MODULE MCRolloutAhead ---------------------------
(***************************************************************************)
(* RolloutAhead on two manifests repositories and three stages, by one     *)
(* pool worker or two: a stage split over both repositories, one with two  *)
(* outputs in the same checkout, so that a part can be interrupted between *)
(* outputs, and one that returns to a repository pushed to before.         *)
(***************************************************************************)
EXTENDS RolloutAhead, TLC

CONSTANTS o1, o2, o3, o4, o5, r1, r2

\* o1 in r1 and o2 in r2, then o3 and o4 in r1, then o5 in r2.
FiveStageOf == (o1 :> 1 @@ o2 :> 1 @@ o3 :> 2 @@ o4 :> 2 @@ o5 :> 3)
FiveRepoOf  == (o1 :> r1 @@ o2 :> r2 @@ o3 :> r1 @@ o4 :> r1 @@ o5 :> r2)

\* Configured order, in which o4 comes before o3.
Order == (o1 :> 1 @@ o2 :> 2 @@ o4 :> 3 @@ o3 :> 4 @@ o5 :> 5)

\* o5 is a stage of its own and so one part whether it was predicted or not.
SplitStages == SUBSET {o1, o2, o3, o4}
==============================================================================
