------------------------ MODULE MCPullRequestComment ------------------------
(***************************************************************************)
(* Two diffs of one pull request, which nothing tells apart.               *)
(***************************************************************************)
EXTENDS PullRequestComment, TLC

CONSTANTS d1, d2

Symmetry == Permutations(Thread)
==============================================================================
