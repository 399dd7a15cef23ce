--------------------------- MODULE MCManifestPush ---------------------------
(***************************************************************************)
(* Instances of ManifestPush: two changes that write the same directory of *)
(* a manifests repository, so that a rebase of one onto the other may      *)
(* conflict.                                                               *)
(***************************************************************************)
EXTENDS ManifestPush

CONSTANTS w1, w2, d1

OneDirectory == [w \in {w1, w2} |-> d1]
==============================================================================
