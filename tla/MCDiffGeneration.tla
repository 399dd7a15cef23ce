-------------------------- MODULE MCDiffGeneration --------------------------
(***************************************************************************)
(* DiffGeneration of three outputs, two of them in one repository and one  *)
(* of these in a directory of the other or beside it, for an unrestricted  *)
(* role and one restricted to an output of each repository; a repository's *)
(* diff is of two manifests, which change a label alike or not, the first  *)
(* with other keys beside it and lines that have none.                     *)
(***************************************************************************)
EXTENDS DiffGeneration, TLC

CONSTANTS o1, o2, o3, r1, r2

ThreeRepoOf == (o1 :> r1 @@ o2 :> r1 @@ o3 :> r2)
Order == (o2 :> 1 @@ o3 :> 2 @@ o1 :> 3)
Targets == {{}, {o1}, {o1, o2, o3}}

Restrictions == {{}, {o1, o3}}
Selections == {{}, {o1}}
Unstreamed ==
  [role : Restrictions, asked : Selections, streamed : {FALSE}, section : {FALSE}]
    \union [role : Restrictions, asked : {{}}, streamed : {FALSE}, section : {TRUE}]
Streamed == {[q EXCEPT !.streamed = TRUE] : q \in Unstreamed}

\* Directories beside each other, one output's at the repository's root, and all.
Beside == [o \in Output |-> {o}]
EarlierAtRoot == [Beside EXCEPT ![o2] = {o1, o2}]
LaterAtRoot == [Beside EXCEPT ![o1] = {o1, o2}]

SettingsTried ==
  {[maxConcurrency |-> n, validator |-> v, within |-> w] :
     <<n, v, w>> \in {<<1, TRUE, LaterAtRoot>>, <<2, TRUE, EarlierAtRoot>>,
                      <<2, FALSE, Beside>>}}

-----------------------------------------------------------------------------
Metadata == <<"metadata">>
Label == <<"metadata", "labels", "app">>
Annotations == <<"metadata", "annotations">>
ManifestId == Append(Annotations, "manifest-id")
Note == Append(Annotations, "note")
Finalizers == Append(Metadata, "finalizers")
Selector == <<"spec", "selector", "app">>
Checksum == <<"spec", "annotations", "checksum">>

Paths == {Label, Annotations, ManifestId, Note, Finalizers, Selector, Checksum}

\* The label's change is one of two; every other key changes in one way.
EditOf(path) == [path |-> path, keyed |-> TRUE, from |-> 1, change |-> "1 to 2"]
Relabelled == EditOf(Label)
LabelledBack == [Relabelled EXCEPT !.change = "2 to 1"]

\* The same with its parents out of sight, and a line of its value with the key
\* in sight or not.
CutOf(path) == [EditOf(path) EXCEPT !.from = Len(path)]
LineOf(path) == [EditOf(path) EXCEPT !.keyed = FALSE]
LooseLineOf(path) == [LineOf(path) EXCEPT !.from = Len(path) + 1]

HunkOf(manifest, counted, labelled, edits) ==
  [manifest |-> manifest, counted |-> counted, labelled |-> labelled,
   edits |-> edits]

WholeHunks ==
  {HunkOf("one", TRUE, FALSE, {Relabelled} \union {EditOf(p) : p \in paths}) :
     paths \in {{Annotations, ManifestId, Note}, {Selector, Checksum}}}
CutHunks ==
  {HunkOf("one", TRUE, TRUE, {CutOf(p) : p \in paths}) :
     paths \in {{Label, Note, ManifestId}, {Selector, Checksum}}}
KeylessHunks ==
  {HunkOf("one", TRUE, FALSE, {LooseLineOf(Selector), EditOf(ManifestId)}),
   HunkOf("one", TRUE, FALSE, {LineOf(Note), EditOf(Selector)}),
   HunkOf("one", TRUE, TRUE, {LooseLineOf(Finalizers), EditOf(ManifestId)}),
   HunkOf("one", TRUE, TRUE,
          {LooseLineOf(Finalizers), EditOf(ManifestId), EditOf(Note)})}

OtherHunks ==
  {HunkOf("other", TRUE, FALSE, {Relabelled, EditOf(Note)}),
   HunkOf("other", TRUE, FALSE, {LabelledBack}),
   HunkOf("other", FALSE, FALSE, {Relabelled})}

DiffsTried == {{h, g} : h \in WholeHunks \union CutHunks \union KeylessHunks,
                        g \in OtherHunks}
==============================================================================
