---------------------------- MODULE ManifestDiff ----------------------------
(***************************************************************************)
(* What the comment of a diff leaves out of a repository's diff            *)
(* (manifest_diff.py): the ids, the checksums, and the labels and          *)
(* annotations that changed alike on several manifests, which the comment  *)
(* summarizes instead.                                                     *)
(*                                                                         *)
(* A diff is a set of hunks, each a record: its manifest, whether that is  *)
(* a YAML file the change leaves there (counted), whether git's label for  *)
(* the hunk names the top-level key it begins below (labelled), and its    *)
(* edits.  An edit is a line that is added, removed or changed: the path   *)
(* of its key or, if it has none (not keyed), as the item of a list, of    *)
(* the last key above it; from which place on the keys of that path are in *)
(* the hunk (from); and from what to what the value of that key changes.   *)
(***************************************************************************)
EXTENDS Naturals, Sequences, FiniteSets

CONSTANTS
  IdKeys,     \* the annotations that carry a manifest's id
  Checksums,  \* the keys that are checksums
  Threshold,  \* METADATA_SUMMARY_THRESHOLD
  Path,       \* the paths of keys in a manifest
  Diffs       \* the diffs considered

EditedLine == [path : Path, keyed : BOOLEAN, from : Nat \ {0}, change : STRING]
Hunk == [manifest : STRING, counted : BOOLEAN, labelled : BOOLEAN,
         edits : SUBSET EditedLine]

\* A key is itself in the hunk, and so is its top-level key where there is no
\* label; a line without a key may have nothing of its path there.
ASSUME ManifestDiffAssumption ==
  /\ Path \subseteq Seq(STRING) \ {<<>>}
  /\ \A diff \in Diffs : \A h \in diff :
       /\ h \in Hunk
       /\ \A e \in h.edits :
            IF e.keyed
              THEN e.from <= Len(e.path) /\ (e.from = 1 \/ h.labelled)
              ELSE e.from <= Len(e.path) + 1

Name(path) == path[Len(path)]

\* q is the path of a key somewhere below p's.
Under(p, q) == Len(p) < Len(q) /\ \A i \in 1..Len(p) : p[i] = q[i]

-----------------------------------------------------------------------------
(* The summary, made of the documents *)

IdPaths == {<<"metadata", "annotations", k>> : k \in IdKeys}

IsMetadata(path) ==
  /\ Len(path) = 3
  /\ path[1] = "metadata"
  /\ path[2] \in {"labels", "annotations"}

ChangesIn(h) == {[path |-> e.path, change |-> e.change] : e \in h.edits}

MetadataChanges(diff) ==
  {c \in UNION {ChangesIn(h) : h \in {g \in diff : g.counted}} :
     IsMetadata(c.path) /\ c.path \notin IdPaths /\ Name(c.path) \notin Checksums}

ChangedOn(diff, c) ==
  {h.manifest : h \in {g \in diff : g.counted /\ c \in ChangesIn(g)}}

\* What the summary tells of, and the diff need not show.
Repeated(diff) ==
  {c \in MetadataChanges(diff) : Cardinality(ChangedOn(diff, c)) >= Threshold}

-----------------------------------------------------------------------------
(* The diff that is shown, made of the text of the hunks *)

SuppressPaths(diff) == IdPaths \union {c.path : c \in Repeated(diff)}

\* The path of a line is read off the keys above it in its hunk, below the one in
\* the hunk's label; those that are out of sight are left out.
Seen(h, e) ==
  IF e.from = 1 THEN e.path
  ELSE (IF h.labelled THEN <<e.path[1]>> ELSE <<>>)
         \o SubSeq(e.path, e.from, Len(e.path))

SeenPaths(h) == {Seen(h, e) : e \in h.edits} \ {<<>>}
Below(h, p) == {q \in SeenPaths(h) : Under(p, q)}

Noise(h, suppress) ==
  {p \in SeenPaths(h) : p \in suppress \/ Name(p) \in Checksums}

\* Mutant: a key goes with any noise below it.
SomeNoiseBelow(h, suppress) ==
  {p \in SeenPaths(h) : Below(h, p) \intersect Noise(h, suppress) # {}}

\* A key goes with what changed below it: each of the lowest of it is noise.
OnlyNoiseBelow(h, suppress) ==
  {p \in SeenPaths(h) :
     /\ Below(h, p) # {}
     /\ \A q \in Below(h, p) : q \in Noise(h, suppress) \/ Below(h, q) # {}}

Suppressed(h, suppress) == Noise(h, suppress) \union OnlyNoiseBelow(h, suppress)

\* In a labelled hunk a line goes whose key is the last of a suppressed path,
\* wherever it is.
LeftOut(h, suppress) ==
  {e \in h.edits :
     \/ Seen(h, e) \in Suppressed(h, suppress)
     \/ h.labelled /\ e.keyed /\ Name(e.path) \in {Name(p) : p \in suppress}}

\* A hunk of nothing but suppressed paths goes whole, with the lines that have
\* no path; any other is shown without these, if it changes anything else.
Hidden(diff, h) ==
  LET suppress == SuppressPaths(diff)
  IN  IF SeenPaths(h) # {} /\ SeenPaths(h) \subseteq Suppressed(h, suppress)
        THEN h.edits ELSE LeftOut(h, suppress)

\* What the comment does not show of a diff is a checksum, an id, a label or
\* annotation its summary tells of, or a key with nothing but such below it, and
\* in a labelled hunk a key of one of these names.  A line without a key goes
\* with the key it is taken for, or with its whole hunk if it is for none.
HidesNoiseOnly(diff) ==
  LET named == SuppressPaths(diff)
  IN  \A h \in diff : \A e \in Hidden(diff, h) :
        LET seen == Seen(h, e)
            below == {f \in h.edits : Under(seen, Seen(h, f))}
        IN  IF seen = <<>> THEN ~e.keyed /\ Hidden(diff, h) = h.edits
            ELSE \/ Name(seen) \in Checksums
                 \/ (IF e.keyed THEN e.path ELSE seen) \in named
                 \/ h.labelled /\ e.keyed /\ Name(e.path) \in {Name(p) : p \in named}
                 \/ below # {} /\ below \subseteq Hidden(diff, h)
==============================================================================
