------------------------------ MODULE BranchLog ------------------------------
(***************************************************************************)
(* What pushing to a shared manifests branch promises: the branch is a log *)
(* that each change appends its stages to, one after the other and each    *)
(* whole, and what a change reports as pushed is in the log.  Only a stage *)
(* whose appending the change never learnt of may be appended again.       *)
(* ManifestPush implements it by pushing, and by rebasing onto a branch    *)
(* that moved.                                                             *)
(***************************************************************************)
EXTENDS Naturals, Sequences

CONSTANTS
  Writer,    \* the changes pushing to the branch
  PerStage   \* how many commits a change makes in a stage

VARIABLES
  log,        \* the branch: its commits, oldest first
  reported,   \* per writer, how many of its commits it has reported as pushed
  unanswered  \* the writers that were ever not told their stage was taken

logVars == <<log, reported, unanswered>>

\* The stage after what the writer has reported.
StageAfter(w) == [i \in 1..PerStage |-> [writer |-> w, n |-> reported[w] + i]]

Init ==
  /\ log = <<>>
  /\ reported = [w \in Writer |-> 0]
  /\ unanswered = {}

AppendStage(w) ==
  /\ log' = log \o StageAfter(w)
  /\ reported' = [reported EXCEPT ![w] = @ + PerStage]
  /\ UNCHANGED unanswered

AppendUnanswered(w) ==
  /\ log' = log \o StageAfter(w)
  /\ unanswered' = unanswered \union {w}
  /\ UNCHANGED reported

\* What was appended unanswered is found to be in the log after all.
Report(w) ==
  /\ w \in unanswered
  /\ \A i \in 1..PerStage : \E k \in DOMAIN log : log[k] = StageAfter(w)[i]
  /\ reported' = [reported EXCEPT ![w] = @ + PerStage]
  /\ UNCHANGED <<log, unanswered>>

Next ==
  \E w \in Writer : AppendStage(w) \/ AppendUnanswered(w) \/ Report(w)

LogSpec == Init /\ [][Next]_logVars
==============================================================================
