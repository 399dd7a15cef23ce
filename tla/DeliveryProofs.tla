--------------------------- MODULE DeliveryProofs ----------------------------
(***************************************************************************)
(* How a change gets to its clusters, for any number of changes, stages,   *)
(* commits, retries and replicas.  The manifests branch its stages are     *)
(* pushed to is a log of whole stages, a rebase replays only what is not   *)
(* on it, and it never shrinks.  And the wait for what was pushed goes by  *)
(* verdicts on this very write: it succeeds only on a rollout of it, fails *)
(* early only for it, and does not miss what is in place in time.          *)
(***************************************************************************)
EXTENDS ManifestPush, DeploymentWatch, SequenceTheorems, TLAPS

(***************************************************************************)
(* ManifestPush                                                            *)
(***************************************************************************)

USE PushAssumption

-----------------------------------------------------------------------------
(* Numbers of whole stages, and sequences on top of each other *)

\* Between two numbers of commits in whole stages lies a stage at least.
LEMMA WholeApart ==
  ASSUME NEW m, NEW n, Whole(m), Whole(n), m < n
  PROVE  m + PerStage <= n
<1>1. PICK j \in Nat : m = j * PerStage
  BY DEF Whole
<1>2. PICK k \in Nat : n = k * PerStage
  BY DEF Whole
<1>3. PerStage \in Nat
  OBVIOUS
<1>4. ASSUME k <= j PROVE FALSE
  <2>1. PICK d \in Nat : j = k + d
    BY <1>4
  <2>2. j * PerStage = k * PerStage + d * PerStage /\ d * PerStage \in Nat
    BY <1>3, <2>1
  <2> QED
    BY <1>1, <1>2, <1>3, <2>2
<1>5. PICK d \in Nat : k = j + 1 + d
  BY <1>4
<1>6. k * PerStage = j * PerStage + PerStage + d * PerStage /\ d * PerStage \in Nat
  BY <1>3, <1>5
<1> QED
  BY <1>1, <1>2, <1>3, <1>6

LEMMA WholeIsNat == ASSUME NEW n, Whole(n) PROVE n \in Nat
  BY DEF Whole

LEMMA WholeNext == ASSUME NEW n, Whole(n) PROVE Whole(n + PerStage)
<1>1. PICK k \in Nat : n = k * PerStage
  BY DEF Whole
<1>2. n + PerStage = (k + 1) * PerStage
  BY <1>1
<1> QED
  BY <1>2 DEF Whole

LEMMA WholeChange == Whole(0) /\ Whole(Stages * PerStage)
  BY DEF Whole

\* A sequence that follows another of its length is that one.
LEMMA FollowsItself ==
  ASSUME NEW S, NEW s \in Seq(S), NEW t \in Seq(S), Follows(s, t), Len(s) = Len(t)
  PROVE  s = t
  BY DEF Follows

LEMMA OnTop ==
  ASSUME NEW S, NEW t \in Seq(S), NEW h \in Seq(S), h # << >>
  PROVE  /\ t \o h \in Seq(S)
         /\ Len(t \o h) = Len(t) + Len(h)
         /\ Follows(t \o h, t)
         /\ \A i \in 1..Len(h) : (t \o h)[Len(t) + i] = h[i]
         /\ \A i \in 1..(Len(t) + Len(h)) :
              \/ i \in 1..Len(t) /\ (t \o h)[i] = t[i]
              \/ \E j \in 1..Len(h) : i = Len(t) + j /\ (t \o h)[i] = h[j]
         /\ SubSeq(t \o h, Len(t) + 1, Len(t \o h)) = h
<1>1. /\ t \o h \in Seq(S)
      /\ Len(t \o h) = Len(t) + Len(h)
      /\ \A i \in 1..(Len(t) + Len(h)) :
           (t \o h)[i] = IF i <= Len(t) THEN t[i] ELSE h[i - Len(t)]
  BY ConcatProperties
<1>2. Len(t) \in Nat /\ Len(h) \in Nat \ {0}
  BY EmptySeq
<1>3. Follows(t \o h, t)
  BY <1>1, <1>2 DEF Follows
<1>4. \A i \in 1..Len(h) : (t \o h)[Len(t) + i] = h[i]
  BY <1>1, <1>2
<1>5. ASSUME NEW i \in 1..(Len(t) + Len(h))
      PROVE  \/ i \in 1..Len(t) /\ (t \o h)[i] = t[i]
             \/ \E j \in 1..Len(h) : i = Len(t) + j /\ (t \o h)[i] = h[j]
  <2>1. CASE i <= Len(t)
    BY <1>1, <1>2, <2>1
  <2>2. CASE i > Len(t)
    <3>1. i - Len(t) \in 1..Len(h) /\ i = Len(t) + (i - Len(t))
      BY <1>2, <2>2
    <3> QED
      BY <1>1, <1>2, <2>2, <3>1
  <2> QED
    BY <1>2, <2>1, <2>2
<1>6. SubSeq(t \o h, Len(t) + 1, Len(t) + Len(h)) = SubSeq(h, 1, Len(h))
  <2>1. /\ Len(t) + 1 \in Len(t) + 1 .. Len(t) + Len(h)
        /\ Len(t) + Len(h) \in Len(t) + 1 .. Len(t) + Len(h)
        /\ Len(t) + 1 - Len(t) = 1 /\ Len(t) + Len(h) - Len(t) = Len(h)
    BY <1>2
  <2> QED
    BY <2>1, SubSeqOfConcat2
<1> QED
  BY <1>1, <1>3, <1>4, <1>5, <1>6, SubSeqFull

-----------------------------------------------------------------------------
(* The stage in hand *)

LEMMA StageIsCommits ==
  ASSUME PushTypeOK, NEW w \in Writer, NEW from \in Nat,
         from + PerStage <= Stages * PerStage
  PROVE  LET stage == [i \in 1..PerStage |-> [writer |-> w, n |-> from + i]]
         IN  /\ stage \in Seq(Commit) /\ stage # << >>
             /\ Len(stage) = PerStage
             /\ \A i \in 1..PerStage : stage[i] = [writer |-> w, n |-> from + i]
<1> DEFINE stage == [i \in 1..PerStage |-> [writer |-> w, n |-> from + i]]
<1>1. PerStage \in Nat \ {0} /\ Stages * PerStage \in Nat
  OBVIOUS
<1>2. ASSUME NEW i \in 1..PerStage
      PROVE  [writer |-> w, n |-> from + i] \in Commit
  <2>1. from + i \in 1..(Stages * PerStage)
    BY <1>1
  <2> QED
    BY <2>1 DEF Commit
<1>3. stage \in [1..PerStage -> Commit]
  BY <1>2
<1>6. \A i \in 1..PerStage : stage[i] = [writer |-> w, n |-> from + i]
  OBVIOUS
<1> HIDE DEF stage
<1>4. stage \in Seq(Commit) /\ Len(stage) = PerStage
  BY <1>1, <1>3
<1>5. stage # << >>
  BY <1>1, <1>4, EmptySeq
<1> QED
  BY <1>4, <1>5, <1>6 DEF stage

\* What a writer has in hand is commits of its own past what it has reported, a
\* stage of them, on top of what it tracks.
LEMMA InHandIsStage ==
  ASSUME PushInvariant, NEW w \in Writer, at[w] \in Pushing
  PROVE  /\ InHand(w) \in Seq(Commit) /\ InHand(w) # << >>
         /\ Len(InHand(w)) = PerStage
         /\ \A i \in 1..PerStage :
              InHand(w)[i] = [writer |-> w, n |-> reported[w] + i]
<1>1. reported[w] \in Nat /\ reported[w] + PerStage <= Stages * PerStage
  BY DEF PushInvariant, CheckoutIsOnTop, PushTypeOK, Counter
<1> QED
  BY <1>1, StageIsCommits DEF InHand, PushInvariant

LEMMA CheckoutOnTop ==
  ASSUME PushInvariant, NEW w \in Writer, at[w] \in Pushing
  PROVE  /\ checkout[w] = tracking[w] \o InHand(w)
         /\ made[w] = reported[w] + PerStage
         /\ Len(checkout[w]) = Len(tracking[w]) + PerStage
         /\ Follows(checkout[w], tracking[w])
         /\ \A i \in 1..PerStage :
              checkout[w][Len(tracking[w]) + i] = [writer |-> w, n |-> reported[w] + i]
         /\ \A i \in 1..Len(checkout[w]) :
              \/ i \in 1..Len(tracking[w]) /\ checkout[w][i] = tracking[w][i]
              \/ \E j \in 1..PerStage :
                   checkout[w][i] = [writer |-> w, n |-> reported[w] + j]
         /\ Own(w) = InHand(w)
<1>1. checkout[w] = tracking[w] \o InHand(w) /\ made[w] = reported[w] + PerStage
  BY DEF PushInvariant, CheckoutIsOnTop
<1>2. tracking[w] \in Seq(Commit)
  BY DEF PushInvariant, PushTypeOK
<1>3. /\ InHand(w) \in Seq(Commit) /\ InHand(w) # << >>
      /\ Len(InHand(w)) = PerStage
      /\ \A i \in 1..PerStage : InHand(w)[i] = [writer |-> w, n |-> reported[w] + i]
  BY InHandIsStage
<1> DEFINE t == tracking[w]  h == InHand(w)
<1>10. t \in Seq(Commit) /\ h \in Seq(Commit) /\ h # << >>
  BY <1>2, <1>3
<1> HIDE DEF t, h
<1>4. /\ Len(t \o h) = Len(t) + Len(h)
      /\ Follows(t \o h, t)
      /\ \A i \in 1..Len(h) : (t \o h)[Len(t) + i] = h[i]
      /\ \A i \in 1..(Len(t) + Len(h)) :
           \/ i \in 1..Len(t) /\ (t \o h)[i] = t[i]
           \/ \E j \in 1..Len(h) : i = Len(t) + j /\ (t \o h)[i] = h[j]
      /\ SubSeq(t \o h, Len(t) + 1, Len(t \o h)) = h
  BY <1>10, OnTop
<1>5. checkout[w] = t \o h /\ Len(h) = PerStage
  BY <1>1, <1>3 DEF t, h
<1>6. Own(w) = h
  BY <1>4, <1>5 DEF Own, t
<1>7. \A i \in 1..PerStage : h[i] = [writer |-> w, n |-> reported[w] + i]
  BY <1>3 DEF h
<1>8. \A i \in 1..PerStage :
        checkout[w][Len(t) + i] = [writer |-> w, n |-> reported[w] + i]
  BY <1>4, <1>5, <1>7
<1>9. \A i \in 1..Len(checkout[w]) :
        \/ i \in 1..Len(t) /\ checkout[w][i] = t[i]
        \/ \E j \in 1..PerStage :
             checkout[w][i] = [writer |-> w, n |-> reported[w] + j]
  BY <1>4, <1>5, <1>7
<1> QED
  BY <1>1, <1>4, <1>5, <1>6, <1>8, <1>9 DEF t, h

-----------------------------------------------------------------------------
(* What a push finds *)

\* A writer that was always answered has nothing in hand that is on the branch.
LEMMA InHandIsNew ==
  ASSUME PushInvariant, NEW w \in Writer \ unanswered, at[w] \in Pushing,
         NEW i \in 1..Len(remote), NEW j \in 1..PerStage
  PROVE  remote[i] # [writer |-> w, n |-> reported[w] + j]
<1>1. remote[i].writer = w => remote[i].n <= reported[w]
  BY DEF PushInvariant, AnsweredIsReported
<1>2. reported[w] \in Nat
  BY DEF PushInvariant, PushTypeOK, Counter
<1> QED
  BY <1>1, <1>2

\* A branch the checkout descends from is where it was tracked, or what the
\* writer has in hand was appended to it: between them there is no stage.
LEMMA BranchIsTracked ==
  ASSUME PushInvariant, NEW w \in Writer, at[w] \in Pushing,
         Advertised(w), checkout[w] # remote
  PROVE  remote = tracking[w]
<1>1. /\ Len(remote) \in Nat /\ Len(tracking[w]) \in Nat /\ Len(checkout[w]) \in Nat
      /\ remote \in Seq(Commit) /\ tracking[w] \in Seq(Commit)
      /\ checkout[w] \in Seq(Commit)
  BY DEF PushInvariant, PushTypeOK
<1>2. Len(remote) <= Len(checkout[w]) /\ SubSeq(remote, 1, Len(remote)) = SubSeq(checkout[w], 1, Len(remote))
  BY DEF Advertised, IsPrefix
<1>3. Len(remote) # Len(checkout[w])
  BY <1>1, <1>2, SubSeqFull
<1>4. Len(checkout[w]) = Len(tracking[w]) + PerStage
  BY CheckoutOnTop
<1>5. Follows(remote, tracking[w])
  BY DEF PushInvariant, TrackingStays
<1>6. Whole(Len(remote)) /\ Whole(Len(tracking[w]))
  BY DEF PushInvariant, StagesWhole
<1>7. ~(Len(tracking[w]) < Len(remote))
  BY <1>1, <1>2, <1>3, <1>4, <1>6, WholeApart
<1>8. Len(remote) = Len(tracking[w])
  BY <1>1, <1>5, <1>7 DEF Follows
<1> QED
  BY <1>1, <1>5, <1>8, FollowsItself

-----------------------------------------------------------------------------
(* The steps *)

LEMMA PushStarts == PushInit => PushInvariant
<1> SUFFICES ASSUME PushInit PROVE PushInvariant
  OBVIOUS
<1>1. << >> \in Seq(Commit) /\ Len(<< >>) = 0
  BY EmptySeq
<1>2. PushTypeOK
  BY <1>1 DEF PushInit, PushTypeOK, Counter, Answers
<1>3. StagesWhole
  BY <1>1, WholeChange DEF PushInit, StagesWhole
<1>4. TrackingStays
  BY <1>1 DEF PushInit, TrackingStays, Follows
<1>5. CheckoutIsOnTop
  BY DEF PushInit, CheckoutIsOnTop, Pushing
<1>6. AnsweredIsReported
  BY <1>1 DEF PushInit, AnsweredIsReported
<1> QED
  BY <1>2, <1>3, <1>4, <1>5, <1>6 DEF PushInvariant

\* A step that neither commits nor moves a ref keeps what a writer has in hand.
LEMMA QuietStepKeeps ==
  ASSUME PushInvariant, PushTypeOK',
         UNCHANGED <<remote, local, unanswered>>,
         \A v \in Writer :
           \/ at'[v] = at[v] /\ told'[v] = told[v]
           \/ at[v] \in Pushing /\ at'[v] \in {"push", "fetch"}
           \/ at[v] \in Pushing /\ at'[v] = "send" /\ told'[v] = tracking[v]
           \/ at'[v] = "end"
  PROVE  PushInvariant'
<1>1. UNCHANGED <<remote, checkout, tracking, made, reported, unanswered>>
  BY DEF local
<1>2. \A v : InHand(v)' = InHand(v)
  BY <1>1 DEF InHand
<1>3. CheckoutIsOnTop'
  BY <1>1, <1>2 DEF PushInvariant, CheckoutIsOnTop, Pushing
<1>4. StagesWhole' /\ TrackingStays' /\ AnsweredIsReported'
  BY <1>1
  DEF PushInvariant, StagesWhole, TrackingStays, AnsweredIsReported, Whole, Follows
<1> QED
  BY <1>3, <1>4 DEF PushInvariant

LEMMA AskBranchKeeps ==
  ASSUME PushInvariant, NEW w \in Writer, AskBranch(w), UNCHANGED unanswered
  PROVE  PushInvariant'
<1>1. remote = tracking[w]
  BY BranchIsTracked DEF AskBranch, Pushing
<1>2. at \in [Writer -> {"clone", "generate", "push", "send", "fetch", "end"}]
  BY DEF PushInvariant, PushTypeOK
<1>3. PushTypeOK'
  <2>1. at' \in [Writer -> {"clone", "generate", "push", "send", "fetch", "end"}]
    BY <1>2 DEF AskBranch, Goto
  <2>2. told' \in [Writer -> Seq(Commit)]
    BY DEF AskBranch, PushInvariant, PushTypeOK
  <2> QED
    BY <2>1, <2>2 DEF AskBranch, PushInvariant, PushTypeOK, local
<1>4. ASSUME NEW v \in Writer
      PROVE  \/ at'[v] = at[v] /\ told'[v] = told[v]
             \/ at[v] \in Pushing /\ at'[v] = "send" /\ told'[v] = tracking[v]
  BY <1>1, <1>2 DEF AskBranch, Goto, Pushing, PushInvariant, PushTypeOK
<1> QED
  BY <1>3, <1>4, QuietStepKeeps DEF AskBranch, local

LEMMA EndsKeep ==
  ASSUME PushInvariant, NEW w \in Writer, UNCHANGED unanswered,
         \/ AllPushed(w) \/ Diverged(w) \/ SendRefused(w) \/ TransportFails(w)
         \/ RefusedUnmoved(w) \/ RefusedAgain(w) \/ RebaseConflicts(w)
  PROVE  PushInvariant'
<1>1. at \in [Writer -> {"clone", "generate", "push", "send", "fetch", "end"}]
  BY DEF PushInvariant, PushTypeOK
<1>2. UNCHANGED <<remote, local, told>>
  BY DEF AllPushed, Diverged, SendRefused, TransportFails, RefusedUnmoved,
         RefusedAgain, RebaseConflicts, Refused, InTransport, EndChange, Goto
<1>3. \/ at' = [at EXCEPT ![w] = "end"]
      \/ /\ at' = [at EXCEPT ![w] = "fetch"] \/ at' = [at EXCEPT ![w] = "push"]
         /\ at[w] \in Pushing
  BY DEF AllPushed, Diverged, SendRefused, TransportFails, RefusedUnmoved,
         RefusedAgain, RebaseConflicts, Refused, InTransport, EndChange, Goto, Pushing
<1>4. answer' \in [Writer -> Answers]
  BY DEF AllPushed, Diverged, SendRefused, TransportFails, RefusedUnmoved,
         RefusedAgain, RebaseConflicts, Refused, InTransport, EndChange, Goto,
         PushInvariant, PushTypeOK, Answers
<1>5. failures' \in Counter(Retries) /\ attempt' = attempt
  <2>1. failures \in [Writer -> 0..Retries]
    BY DEF PushInvariant, PushTypeOK, Counter
  <2>2. CASE Diverged(w) \/ SendRefused(w)
    BY <2>1, <2>2 DEF Diverged, SendRefused, Refused, Counter
  <2>3. CASE TransportFails(w)
    <3>1. CASE failures[w] < Retries
      <4>1. failures[w] + 1 \in 0..Retries
        BY <2>1, <3>1
      <4> QED
        BY <2>1, <2>3, <3>1, <4>1 DEF TransportFails, InTransport, Counter
    <3>2. CASE ~(failures[w] < Retries)
      BY <2>1, <2>3, <3>2 DEF TransportFails, InTransport, Counter
    <3> QED
      BY <3>1, <3>2
  <2>4. CASE AllPushed(w) \/ RefusedUnmoved(w) \/ RefusedAgain(w) \/ RebaseConflicts(w)
    BY <2>1, <2>4
    DEF AllPushed, RefusedUnmoved, RefusedAgain, RebaseConflicts, Counter
  <2> QED
    BY <2>2, <2>3, <2>4
<1>6. PushTypeOK'
  BY <1>1, <1>2, <1>3, <1>4, <1>5 DEF PushInvariant, PushTypeOK, local
<1>7. ASSUME NEW v \in Writer
      PROVE  \/ at'[v] = at[v] /\ told'[v] = told[v]
             \/ at[v] \in Pushing /\ at'[v] \in {"push", "fetch"}
             \/ at'[v] = "end"
  BY <1>1, <1>2, <1>3
<1> QED
  BY <1>2, <1>6, <1>7, QuietStepKeeps

\* The other writers, and what they have in hand, are as they were.
OthersStay(w) ==
  \A v \in Writer \ {w} :
    /\ checkout'[v] = checkout[v] /\ tracking'[v] = tracking[v]
    /\ made'[v] = made[v] /\ reported'[v] = reported[v]
    /\ at'[v] = at[v] /\ told'[v] = told[v]

LEMMA OthersKeep ==
  ASSUME PushInvariant, NEW w \in Writer, OthersStay(w), NEW v \in Writer \ {w}
  PROVE  /\ at'[v] \in {"clone", "generate"} =>
              made'[v] = reported'[v] /\ checkout'[v] = tracking'[v]
         /\ at'[v] \in Pushing =>
              made'[v] = reported'[v] + PerStage
              /\ checkout'[v] = tracking'[v] \o InHand(v)'
         /\ at'[v] = "send" => told'[v] = tracking'[v]
         /\ Whole(Len(tracking'[v])) /\ Whole(made'[v])
<1>1. InHand(v)' = InHand(v)
  BY DEF InHand, OthersStay
<1> QED
  BY <1>1 DEF OthersStay, PushInvariant, CheckoutIsOnTop, StagesWhole

LEMMA FollowsOn ==
  ASSUME NEW r, NEW s, NEW t, Len(r) \in Nat, Len(s) \in Nat, Len(t) \in Nat,
         Follows(r, s), Follows(s, t)
  PROVE  Follows(r, t)
  BY DEF Follows

LEMMA CloneKeeps ==
  ASSUME PushInvariant, NEW w \in Writer, Clone(w), UNCHANGED unanswered
  PROVE  PushInvariant'
<1>1. /\ at[w] = "clone" /\ at' = [at EXCEPT ![w] = "generate"]
      /\ checkout' = [checkout EXCEPT ![w] = remote]
      /\ tracking' = [tracking EXCEPT ![w] = remote]
      /\ UNCHANGED <<remote, told, made, reported, attempt, failures, answer>>
  BY DEF Clone, Goto
<1>2. PushTypeOK
  BY DEF PushInvariant
<1>3. PushTypeOK'
  BY <1>1, <1>2 DEF PushTypeOK
<1>4. OthersStay(w)
  BY <1>1, <1>2 DEF OthersStay, PushTypeOK
<1>5. /\ checkout'[w] = remote /\ tracking'[w] = remote /\ at'[w] = "generate"
      /\ made[w] = reported[w]
  BY <1>1, <1>2 DEF PushTypeOK, PushInvariant, CheckoutIsOnTop
<1>6. StagesWhole'
  <2>1. Whole(Len(remote')) /\ Whole(Len(tracking'[w])) /\ Whole(made'[w])
    BY <1>1, <1>5 DEF PushInvariant, StagesWhole
  <2> QED
    BY <1>4, <2>1, OthersKeep DEF StagesWhole, Whole
<1>7. TrackingStays'
  <2>1. Follows(remote', tracking'[w])
    BY <1>1, <1>5 DEF Follows
  <2>2. \A v \in Writer \ {w} : Follows(remote', tracking'[v])
    BY <1>1, <1>4 DEF PushInvariant, TrackingStays, OthersStay
  <2> QED
    BY <2>1, <2>2 DEF TrackingStays, Follows
<1>8. CheckoutIsOnTop'
  BY <1>1, <1>4, <1>5, OthersKeep DEF CheckoutIsOnTop, Pushing
<1>9. AnsweredIsReported'
  BY <1>1 DEF PushInvariant, AnsweredIsReported
<1> QED
  BY <1>3, <1>6, <1>7, <1>8, <1>9 DEF PushInvariant

LEMMA GenerateKeeps ==
  ASSUME PushInvariant, NEW w \in Writer, Generate(w), UNCHANGED unanswered
  PROVE  PushInvariant'
<1> DEFINE stage == [i \in 1..PerStage |-> [writer |-> w, n |-> made[w] + i]]
<1>1. /\ at[w] = "generate" /\ at' = [at EXCEPT ![w] = "push"]
      /\ made[w] < Stages * PerStage
      /\ checkout' = [checkout EXCEPT ![w] = @ \o stage]
      /\ made' = [made EXCEPT ![w] = @ + PerStage]
      /\ attempt' = [attempt EXCEPT ![w] = 1]
      /\ failures' = [failures EXCEPT ![w] = 0]
      /\ UNCHANGED <<remote, tracking, told, reported, answer>>
  BY DEF Generate, Goto
<1>2. PushTypeOK
  BY DEF PushInvariant
<1>3. /\ made[w] = reported[w] /\ checkout[w] = tracking[w]
      /\ Whole(made[w]) /\ made[w] \in Nat /\ checkout[w] \in Seq(Commit)
  BY <1>1, <1>2 DEF PushInvariant, CheckoutIsOnTop, StagesWhole, PushTypeOK, Counter
<1>4. made[w] + PerStage <= Stages * PerStage
  BY <1>1, <1>3, WholeApart, WholeChange
<1>5. stage \in Seq(Commit) /\ stage # << >>
  BY <1>2, <1>3, <1>4, StageIsCommits
<1>6. /\ checkout'[w] = checkout[w] \o stage /\ at'[w] = "push"
      /\ made'[w] = made[w] + PerStage
  BY <1>1, <1>2 DEF PushTypeOK, Counter
<1>7. InHand(w)' = stage
  BY <1>1, <1>3 DEF InHand
<1> HIDE DEF stage
<1>8. checkout[w] \o stage \in Seq(Commit)
  BY <1>3, <1>5, OnTop
<1>9. PushTypeOK'
  <2>1. checkout' \in [Writer -> Seq(Commit)]
    BY <1>1, <1>2, <1>8 DEF PushTypeOK
  <2>2. made' \in Counter(Stages * PerStage)
    <3>1. made[w] + PerStage \in 0..(Stages * PerStage)
      BY <1>3, <1>4
    <3> QED
      BY <1>1, <1>2, <3>1 DEF PushTypeOK, Counter
  <2>3. attempt' \in Counter(PushAttempts) /\ failures' \in Counter(Retries)
    <3>1. 1 \in 0..PushAttempts /\ 0 \in 0..Retries
      OBVIOUS
    <3> QED
      BY <1>1, <1>2, <3>1 DEF PushTypeOK, Counter
  <2> QED
    BY <1>1, <1>2, <2>1, <2>2, <2>3 DEF PushTypeOK
<1>10. OthersStay(w)
  BY <1>1, <1>2 DEF OthersStay, PushTypeOK, Counter
<1>11. StagesWhole'
  <2>1. Whole(Len(remote')) /\ Whole(Len(tracking'[w])) /\ Whole(made'[w])
    BY <1>1, <1>3, <1>6, WholeNext DEF PushInvariant, StagesWhole
  <2> QED
    BY <1>10, <2>1, OthersKeep DEF StagesWhole, Whole
<1>12. CheckoutIsOnTop'
  <2>1. /\ made'[w] = reported'[w] + PerStage
        /\ checkout'[w] = tracking'[w] \o InHand(w)'
    BY <1>1, <1>3, <1>6, <1>7
  <2> QED
    BY <1>6, <1>10, <2>1, OthersKeep DEF CheckoutIsOnTop, Pushing
<1>13. TrackingStays' /\ AnsweredIsReported'
  BY <1>1 DEF PushInvariant, TrackingStays, AnsweredIsReported, Follows
<1> QED
  BY <1>9, <1>11, <1>12, <1>13 DEF PushInvariant

\* A writer that has pushed: what it tracks is its checkout.
LEMMA PushedKeeps ==
  ASSUME PushInvariant, NEW w \in Writer, at[w] \in Pushing, Pushed(w),
         remote' = checkout[w],
         Follows(checkout[w], remote),
         Whole(Len(checkout[w])),
         UNCHANGED unanswered,
         \A i \in 1..Len(remote') :
           \/ i \in 1..Len(remote) /\ remote'[i] = remote[i]
           \/ \E j \in 1..PerStage :
                remote'[i] = [writer |-> w, n |-> reported[w] + j]
  PROVE  PushInvariant'
<1>1. /\ tracking' = [tracking EXCEPT ![w] = checkout[w]]
      /\ reported' = [reported EXCEPT ![w] = made[w]]
      /\ at' = [at EXCEPT ![w] = "generate"]
      /\ UNCHANGED <<checkout, told, made, attempt, failures, answer>>
  BY DEF Pushed, Goto
<1>2. PushTypeOK
  BY DEF PushInvariant
<1>3. PushTypeOK'
  <2>1. checkout[w] \in Seq(Commit) /\ made[w] \in 0..(Stages * PerStage)
    BY <1>2 DEF PushTypeOK, Counter
  <2>2. remote' \in Seq(Commit) /\ tracking' \in [Writer -> Seq(Commit)]
    BY <1>1, <1>2, <2>1 DEF PushTypeOK
  <2>3. reported' \in Counter(Stages * PerStage)
    BY <1>1, <1>2, <2>1 DEF PushTypeOK, Counter
  <2> QED
    BY <1>1, <1>2, <2>2, <2>3 DEF PushTypeOK
<1>4. OthersStay(w)
  BY <1>1, <1>2 DEF OthersStay, PushTypeOK, Counter
<1>5. /\ tracking'[w] = checkout[w] /\ reported'[w] = made[w] /\ at'[w] = "generate"
      /\ made'[w] = made[w] /\ checkout'[w] = checkout[w]
  BY <1>1, <1>2 DEF PushTypeOK, Counter
<1>6. made[w] = reported[w] + PerStage /\ reported[w] \in Nat
  BY <1>2, CheckoutOnTop DEF PushTypeOK, Counter
<1>7. StagesWhole'
  <2>1. Whole(Len(remote')) /\ Whole(Len(tracking'[w])) /\ Whole(made'[w])
    BY <1>1, <1>5 DEF PushInvariant, StagesWhole
  <2> QED
    BY <1>4, <2>1, OthersKeep DEF StagesWhole, Whole
<1>8. TrackingStays'
  <2>1. Follows(remote', tracking'[w])
    BY <1>2, <1>5 DEF Follows, PushTypeOK
  <2>2. ASSUME NEW v \in Writer \ {w} PROVE Follows(remote', tracking'[v])
    <3>1. Follows(remote, tracking[v]) /\ tracking'[v] = tracking[v]
      BY <1>4 DEF PushInvariant, TrackingStays, OthersStay
    <3>2. /\ Len(checkout[w]) \in Nat /\ Len(remote) \in Nat /\ Len(tracking[v]) \in Nat
      BY <1>2 DEF PushTypeOK
    <3> QED
      BY <3>1, <3>2, FollowsOn
  <2> QED
    BY <2>1, <2>2 DEF TrackingStays, Follows
<1>9. CheckoutIsOnTop'
  BY <1>4, <1>5, OthersKeep DEF CheckoutIsOnTop, Pushing
<1>10. AnsweredIsReported'
  <2> SUFFICES ASSUME NEW v \in Writer \ unanswered, NEW i \in 1..Len(remote'),
                      remote'[i].writer = v
               PROVE  remote'[i].n <= reported'[v]
    BY DEF AnsweredIsReported
  <2>1. CASE i \in 1..Len(remote) /\ remote'[i] = remote[i]
    <3>1. remote[i].n <= reported[v]
      BY <2>1 DEF PushInvariant, AnsweredIsReported
    <3>2. remote[i].n \in Nat
      <4>1. remote \in Seq(Commit)
        BY <1>2 DEF PushTypeOK
      <4>2. remote[i] \in Commit
        BY <2>1, <4>1
      <4> QED
        BY <4>2 DEF Commit
    <3>3. reported[v] \in Nat /\ reported'[v] \in Nat /\ reported[v] <= reported'[v]
      <4>1. reported[v] \in Nat
        BY <1>2 DEF PushTypeOK, Counter
      <4> QED
        BY <1>4, <1>5, <1>6, <4>1 DEF OthersStay
    <3> QED
      BY <2>1, <3>1, <3>2, <3>3
  <2>2. CASE \E j \in 1..PerStage :
               remote'[i] = [writer |-> w, n |-> reported[w] + j]
    <3>1. PICK j \in 1..PerStage :
            remote'[i] = [writer |-> w, n |-> reported[w] + j]
      BY <2>2
    <3> QED
      BY <1>5, <1>6, <3>1
  <2> QED
    BY <2>1, <2>2
<1> QED
  BY <1>3, <1>7, <1>8, <1>9, <1>10 DEF PushInvariant

LEMMA NothingToSendKeeps ==
  ASSUME PushInvariant, NEW w \in Writer, NothingToSend(w), UNCHANGED unanswered
  PROVE  PushInvariant'
<1>1. at[w] \in Pushing /\ checkout[w] = remote /\ Pushed(w) /\ remote' = remote
  BY DEF NothingToSend, Pushing
<1>2. Follows(checkout[w], remote) /\ Whole(Len(checkout[w]))
  BY <1>1 DEF Follows, PushInvariant, StagesWhole, PushTypeOK
<1> QED
  BY <1>1, <1>2, PushedKeeps

\* Where a push was told the branch is, the stage in hand is appended to it.
LEMMA SentIsAppended ==
  ASSUME PushInvariant, NEW w \in Writer, at[w] = "send", StillThere(w)
  PROVE  /\ remote = tracking[w]
         /\ checkout[w] = remote \o InHand(w)
         /\ Follows(checkout[w], remote)
         /\ Whole(Len(checkout[w]))
         /\ \A i \in 1..Len(checkout[w]) :
              \/ i \in 1..Len(remote) /\ checkout[w][i] = remote[i]
              \/ \E j \in 1..PerStage :
                   checkout[w][i] = [writer |-> w, n |-> reported[w] + j]
<1>1. at[w] \in Pushing
  BY DEF Pushing
<1>2. remote = tracking[w]
  BY DEF StillThere, PushInvariant, CheckoutIsOnTop
<1>3. Len(checkout[w]) = Len(remote) + PerStage
  BY <1>1, <1>2, CheckoutOnTop
<1>4. Whole(Len(checkout[w]))
  BY <1>3, WholeNext DEF PushInvariant, StagesWhole
<1> QED
  BY <1>1, <1>2, <1>4, CheckoutOnTop

LEMMA TakenKeeps ==
  ASSUME PushInvariant, NEW w \in Writer, Taken(w), UNCHANGED unanswered
  PROVE  PushInvariant'
  BY SentIsAppended, PushedKeeps DEF Taken, Pushing

LEMMA TakenUnansweredKeeps ==
  ASSUME PushInvariant, NEW w \in Writer, TakenUnanswered(w)
  PROVE  PushInvariant'
<1>1. /\ at[w] = "send" /\ StillThere(w) /\ remote' = checkout[w]
      /\ unanswered' = unanswered \union {w}
      /\ UNCHANGED <<local, told, attempt>>
      /\ InTransport(w)
  BY DEF TakenUnanswered, InTransport
<1>2. PushTypeOK
  BY DEF PushInvariant
<1>3. /\ at' = [at EXCEPT ![w] = "push"] \/ at' = [at EXCEPT ![w] = "end"]
      /\ answer' \in [Writer -> Answers]
      /\ failures' \in Counter(Retries)
  <2>1. CASE failures[w] < Retries
    <3>1. failures[w] + 1 \in 0..Retries
      BY <1>2, <2>1 DEF PushTypeOK, Counter
    <3> QED
      BY <1>1, <1>2, <2>1, <3>1 DEF InTransport, Goto, PushTypeOK, Counter
  <2>2. CASE ~(failures[w] < Retries)
    BY <1>1, <1>2, <2>2 DEF InTransport, EndChange, Goto, PushTypeOK, Answers
  <2> QED
    BY <2>1, <2>2
<1>4. PushTypeOK'
  <2>1. remote' \in Seq(Commit) /\ unanswered' \subseteq Writer
    BY <1>1, <1>2 DEF PushTypeOK
  <2>2. at' \in [Writer -> {"clone", "generate", "push", "send", "fetch", "end"}]
    BY <1>2, <1>3 DEF PushTypeOK
  <2> QED
    BY <1>1, <1>2, <1>3, <2>1, <2>2 DEF PushTypeOK, local
<1>5. \A v : InHand(v)' = InHand(v)
  BY <1>1 DEF InHand, local
<1>6. CheckoutIsOnTop'
  <2>1. \A v \in Writer : \/ at'[v] = at[v]
                          \/ at[v] \in Pushing /\ at'[v] \in {"push", "end"}
    BY <1>1, <1>2, <1>3 DEF PushTypeOK, Pushing
  <2> QED
    BY <1>1, <1>5, <2>1 DEF PushInvariant, CheckoutIsOnTop, local, Pushing
<1>7. StagesWhole'
  BY <1>1, SentIsAppended DEF PushInvariant, StagesWhole, local, Whole
<1>8. TrackingStays'
  <2> SUFFICES ASSUME NEW v \in Writer PROVE Follows(checkout[w], tracking[v])
    BY <1>1 DEF TrackingStays, local, Follows
  <2>1. /\ Len(checkout[w]) \in Nat /\ Len(remote) \in Nat /\ Len(tracking[v]) \in Nat
    BY <1>2 DEF PushTypeOK
  <2>2. Follows(remote, tracking[v])
    BY DEF PushInvariant, TrackingStays
  <2> QED
    BY <1>1, <2>1, <2>2, SentIsAppended, FollowsOn
<1>9. AnsweredIsReported'
  <2> SUFFICES ASSUME NEW v \in Writer \ unanswered', NEW i \in 1..Len(remote'),
                      remote'[i].writer = v
               PROVE  remote'[i].n <= reported'[v]
    BY DEF AnsweredIsReported
  <2>1. v \in Writer \ unanswered /\ v # w
    BY <1>1
  <2>2. ASSUME NEW j \in 1..PerStage,
               remote'[i] = [writer |-> w, n |-> reported[w] + j]
        PROVE  FALSE
    BY <2>1, <2>2
  <2>3. i \in 1..Len(checkout[w]) /\ remote'[i] = checkout[w][i]
    BY <1>1
  <2>4. i \in 1..Len(remote) /\ remote'[i] = remote[i]
    BY <1>1, <2>2, <2>3, SentIsAppended
  <2> QED
    BY <1>1, <2>1, <2>4 DEF PushInvariant, AnsweredIsReported, local
<1> QED
  BY <1>4, <1>6, <1>7, <1>8, <1>9 DEF PushInvariant

\* A rebase puts what the writer has in hand on top of the branch as fetched.
LEMMA RebaseKeeps ==
  ASSUME PushInvariant, NEW w \in Writer, Rebase(w), UNCHANGED unanswered
  PROVE  PushInvariant'
<1>1. /\ at[w] = "fetch" /\ ~LastAttempt(w)
      /\ checkout' = [checkout EXCEPT ![w] = remote \o Own(w)]
      /\ tracking' = [tracking EXCEPT ![w] = remote]
      /\ attempt' = [attempt EXCEPT ![w] = @ + 1]
      /\ failures' = [failures EXCEPT ![w] = 0]
      /\ at' = [at EXCEPT ![w] = "push"]
      /\ UNCHANGED <<remote, told, made, reported, answer>>
      /\ at[w] \in Pushing
  BY DEF Rebase, Goto, Pushing
<1>2. PushTypeOK
  BY DEF PushInvariant
<1>3. Own(w) = InHand(w) /\ made[w] = reported[w] + PerStage
  BY <1>1, CheckoutOnTop
<1>4. remote \o InHand(w) \in Seq(Commit)
  BY <1>1, <1>2, InHandIsStage, OnTop DEF PushTypeOK
<1>5. PushTypeOK'
  <2>1. checkout' \in [Writer -> Seq(Commit)] /\ tracking' \in [Writer -> Seq(Commit)]
    BY <1>1, <1>2, <1>3, <1>4 DEF PushTypeOK
  <2>2. attempt' \in Counter(PushAttempts)
    <3>1. attempt[w] + 1 \in 0..PushAttempts
      BY <1>1, <1>2 DEF PushTypeOK, Counter, LastAttempt
    <3> QED
      BY <1>1, <1>2, <3>1 DEF PushTypeOK, Counter
  <2>3. failures' \in Counter(Retries)
    BY <1>1, <1>2 DEF PushTypeOK, Counter
  <2> QED
    BY <1>1, <1>2, <2>1, <2>2, <2>3 DEF PushTypeOK
<1>6. OthersStay(w)
  BY <1>1, <1>2 DEF OthersStay, PushTypeOK
<1>7. /\ checkout'[w] = remote \o InHand(w) /\ tracking'[w] = remote /\ at'[w] = "push"
      /\ InHand(w)' = InHand(w)
  BY <1>1, <1>2, <1>3 DEF PushTypeOK, InHand
<1>8. StagesWhole'
  <2>1. Whole(Len(remote')) /\ Whole(Len(tracking'[w])) /\ Whole(made'[w])
    BY <1>1, <1>7 DEF PushInvariant, StagesWhole
  <2> QED
    BY <1>6, <2>1, OthersKeep DEF StagesWhole, Whole
<1>9. TrackingStays'
  <2>1. Follows(remote', tracking'[w])
    BY <1>1, <1>7 DEF Follows
  <2>2. \A v \in Writer \ {w} : Follows(remote', tracking'[v])
    BY <1>1, <1>6 DEF PushInvariant, TrackingStays, OthersStay
  <2> QED
    BY <2>1, <2>2 DEF TrackingStays, Follows
<1>10. CheckoutIsOnTop'
  <2>1. /\ made'[w] = reported'[w] + PerStage
        /\ checkout'[w] = tracking'[w] \o InHand(w)'
    BY <1>1, <1>3, <1>7
  <2> QED
    BY <1>6, <1>7, <2>1, OthersKeep DEF CheckoutIsOnTop, Pushing
<1>11. AnsweredIsReported'
  BY <1>1 DEF PushInvariant, AnsweredIsReported
<1> QED
  BY <1>5, <1>8, <1>9, <1>10, <1>11 DEF PushInvariant

LEMMA PushInductive == PushInvariant /\ [PushNext]_pushVars => PushInvariant'
<1> SUFFICES ASSUME PushInvariant, [PushNext]_pushVars PROVE PushInvariant'
  OBVIOUS
<1>1. ASSUME NEW w \in Writer, AnsweredStep(w), UNCHANGED unanswered
      PROVE  PushInvariant'
  BY <1>1, CloneKeeps, GenerateKeeps, EndsKeep, AskBranchKeeps, NothingToSendKeeps,
     TakenKeeps, RebaseKeeps
  DEF AnsweredStep
<1>2. CASE UNCHANGED pushVars
  <2>1. PushTypeOK'
    BY <1>2 DEF pushVars, PushInvariant, PushTypeOK
  <2> QED
    BY <1>2, <2>1, QuietStepKeeps DEF pushVars, local
<1> QED
  BY <1>1, <1>2, TakenUnansweredKeeps DEF PushNext, WriterStep, PushesEnded

\* The branch grows by whole stages, a checkout is what is tracked of it and the
\* stage in hand, and what was answered is reported (_push_manifests).
THEOREM PushHolds == PushSpec => []PushInvariant
  BY PushStarts, PushInductive, PTL DEF PushSpec

\* A rebase replays nothing that is on the branch already, if every answer
\* reached the change (_push_manifests, _rebase_onto).
THEOREM NothingIsReplayed == PushSpec => []ReplaysOnlyUnpushed
<1>1. PushInvariant => ReplaysOnlyUnpushed
  <2> SUFFICES ASSUME PushInvariant, NEW w \in Writer \ unanswered, at[w] = "fetch"
               PROVE  Range(Own(w)) \intersect Range(remote) = {}
    BY DEF ReplaysOnlyUnpushed
  <2>1. at[w] \in Pushing
    BY DEF Pushing
  <2>2. /\ Own(w) = InHand(w) /\ InHand(w) \in Seq(Commit)
        /\ Len(InHand(w)) = PerStage
        /\ \A j \in 1..PerStage : InHand(w)[j] = [writer |-> w, n |-> reported[w] + j]
    BY <2>1, CheckoutOnTop, InHandIsStage
  <2>3. remote \in Seq(Commit)
    BY DEF PushInvariant, PushTypeOK
  <2>4. ASSUME NEW c \in Range(Own(w)), c \in Range(remote) PROVE FALSE
    <3>1. PICK j \in 1..PerStage : c = [writer |-> w, n |-> reported[w] + j]
      BY <2>2, <2>4, RangeEquality
    <3>2. PICK i \in 1..Len(remote) : c = remote[i]
      BY <2>3, <2>4, RangeEquality
    <3> QED
      BY <2>1, <3>1, <3>2, InHandIsNew
  <2> QED
    BY <2>4
<1> QED
  BY <1>1, PushHolds, PTL

-----------------------------------------------------------------------------
(* The branch is a log *)

LEMMA LogInit == PushInit => Log!Init
  BY DEF PushInit, Log!Init

\* What a push appends is the stage the log's writer is at.
LEMMA StepAppends ==
  ASSUME PushInvariant, NEW w \in Writer,
         \/ Taken(w) /\ UNCHANGED unanswered
         \/ TakenUnanswered(w)
  PROVE  Log!AppendStage(w) \/ Log!AppendUnanswered(w)
<1>1. at[w] = "send" /\ StillThere(w) /\ remote' = checkout[w]
  BY DEF Taken, TakenUnanswered
<1>2. remote' = remote \o Log!StageAfter(w)
  BY <1>1, SentIsAppended DEF InHand, Log!StageAfter
<1>3. CASE Taken(w) /\ UNCHANGED unanswered
  <2>1. reported' = [reported EXCEPT ![w] = made[w]]
    BY <1>3 DEF Taken, Pushed
  <2>2. made[w] = reported[w] + PerStage
    BY <1>1, CheckoutOnTop DEF Pushing
  <2> QED
    BY <1>2, <1>3, <2>1, <2>2 DEF Log!AppendStage
<1>4. CASE TakenUnanswered(w)
  BY <1>2, <1>4 DEF TakenUnanswered, InTransport, local, Log!AppendUnanswered
<1> QED
  BY <1>3, <1>4

\* A push with nothing to send finds there what was taken unanswered.
LEMMA StepReports ==
  ASSUME PushInvariant, NEW w \in Writer, NothingToSend(w), UNCHANGED unanswered
  PROVE  Log!Report(w)
<1>1. /\ at[w] \in Pushing /\ checkout[w] = remote /\ remote' = remote
      /\ reported' = [reported EXCEPT ![w] = made[w]]
  BY DEF NothingToSend, Pushed, Pushing
<1>2. made[w] = reported[w] + PerStage
  BY <1>1, CheckoutOnTop
<1>3. /\ Len(tracking[w]) \in Nat /\ Len(remote) = Len(tracking[w]) + PerStage
      /\ remote \in Seq(Commit)
  BY <1>1, CheckoutOnTop DEF PushInvariant, PushTypeOK
<1>4. ASSUME NEW i \in 1..PerStage
      PROVE  /\ Len(tracking[w]) + i \in 1..Len(remote)
             /\ remote[Len(tracking[w]) + i] = [writer |-> w, n |-> reported[w] + i]
  <2>1. Len(tracking[w]) + i \in 1..Len(remote)
    BY <1>3
  <2> QED
    BY <1>1, <2>1, CheckoutOnTop
<1>5. w \in unanswered
  <2>1. 1 \in 1..PerStage
    OBVIOUS
  <2> QED
    BY <1>1, <1>4, <2>1, InHandIsNew
<1>6. \A i \in 1..PerStage : \E k \in DOMAIN remote : remote[k] = Log!StageAfter(w)[i]
  <2>1. DOMAIN remote = 1..Len(remote)
    BY <1>3
  <2>2. \A i \in 1..PerStage : Log!StageAfter(w)[i] = [writer |-> w, n |-> reported[w] + i]
    BY DEF Log!StageAfter
  <2> QED
    BY <1>4, <2>1, <2>2
<1> QED
  BY <1>1, <1>2, <1>5, <1>6 DEF Log!Report

\* Every other step leaves the log alone.
LEMMA StepStutters ==
  ASSUME NEW w \in Writer, AnsweredStep(w), ~Taken(w), ~NothingToSend(w),
         UNCHANGED unanswered
  PROVE  UNCHANGED <<remote, reported, unanswered>>
  BY DEF AnsweredStep, Clone, Generate, AllPushed, AskBranch, Diverged, SendRefused,
         TransportFails, RefusedUnmoved, RefusedAgain, Rebase, RebaseConflicts,
         Refused, InTransport, local

\* The branch is the log that BranchLog promises, for any changes, stages and
\* attempts, answers lost or not.
THEOREM PushImplementsLog == PushSpec => ImplementsLog
<1>1. PushInvariant /\ [PushNext]_pushVars => [Log!Next]_(Log!logVars)
  <2> SUFFICES ASSUME PushInvariant, [PushNext]_pushVars
               PROVE  Log!Next \/ UNCHANGED <<remote, reported, unanswered>>
    BY DEF Log!logVars
  <2>1. ASSUME NEW w \in Writer, WriterStep(w)
        PROVE  Log!Next \/ UNCHANGED <<remote, reported, unanswered>>
    BY <2>1, StepAppends, StepReports, StepStutters DEF WriterStep, Log!Next
  <2>2. CASE UNCHANGED pushVars
    BY <2>2 DEF pushVars
  <2> QED
    BY <2>1, <2>2 DEF PushNext, PushesEnded
<1> QED
  BY LogInit, <1>1, PushHolds, PTL DEF PushSpec, ImplementsLog, Log!LogSpec

\* Nothing that reached the branch is ever taken off it again, answers lost or
\* not (the push has no force and the remote compares before it swaps).
THEOREM BranchAlwaysGrows == PushSpec => BranchOnlyGrows
<1>1. PushInvariant /\ [PushNext]_pushVars => [IsPrefix(remote, remote')]_remote
  <2> SUFFICES ASSUME PushInvariant, [PushNext]_pushVars
               PROVE  IsPrefix(remote, remote') \/ remote' = remote
    OBVIOUS
  <2>1. ASSUME NEW w \in Writer, Taken(w) \/ TakenUnanswered(w)
        PROVE  IsPrefix(remote, remote')
    <3>1. /\ at[w] = "send" /\ StillThere(w) /\ remote' = checkout[w]
          /\ at[w] \in Pushing
      BY <2>1 DEF Taken, TakenUnanswered, Pushing
    <3>2. /\ remote \in Seq(Commit) /\ InHand(w) \in Seq(Commit)
          /\ remote' = remote \o InHand(w) /\ Len(remote) <= Len(remote')
      <4>1. remote \in Seq(Commit) /\ InHand(w) \in Seq(Commit)
        BY <3>1, InHandIsStage DEF PushInvariant, PushTypeOK
      <4>2. remote' = remote \o InHand(w) /\ Follows(remote', remote)
        BY <3>1, SentIsAppended
      <4> QED
        BY <4>1, <4>2 DEF Follows
    <3>3. SubSeq(remote, 1, Len(remote)) = SubSeq(remote', 1, Len(remote))
      <4>1. CASE Len(remote) = 0
        BY <4>1, SubSeqEmpty
      <4>2. CASE Len(remote) # 0
        <5>1. 1 \in 1..Len(remote) /\ Len(remote) \in 1..Len(remote)
          BY <3>2, <4>2
        <5> QED
          BY <3>2, <5>1, SubSeqOfConcat1
      <4> QED
        BY <4>1, <4>2
    <3> QED
      BY <3>2, <3>3 DEF IsPrefix
  <2>2. ASSUME NEW w \in Writer, WriterStep(w), ~Taken(w), ~TakenUnanswered(w)
        PROVE  remote' = remote
    BY <2>2, StepStutters DEF WriterStep, NothingToSend
  <2>3. CASE UNCHANGED pushVars
    BY <2>3 DEF pushVars
  <2> QED
    BY <2>1, <2>2, <2>3 DEF PushNext, PushesEnded
<1> QED
  BY <1>1, PushHolds, PTL DEF PushSpec, BranchOnlyGrows

-----------------------------------------------------------------------------
(* Every step leaves a change less to do *)

LEMMA LessIs ==
  ASSUME NEW a1, NEW a2, NEW a3, NEW a4, NEW a5, NEW a6, NEW a7,
         NEW b1, NEW b2, NEW b3, NEW b4, NEW b5, NEW b6, NEW b7,
         \/ a1 < b1
         \/ a1 = b1 /\ a2 < b2
         \/ a1 = b1 /\ a2 = b2 /\ a3 < b3
         \/ a1 = b1 /\ a2 = b2 /\ a3 = b3 /\ a4 < b4
         \/ a1 = b1 /\ a2 = b2 /\ a3 = b3 /\ a4 = b4 /\ a5 < b5
         \/ a1 = b1 /\ a2 = b2 /\ a3 = b3 /\ a4 = b4 /\ a5 = b5 /\ a6 < b6
         \/ /\ a1 = b1 /\ a2 = b2 /\ a3 = b3 /\ a4 = b4 /\ a5 = b5 /\ a6 = b6
            /\ a7 < b7
  PROVE  Less(<<a1, a2, a3, a4, a5, a6, a7>>, <<b1, b2, b3, b4, b5, b6, b7>>)
<1> DEFINE s == <<a1, a2, a3, a4, a5, a6, a7>>
           t == <<b1, b2, b3, b4, b5, b6, b7>>
<1>1. /\ s[1] = a1 /\ s[2] = a2 /\ s[3] = a3 /\ s[4] = a4 /\ s[5] = a5
      /\ s[6] = a6 /\ s[7] = a7
      /\ t[1] = b1 /\ t[2] = b2 /\ t[3] = b3 /\ t[4] = b4 /\ t[5] = b5
      /\ t[6] = b6 /\ t[7] = b7
  OBVIOUS
<1> HIDE DEF s, t
<1>2. PICK i \in 1..7 :
        /\ s[i] < t[i]
        /\ 1 < i => s[1] = t[1]
        /\ 2 < i => s[2] = t[2]
        /\ 3 < i => s[3] = t[3]
        /\ 4 < i => s[4] = t[4]
        /\ 5 < i => s[5] = t[5]
        /\ 6 < i => s[6] = t[6]
  BY <1>1
<1>3. \A j \in 1..(i - 1) : s[j] = t[j]
  <2> TAKE j \in 1..(i - 1)
  <2>1. j < i /\ (j = 1 \/ j = 2 \/ j = 3 \/ j = 4 \/ j = 5 \/ j = 6)
    OBVIOUS
  <2> QED
    BY <1>2, <2>1
<1> QED
  BY <1>2, <1>3 DEF Less, s, t

\* What a step of a change does to what it has left to do.
LEMMA StepDoes ==
  ASSUME PushInvariant, NEW w \in Writer, WriterStep(w)
  PROVE  \/ at[w] # "end" /\ at'[w] = "end"
         \/ at[w] = "clone" /\ at'[w] = "generate"
         \/ /\ at[w] = "generate" /\ at'[w] = "push"
            /\ made'[w] = made[w] + PerStage
         \/ at[w] \in Pushing /\ at'[w] = "generate" /\ made'[w] = made[w]
         \/ /\ at[w] = "fetch" /\ at'[w] = "push" /\ made'[w] = made[w]
            /\ attempt'[w] = attempt[w] + 1
         \/ /\ at[w] \in {"push", "send"} /\ at'[w] = "fetch"
            /\ made'[w] = made[w] /\ attempt'[w] = attempt[w]
         \/ /\ at[w] \in Pushing
            /\ at'[w] = IF at[w] = "fetch" THEN "fetch" ELSE "push"
            /\ made'[w] = made[w] /\ attempt'[w] = attempt[w]
            /\ failures'[w] = failures[w] + 1
         \/ /\ at[w] = "push" /\ at'[w] = "send" /\ made'[w] = made[w]
            /\ attempt'[w] = attempt[w] /\ failures'[w] = failures[w]
<1>1. /\ at \in [Writer -> {"clone", "generate", "push", "send", "fetch", "end"}]
      /\ made \in [Writer -> Nat] /\ attempt \in [Writer -> Nat]
      /\ failures \in [Writer -> Nat]
  BY DEF PushInvariant, PushTypeOK, Counter
<1> USE DEF Goto, EndChange, local, Pushing
<1>2. CASE Clone(w)
  BY <1>1, <1>2 DEF Clone
<1>3. CASE Generate(w)
  BY <1>1, <1>3 DEF Generate
<1>4. CASE AllPushed(w) \/ RefusedUnmoved(w) \/ RefusedAgain(w) \/ RebaseConflicts(w)
  BY <1>1, <1>4 DEF AllPushed, RefusedUnmoved, RefusedAgain, RebaseConflicts
<1>5. CASE AskBranch(w)
  BY <1>1, <1>5 DEF AskBranch
<1>6. CASE NothingToSend(w) \/ Taken(w)
  BY <1>1, <1>6 DEF NothingToSend, Taken, Pushed
<1>7. CASE Diverged(w) \/ SendRefused(w)
  BY <1>1, <1>7 DEF Diverged, SendRefused, Refused
<1>8. CASE TransportFails(w) \/ TakenUnanswered(w)
  <2>1. at[w] \in Pushing /\ InTransport(w)
    BY <1>8 DEF TransportFails, TakenUnanswered
  <2> QED
    BY <1>1, <2>1 DEF InTransport
<1>9. CASE Rebase(w)
  BY <1>1, <1>9 DEF Rebase
<1> QED
  BY <1>2, <1>3, <1>4, <1>5, <1>6, <1>7, <1>8, <1>9 DEF WriterStep, AnsweredStep

LEMMA StepIsLess ==
  ASSUME PushInvariant, NEW w \in Writer, WriterStep(w)
  PROVE  Less(ToDo(w)', ToDo(w))
<1>1. /\ at[w] \in {"clone", "generate", "push", "send", "fetch", "end"}
      /\ made[w] \in Nat /\ attempt[w] \in Nat /\ failures[w] \in Nat
      /\ PerStage \in Nat \ {0} /\ Stages * PerStage \in Nat
      /\ PushAttempts \in Nat /\ Retries \in Nat
  BY WholeChange, WholeIsNat DEF PushInvariant, PushTypeOK, Counter
<1> DEFINE
      all == Stages * PerStage
      Alive(p) == CASE p = "clone" -> 2 [] p = "end" -> 0 [] OTHER -> 1
      InPush(p) == IF p \in Pushing THEN 1 ELSE 0
      Unrefused(p) == IF p = "fetch" THEN 0 ELSE 1
      Asking(p) == IF p = "push" THEN 1 ELSE 0
<1>2. /\ ToDo(w) = <<Alive(at[w]), all - made[w], InPush(at[w]),
                     PushAttempts - attempt[w], Unrefused(at[w]),
                     Retries - failures[w], Asking(at[w])>>
      /\ ToDo(w)' = <<Alive(at'[w]), all - made'[w], InPush(at'[w]),
                      PushAttempts - attempt'[w], Unrefused(at'[w]),
                      Retries - failures'[w], Asking(at'[w])>>
  BY DEF ToDo, Pushing
<1> HIDE DEF all
<1>3. all \in Nat
  BY <1>1 DEF all
<1>4. \/ Alive(at'[w]) < Alive(at[w])
      \/ /\ Alive(at'[w]) = Alive(at[w])
         /\ \/ all - made'[w] < all - made[w]
            \/ /\ all - made'[w] = all - made[w]
               /\ \/ InPush(at'[w]) < InPush(at[w])
                  \/ /\ InPush(at'[w]) = InPush(at[w])
                     /\ \/ PushAttempts - attempt'[w] < PushAttempts - attempt[w]
                        \/ /\ PushAttempts - attempt'[w] = PushAttempts - attempt[w]
                           /\ \/ Unrefused(at'[w]) < Unrefused(at[w])
                              \/ /\ Unrefused(at'[w]) = Unrefused(at[w])
                                 /\ \/ Retries - failures'[w] < Retries - failures[w]
                                    \/ /\ Retries - failures'[w] = Retries - failures[w]
                                       /\ Asking(at'[w]) < Asking(at[w])
  BY <1>1, <1>3, StepDoes DEF Pushing
<1> HIDE DEF Alive, InPush, Unrefused, Asking
<1> QED
  BY <1>2, <1>4, LessIs

\* A step of one change leaves what others have to do.
LEMMA OthersToDo ==
  ASSUME PushInvariant, NEW v \in Writer, NEW w \in Writer, v # w, WriterStep(v)
  PROVE  ToDo(w)' = ToDo(w)
<1>1. at'[w] = at[w] /\ made'[w] = made[w] /\ attempt'[w] = attempt[w] /\ failures'[w] = failures[w]
  <2>1. /\ at \in [Writer -> {"clone", "generate", "push", "send", "fetch", "end"}]
        /\ made \in [Writer -> Nat] /\ attempt \in [Writer -> Nat]
        /\ failures \in [Writer -> Nat]
    BY DEF PushInvariant, PushTypeOK, Counter
  <2> USE DEF Goto, EndChange, local
  <2>2. CASE Clone(v)
    BY <2>1, <2>2 DEF Clone
  <2>3. CASE Generate(v)
    BY <2>1, <2>3 DEF Generate
  <2>4. CASE AllPushed(v) \/ RefusedUnmoved(v) \/ RefusedAgain(v) \/ RebaseConflicts(v)
    BY <2>1, <2>4 DEF AllPushed, RefusedUnmoved, RefusedAgain, RebaseConflicts
  <2>5. CASE AskBranch(v)
    BY <2>1, <2>5 DEF AskBranch
  <2>6. CASE NothingToSend(v) \/ Taken(v)
    BY <2>1, <2>6 DEF NothingToSend, Taken, Pushed
  <2>7. CASE Diverged(v) \/ SendRefused(v)
    BY <2>1, <2>7 DEF Diverged, SendRefused, Refused
  <2>8. CASE TransportFails(v) \/ TakenUnanswered(v)
    BY <2>1, <2>8 DEF TransportFails, TakenUnanswered, InTransport
  <2>9. CASE Rebase(v)
    BY <2>1, <2>9 DEF Rebase
  <2> QED
    BY <2>2, <2>3, <2>4, <2>5, <2>6, <2>7, <2>8, <2>9 DEF WriterStep, AnsweredStep
<1> QED
  BY <1>1 DEF ToDo

\* A change can only take so many steps, however the others move the branch and
\* whichever pushes, refusals and retries fall to it: each leaves it less to do,
\* and what other changes do leaves it no more (_push_manifests, _retry_transient).
THEOREM StepsAlwaysRunOut == PushSpec => StepsRunOut
<1>1. PushInvariant /\ [PushNext]_pushVars =>
        [ \A w \in Writer :
            IF WriterStep(w) THEN Less(ToDo(w)', ToDo(w))
            ELSE ToDo(w)' = ToDo(w) ]_pushVars
  <2> SUFFICES ASSUME PushInvariant, PushNext, pushVars' # pushVars, NEW w \in Writer
               PROVE  IF WriterStep(w) THEN Less(ToDo(w)', ToDo(w))
                      ELSE ToDo(w)' = ToDo(w)
    OBVIOUS
  <2>1. PICK v \in Writer : WriterStep(v)
    BY DEF PushNext, PushesEnded
  <2>2. CASE WriterStep(w)
    BY <2>2, StepIsLess
  <2>3. CASE ~WriterStep(w)
    BY <2>1, <2>3, OthersToDo
  <2> QED
    BY <2>2, <2>3
<1> QED
  BY <1>1, PushHolds, PTL DEF PushSpec, StepsRunOut

\* What is left to do is counted in numbers, of which none decreases for ever.
THEOREM ToDoIsCounted == PushSpec => [](\A w \in Writer : ToDo(w) \in [1..7 -> Nat])
<1>1. PushInvariant => \A w \in Writer : ToDo(w) \in [1..7 -> Nat]
  <2> SUFFICES ASSUME PushInvariant, NEW w \in Writer
               PROVE  ToDo(w) \in [1..7 -> Nat]
    OBVIOUS
  <2> DEFINE all == Stages * PerStage
  <2>1. /\ made[w] \in 0..all /\ all \in Nat /\ attempt[w] \in 0..PushAttempts
        /\ failures[w] \in 0..Retries
    BY WholeChange, WholeIsNat DEF PushInvariant, PushTypeOK, Counter
  <2> HIDE DEF all
  <2>2. /\ all - made[w] \in Nat /\ PushAttempts - attempt[w] \in Nat
        /\ Retries - failures[w] \in Nat
    BY <2>1
  <2> DEFINE a == CASE at[w] = "clone" -> 2 [] at[w] = "end" -> 0 [] OTHER -> 1
             b == IF at[w] \in Pushing THEN 1 ELSE 0
             c == IF at[w] = "fetch" THEN 0 ELSE 1
             d == IF at[w] = "push" THEN 1 ELSE 0
  <2>3. a \in Nat /\ b \in Nat /\ c \in Nat /\ d \in Nat
    OBVIOUS
  <2>4. ToDo(w) = <<a, all - made[w], b, PushAttempts - attempt[w], c,
                    Retries - failures[w], d>>
    BY DEF ToDo, all
  <2> HIDE DEF a, b, c, d
  <2> QED
    BY <2>2, <2>3, <2>4
<1> QED
  BY <1>1, PushHolds, PTL

-----------------------------------------------------------------------------
(***************************************************************************)
(* DeploymentWatch                                                         *)
(***************************************************************************)

USE ClusterAssumption

-----------------------------------------------------------------------------
(* The written object *)

LEMMA WrittenIsWorkload ==
  ASSUME ClusterTypeOK, written # Absent
  PROVE  /\ written \in Workload
         /\ written.generation \in 1..3 /\ written.observed \in 0..3
         /\ written.desired = Desired /\ written.partition \in Nat
         /\ written.updated \in 0..Desired /\ written.ready \in 0..Desired
         /\ written.replicas \in 0..(2 * Desired)
         /\ written.available \in 0..(2 * Desired)
         /\ written.id \in {"old", "ours", "newer"}
         /\ written.paused \in BOOLEAN /\ written.onDelete \in BOOLEAN
         /\ written.exceeded \in BOOLEAN /\ written.current \in BOOLEAN
  BY DEF ClusterTypeOK, Workload

LEMMA PodsAreCounts ==
  ASSUME ClusterTypeOK
  PROVE  pods.old \in 0..Desired /\ pods.new \in 0..Desired /\ pods.ready \in 0..Desired
  BY DEF ClusterTypeOK

LEMMA WorkloadIsPresent == \A obj \in Workload : obj # Absent
  BY DEF Workload, Absent

\* A status report fills in what the pods are and leaves the spec alone.
LEMMA ReportWrites ==
  ASSUME ClusterTypeOK, ReportStatus
  PROVE  /\ written # Absent /\ written.id # "newer" /\ ~written.paused
         /\ kind # "manifest-id"
         /\ written' \in Workload
         /\ written'.id = written.id /\ written'.generation = written.generation
         /\ written'.paused = written.paused /\ written'.desired = written.desired
         /\ written'.partition = written.partition
         /\ written'.onDelete = written.onDelete
         /\ written'.observed = written.generation
         /\ written'.updated = pods.new /\ written'.replicas = pods.old + pods.new
         /\ written'.available = Ready(pods) /\ written'.ready = pods.ready
         /\ gaveUp' = IF written'.exceeded THEN written.generation ELSE gaveUp
         /\ UNCHANGED <<kind, removed, pods, served, rolledOut>>
<1>1. PICK exceeded \in BOOLEAN, current_ \in BOOLEAN :
        /\ written' = [written EXCEPT
             !.observed = written.generation, !.exceeded = exceeded,
             !.updated = pods.new, !.replicas = pods.old + pods.new,
             !.available = Ready(pods), !.ready = pods.ready,
             !.current = current_]
        /\ gaveUp' = IF exceeded THEN written.generation ELSE gaveUp
  BY DEF ReportStatus
<1>2. /\ written # Absent /\ written.id # "newer" /\ ~written.paused
      /\ kind # "manifest-id"
      /\ UNCHANGED <<kind, removed, pods, served, rolledOut>>
  BY DEF ReportStatus, RollsOut
<1>3. written \in Workload
  BY <1>2, WrittenIsWorkload
<1>4. /\ pods.new \in 0..Desired /\ pods.ready \in 0..Desired
      /\ pods.old + pods.new \in 0..(2 * Desired)
      /\ Ready(pods) \in 0..(2 * Desired)
      /\ written.generation \in 0..3
  BY <1>2, PodsAreCounts, WrittenIsWorkload DEF Ready
<1> HIDE DEF Ready
<1>5. written' \in Workload
  BY <1>1, <1>3, <1>4 DEF Workload
<1> QED
  BY <1>1, <1>2, <1>3, <1>5 DEF Workload

\* A write makes a generation that no status speaks of yet, or leaves all but
\* the manifest-id as it was.
SameButId(obj, other) ==
  /\ obj.generation = other.generation /\ obj.paused = other.paused
  /\ obj.desired = other.desired /\ obj.partition = other.partition
  /\ obj.onDelete = other.onDelete /\ obj.observed = other.observed
  /\ obj.exceeded = other.exceeded /\ obj.updated = other.updated
  /\ obj.replicas = other.replicas /\ obj.available = other.available
  /\ obj.ready = other.ready /\ obj.current = other.current

\* A workload before the change writes it: as an earlier one left it, or none.
Before ==
  [id : {"old"}, generation : 0..1, paused : {FALSE}, desired : {Desired},
   partition : {0}, onDelete : {FALSE}, observed : 0..1, exceeded : BOOLEAN,
   updated : 0..Desired, replicas : 0..(2 * Desired),
   available : 0..(2 * Desired), ready : 0..Desired, current : BOOLEAN]

LEMMA BeforeHas ==
  ASSUME NEW observed \in 0..1, NEW exceeded \in BOOLEAN, NEW updated \in 0..Desired,
         NEW replicas \in 0..(2 * Desired), NEW available \in 0..(2 * Desired),
         NEW ready \in 0..Desired, NEW current_ \in BOOLEAN
  PROVE  [id |-> "old", generation |-> 1, paused |-> FALSE, desired |-> Desired,
          partition |-> 0, onDelete |-> FALSE, observed |-> observed,
          exceeded |-> exceeded, updated |-> updated, replicas |-> replicas,
          available |-> available, ready |-> ready, current |-> current_] \in Before
  BY DEF Before

LEMMA OldIsBefore ==
  ASSUME NEW obj \in Workload, obj.id = "old", obj.generation = 1, ~obj.paused,
         obj.partition = 0, ~obj.onDelete, obj.observed <= obj.generation
  PROVE  obj \in Before /\ obj.observed <= obj.generation
<1>1. obj.observed \in 0..1
  BY DEF Workload
<1>2. /\ obj.desired = Desired /\ obj.exceeded \in BOOLEAN
      /\ obj.updated \in 0..Desired /\ obj.replicas \in 0..(2 * Desired)
      /\ obj.available \in 0..(2 * Desired) /\ obj.ready \in 0..Desired
      /\ obj.current \in BOOLEAN /\ obj.paused = FALSE /\ obj.onDelete = FALSE
  BY DEF Workload
<1>3. obj = [id |-> obj.id, generation |-> obj.generation, paused |-> obj.paused,
             desired |-> obj.desired, partition |-> obj.partition,
             onDelete |-> obj.onDelete, observed |-> obj.observed,
             exceeded |-> obj.exceeded, updated |-> obj.updated,
             replicas |-> obj.replicas, available |-> obj.available,
             ready |-> obj.ready, current |-> obj.current]
  BY DEF Workload
<1>4. obj = [id |-> "old", generation |-> 1, paused |-> FALSE, desired |-> Desired,
             partition |-> 0, onDelete |-> FALSE, observed |-> obj.observed,
             exceeded |-> obj.exceeded, updated |-> obj.updated,
             replicas |-> obj.replicas, available |-> obj.available,
             ready |-> obj.ready, current |-> obj.current]
  BY <1>2, <1>3
<1> QED
  BY <1>1, <1>2, <1>4, BeforeHas

LEMMA AppliedIs ==
  ASSUME NEW obj \in Before, NEW bump \in BOOLEAN, NEW paused \in BOOLEAN,
         NEW partition \in Partitions, NEW onDelete \in BOOLEAN,
         NEW next, next = IF bump THEN obj.generation + 1 ELSE obj.generation,
         next \in 1..2
  PROVE  LET new == Applied(obj, bump, paused, partition, onDelete)
         IN  /\ new \in Workload
             /\ new.id = "ours" /\ new.generation = next /\ new.paused = paused
             /\ new.partition = partition /\ new.onDelete = onDelete
             /\ new.desired = obj.desired /\ new.observed = obj.observed
             /\ new.exceeded = obj.exceeded /\ new.updated = obj.updated
             /\ new.replicas = obj.replicas /\ new.available = obj.available
             /\ new.ready = obj.ready /\ new.current = obj.current
<1> DEFINE new == Applied(obj, bump, paused, partition, onDelete)
<1>1. new = [obj EXCEPT !.id = "ours", !.generation = next, !.paused = paused,
                        !.partition = partition, !.onDelete = onDelete]
  BY DEF Applied
<1>2. new = [id |-> "ours", generation |-> next, paused |-> paused,
             desired |-> obj.desired, partition |-> partition,
             onDelete |-> onDelete, observed |-> obj.observed,
             exceeded |-> obj.exceeded, updated |-> obj.updated,
             replicas |-> obj.replicas, available |-> obj.available,
             ready |-> obj.ready, current |-> obj.current]
  BY <1>1 DEF Before
<1> HIDE DEF new
<1>3. new \in Workload
  BY <1>2 DEF Before, Workload
<1>4. /\ new.id = "ours" /\ new.generation = next /\ new.paused = paused
      /\ new.partition = partition /\ new.onDelete = onDelete
      /\ new.desired = obj.desired /\ new.observed = obj.observed
      /\ new.exceeded = obj.exceeded /\ new.updated = obj.updated
      /\ new.replicas = obj.replicas /\ new.available = obj.available
      /\ new.ready = obj.ready /\ new.current = obj.current
  BY <1>2
<1> QED
  BY <1>3, <1>4 DEF new

LEMMA WriteWrites ==
  ASSUME ClusterTypeOK, Generations, Write
  PROVE  /\ written = Absent \/ written.id = "old"
         /\ written' \in Workload
         /\ written'.id = "ours" /\ written'.generation \in 1..2
         /\ written'.observed <= written'.generation
         /\ written'.exceeded =>
              /\ written # Absent /\ written.exceeded
              /\ written'.observed = written.observed
         /\ \/ written'.observed < written'.generation
            \/ /\ written # Absent
               /\ rolledOut => rolledOut'
               /\ SameButId(written', written)
         /\ PodsAsAsked(pods', written') => rolledOut'
         /\ pods' \in [old : 0..Desired, new : 0..Desired, ready : 0..Desired]
         /\ rolledOut' \in BOOLEAN
         /\ UNCHANGED <<kind, removed, served, gaveUp>>
<1> DEFINE before == IF written = Absent THEN Fresh ELSE written
<1> HIDE DEF before
<1>1. PICK template \in BOOLEAN, bump \in BOOLEAN, onDelete \in BOOLEAN,
           paused \in BOOLEAN, partition \in Partitions :
        /\ template \/ onDelete \/ paused \/ partition > 0 => bump
        /\ written = Absent => template
        /\ written' = Applied(before, bump, paused, partition, onDelete)
        /\ pods' = IF template /\ written # Absent
                     THEN [old |-> Desired, new |-> 0, ready |->
                             IF kind = "deployment" THEN 0 ELSE pods.ready]
                     ELSE pods
        /\ rolledOut' = (\/ rolledOut /\ ~template
                         \/ PodsAsAsked(pods', written'))
  BY DEF Write, before
<1>2. /\ written = Absent \/ written.id = "old"
      /\ UNCHANGED <<kind, removed, served, gaveUp>>
  BY DEF Write
<1>3. pods' \in [old : 0..Desired, new : 0..Desired, ready : 0..Desired]
  BY <1>1 DEF ClusterTypeOK
<1>4. PodsAsAsked(pods', written') => rolledOut'
  BY <1>1
<1>5. rolledOut' \in BOOLEAN
  BY <1>1
<1>6. partition \in Nat
  BY <1>1
<1>7. before \in Before /\ before.observed <= before.generation
  <2>1. CASE written = Absent
    BY <2>1 DEF Fresh, before, Before
  <2>2. CASE written # Absent
    <3>1. /\ written \in Workload /\ written.id = "old" /\ written.generation = 1
          /\ ~written.paused /\ written.partition = 0 /\ ~written.onDelete
          /\ written.observed <= written.generation
      BY <1>2, <2>2, WrittenIsWorkload DEF Generations
    <3> QED
      BY <2>2, <3>1, OldIsBefore DEF before
  <2> QED
    BY <2>1, <2>2
<1>8. written = Absent => before = Fresh /\ bump /\ ~before.exceeded /\ before.generation = 0
  BY <1>1 DEF Fresh, before
<1>9. written # Absent => before = written /\ before.generation = 1
  BY <1>2 DEF Generations, before
<1> DEFINE next == IF bump THEN before.generation + 1 ELSE before.generation
<1>10. next \in 1..2 /\ before.observed <= next /\ (bump => before.observed < next)
  BY <1>7, <1>8, <1>9 DEF Before
<1> HIDE DEF next
<1>13. /\ written' \in Workload
       /\ written'.id = "ours" /\ written'.generation = next
       /\ written'.paused = paused /\ written'.partition = partition
       /\ written'.onDelete = onDelete
       /\ written'.desired = before.desired /\ written'.observed = before.observed
       /\ written'.exceeded = before.exceeded /\ written'.updated = before.updated
       /\ written'.replicas = before.replicas
       /\ written'.available = before.available
       /\ written'.ready = before.ready /\ written'.current = before.current
  BY <1>1, <1>7, <1>10, AppliedIs DEF next
<1>14. CASE bump
  BY <1>2, <1>3, <1>4, <1>5, <1>8, <1>9, <1>10, <1>13, <1>14
<1>15. CASE ~bump
  <2>1. ~template /\ ~onDelete /\ ~paused /\ partition = 0
    BY <1>1, <1>6, <1>15
  <2>2. written # Absent /\ before = written /\ next = before.generation
    BY <1>8, <1>9, <1>15 DEF next
  <2>3. before.paused = FALSE /\ before.partition = 0 /\ before.onDelete = FALSE
    BY <1>7 DEF Before
  <2>4. SameButId(written', written)
    BY <1>13, <2>1, <2>2, <2>3 DEF SameButId
  <2>5. rolledOut => rolledOut'
    BY <1>1, <2>1
  <2> QED
    BY <1>2, <1>3, <1>4, <1>5, <1>10, <1>13, <2>2, <2>4, <2>5
<1> QED
  BY <1>14, <1>15

LEMMA SupersedeWrites ==
  ASSUME ClusterTypeOK, Generations, Supersede
  PROVE  /\ written # Absent /\ written.id = "ours"
         /\ written' \in Workload
         /\ written'.id = "newer" /\ written'.generation = written.generation + 1
         /\ written'.paused = written.paused /\ written'.desired = written.desired
         /\ written'.partition = written.partition
         /\ written'.onDelete = written.onDelete
         /\ written'.observed = written.observed
         /\ written'.exceeded = written.exceeded
         /\ UNCHANGED <<kind, removed, pods, served, rolledOut, gaveUp>>
<1> DEFINE next == written.generation + 1
<1>1. /\ written # Absent /\ written.id = "ours"
      /\ written' = [written EXCEPT !.id = "newer", !.generation = next]
      /\ UNCHANGED <<kind, removed, pods, served, rolledOut, gaveUp>>
  BY DEF Supersede
<1>2. written \in Workload /\ next \in 1..3
  BY <1>1, WrittenIsWorkload DEF Generations
<1> HIDE DEF next
<1>3. written' \in Workload
  BY <1>1, <1>2 DEF Workload
<1>4. /\ written'.id = "newer" /\ written'.generation = next
      /\ written'.paused = written.paused /\ written'.desired = written.desired
      /\ written'.partition = written.partition
      /\ written'.onDelete = written.onDelete
      /\ written'.observed = written.observed
      /\ written'.exceeded = written.exceeded
  BY <1>1, <1>2 DEF Workload
<1> QED
  BY <1>1, <1>3, <1>4 DEF next

LEMMA PodsRun ==
  ASSUME ClusterTypeOK, RunPods
  PROVE  /\ written # Absent
         /\ pods' \in [old : 0..Desired, new : 0..Desired, ready : 0..Desired]
         /\ rolledOut' = (rolledOut \/ PodsAsAsked(pods', written))
         /\ UNCHANGED <<kind, written, removed, served, gaveUp>>
<1> DEFINE Pods == [old : 0..Desired, new : 0..Desired, ready : 0..Desired]
<1>1. /\ written # Absent
      /\ rolledOut' = (rolledOut \/ PodsAsAsked(pods', written))
      /\ UNCHANGED <<kind, written, removed, served, gaveUp>>
  BY DEF RunPods, RollsOut
<1>2. pods \in Pods
  BY DEF ClusterTypeOK
<1>3. Covered(written) \in 0..Desired
  BY <1>1, WrittenIsWorkload DEF Covered
<1> HIDE DEF Covered
<1>4. CASE pods.new < Desired /\ pods' = [pods EXCEPT !.new = @ + 1]
  BY <1>1, <1>2, <1>4
<1>5. CASE pods.old > 0 /\ pods' = [pods EXCEPT !.old = @ - 1]
  BY <1>1, <1>2, <1>5
<1>6. CASE /\ pods.new < Covered(written) \/ pods.old + pods.new < Desired
           /\ pods' = [old   |-> IF pods.old > 0 THEN pods.old - 1 ELSE 0,
                       new   |-> pods.new + 1,
                       ready |-> IF pods.ready > 0 THEN pods.ready - 1 ELSE 0]
  BY <1>1, <1>2, <1>3, <1>6
<1>7. CASE pods.ready < Desired /\ pods' = [pods EXCEPT !.ready = @ + 1]
  BY <1>1, <1>2, <1>7
<1>8. CASE pods.ready > 0 /\ pods' = [pods EXCEPT !.ready = @ - 1]
  BY <1>1, <1>2, <1>8
<1> QED
  BY <1>4, <1>5, <1>6, <1>7, <1>8 DEF RunPods

-----------------------------------------------------------------------------
(* What the cluster does keeps what is known of it *)

LEMMA ClusterTypeKept ==
  ASSUME ClusterTypeOK, Generations, ClusterStep
  PROVE  ClusterTypeOK' /\ kind' = kind /\ (removed = Absent => removed' = Absent)
<1>1. CASE Write
  BY <1>1, WriteWrites DEF ClusterTypeOK
<1>2. CASE Supersede
  BY <1>2, SupersedeWrites DEF ClusterTypeOK
<1>3. CASE RemoveObject
  BY <1>3 DEF RemoveObject, ClusterTypeOK
<1>4. CASE Serve
  BY <1>4 DEF Serve, ClusterTypeOK, Object
<1>5. CASE RunPods
  BY <1>5, PodsRun DEF ClusterTypeOK
<1>6. CASE ReportStatus
  <2>1. written.generation \in 0..2
    BY <1>6, ReportWrites, WrittenIsWorkload DEF Generations
  <2> QED
    BY <1>6, <2>1, ReportWrites DEF ClusterTypeOK
<1> QED
  BY <1>1, <1>2, <1>3, <1>4, <1>5, <1>6 DEF ClusterStep

LEMMA GenerationsKept ==
  ASSUME ClusterTypeOK, Generations, ClusterStep
  PROVE  Generations'
<1>1. CASE Write
  BY <1>1, WriteWrites DEF Generations
<1>2. CASE Supersede
  BY <1>2, SupersedeWrites, WrittenIsWorkload DEF Generations
<1>3. CASE RemoveObject \/ Serve
  BY <1>3 DEF RemoveObject, Serve, Generations
<1>4. CASE RunPods
  BY <1>4, PodsRun DEF Generations
<1>5. CASE ReportStatus
  BY <1>5, ReportWrites, WrittenIsWorkload DEF Generations
<1> QED
  BY <1>1, <1>2, <1>3, <1>4, <1>5 DEF ClusterStep

LEMMA ExceededKept ==
  ASSUME ClusterTypeOK, Generations, ExceededGaveUp, ClusterStep
  PROVE  ExceededGaveUp'
<1>1. CASE Write
  BY <1>1, WriteWrites DEF ExceededGaveUp
<1>2. CASE Supersede
  BY <1>2, SupersedeWrites DEF ExceededGaveUp
<1>3. CASE RemoveObject \/ Serve
  BY <1>3 DEF RemoveObject, Serve, ExceededGaveUp
<1>4. CASE RunPods
  BY <1>4, PodsRun DEF ExceededGaveUp
<1>5. CASE ReportStatus
  BY <1>5, ReportWrites, WrittenIsWorkload DEF ExceededGaveUp
<1> QED
  BY <1>1, <1>2, <1>3, <1>4, <1>5 DEF ClusterStep

\* What the object asks of its pods depends on nothing of its status.
LEMMA AsksAsBefore ==
  ASSUME NEW p, NEW obj, NEW other, obj.desired = other.desired,
         obj.partition = other.partition, obj.onDelete = other.onDelete
  PROVE  PodsAsAsked(p, obj) = PodsAsAsked(p, other)
  BY DEF PodsAsAsked, Covered

LEMMA ReportedIsAsked ==
  ASSUME ClusterTypeOK, ReportStatus
  PROVE  /\ kind = "deployment" /\ DeploymentProgress(written') = "complete" =>
              PodsAsAsked(pods, written)
         /\ kind = "statefulset" /\ StatefulSetProgress(written') = "complete" =>
              PodsAsAsked(pods, written)
<1> DEFINE new == written'
<1>1. /\ written # Absent
      /\ new.desired = Desired /\ new.partition = written.partition
      /\ new.onDelete = written.onDelete
      /\ new.updated = pods.new /\ new.replicas = pods.old + pods.new
      /\ new.available = Ready(pods) /\ new.ready = pods.ready
  BY ReportWrites, WrittenIsWorkload
<1>2. /\ written.desired = Desired /\ written.partition \in Nat
      /\ pods.old \in 0..Desired /\ pods.new \in 0..Desired /\ pods.ready \in 0..Desired
  BY <1>1, PodsAreCounts, WrittenIsWorkload
<1> HIDE DEF new
<1>3. ASSUME kind = "deployment", DeploymentProgress(new) = "complete"
      PROVE  PodsAsAsked(pods, written)
  <2>1. new.updated >= Desired /\ new.replicas <= new.updated /\ new.available >= new.updated
    BY <1>1, <1>2, <1>3 DEF DeploymentProgress, Ready
  <2>2. pods.old = 0 /\ pods.new = Desired /\ pods.ready = Desired
    BY <1>1, <1>2, <1>3, <2>1 DEF Ready
  <2> QED
    BY <1>3, <2>2 DEF PodsAsAsked
<1>4. ASSUME kind = "statefulset", StatefulSetProgress(new) = "complete"
      PROVE  PodsAsAsked(pods, written)
  <2>1. new.onDelete \/ (new.ready >= Desired /\ new.updated >= Covered(new))
    <3>1. Covered(new) \in Nat
      BY <1>1, <1>2 DEF Covered
    <3> QED
      BY <1>1, <1>2, <1>4, <3>1 DEF StatefulSetProgress
  <2>2. Covered(new) = Covered(written)
    BY <1>1, <1>2 DEF Covered
  <2> QED
    BY <1>1, <1>2, <1>4, <2>1, <2>2 DEF PodsAsAsked
<1> QED
  BY <1>3, <1>4 DEF new

LEMMA UnobservedIsPending ==
  ASSUME NEW obj, obj.observed < obj.generation
  PROVE  DeploymentProgress(obj) # "complete" /\ StatefulSetProgress(obj) # "complete"
  BY DEF DeploymentProgress, StatefulSetProgress

LEMMA AsAskedKept ==
  ASSUME ClusterTypeOK, Generations, AsAskedIsRolledOut, ClusterStep
  PROVE  AsAskedIsRolledOut'
<1>1. CASE Write
  <2>1. PodsAsAsked(pods, written)' => rolledOut'
    BY <1>1, WriteWrites DEF PodsAsAsked
  <2>2. CASE written'.observed < written'.generation
    BY <1>1, <2>1, <2>2, UnobservedIsPending DEF AsAskedIsRolledOut
  <2>3. CASE written # Absent /\ (rolledOut => rolledOut') /\ SameButId(written', written)
    <3>1. DeploymentProgress(written') = DeploymentProgress(written)
      BY <2>3 DEF SameButId, DeploymentProgress
    <3>2. StatefulSetProgress(written') = StatefulSetProgress(written)
      BY <2>3 DEF SameButId, StatefulSetProgress, Covered
    <3>3. kind' = kind
      BY <1>1, WriteWrites
    <3> QED
      BY <2>1, <2>3, <3>1, <3>2, <3>3 DEF AsAskedIsRolledOut
  <2> QED
    BY <1>1, <2>2, <2>3, WriteWrites
<1>2. CASE Supersede
  <2>1. /\ written # Absent /\ kind' = kind /\ pods' = pods /\ rolledOut' = rolledOut
        /\ written'.desired = written.desired
        /\ written'.partition = written.partition
        /\ written'.onDelete = written.onDelete
        /\ written'.observed < written'.generation
    BY <1>2, SupersedeWrites, WrittenIsWorkload DEF Generations
  <2>2. PodsAsAsked(pods, written)' = PodsAsAsked(pods, written)
    BY <2>1 DEF PodsAsAsked, Covered
  <2> QED
    BY <2>1, <2>2, UnobservedIsPending DEF AsAskedIsRolledOut
<1>3. CASE RemoveObject \/ Serve
  BY <1>3 DEF RemoveObject, Serve, AsAskedIsRolledOut, PodsAsAsked
<1>4. CASE RunPods
  <2>1. PodsAsAsked(pods, written)' = PodsAsAsked(pods', written)
    BY <1>4, PodsRun DEF PodsAsAsked
  <2> QED
    BY <1>4, <2>1, PodsRun DEF AsAskedIsRolledOut
<1>5. CASE ReportStatus
  <2>1. /\ written # Absent /\ kind' = kind /\ pods' = pods /\ rolledOut' = rolledOut
        /\ written'.desired = written.desired
        /\ written'.partition = written.partition
        /\ written'.onDelete = written.onDelete
    BY <1>5, ReportWrites
  <2>2. PodsAsAsked(pods, written)' = PodsAsAsked(pods, written)
    BY <2>1 DEF PodsAsAsked, Covered
  <2> QED
    BY <1>5, <2>1, <2>2, ReportedIsAsked DEF AsAskedIsRolledOut
<1> QED
  BY <1>1, <1>2, <1>3, <1>4, <1>5 DEF ClusterStep

\* Once the write has landed and been rolled out, or been given up on, it stays so.
LEMMA LandedKept ==
  ASSUME ClusterTypeOK, Generations, ClusterStep, Landed
  PROVE  Landed'
<1>1. CASE Write
  BY <1>1 DEF Write, Landed
<1>2. CASE Supersede
  BY <1>2, SupersedeWrites, WorkloadIsPresent DEF Landed
<1>3. CASE RemoveObject \/ Serve
  BY <1>3 DEF RemoveObject, Serve, Landed
<1>4. CASE RunPods
  BY <1>4, PodsRun DEF Landed
<1>5. CASE ReportStatus
  BY <1>5, ReportWrites, WorkloadIsPresent DEF Landed
<1> QED
  BY <1>1, <1>2, <1>3, <1>4, <1>5 DEF ClusterStep

LEMMA AbandonedKept ==
  ASSUME ClusterTypeOK, Generations, ClusterStep, Abandoned
  PROVE  Abandoned'
<1>1. CASE Write
  BY <1>1 DEF Write, Abandoned
<1>2. CASE Supersede
  BY <1>2, SupersedeWrites, WorkloadIsPresent, WrittenIsWorkload
  DEF Abandoned, OwnGeneration
<1>3. CASE RemoveObject \/ Serve
  BY <1>3 DEF RemoveObject, Serve, Abandoned, OwnGeneration
<1>4. CASE RunPods
  BY <1>4, PodsRun DEF Abandoned, OwnGeneration
<1>5. CASE ReportStatus
  BY <1>5, ReportWrites, WorkloadIsPresent, WrittenIsWorkload
  DEF Abandoned, OwnGeneration
<1> QED
  BY <1>1, <1>2, <1>3, <1>4, <1>5 DEF ClusterStep

-----------------------------------------------------------------------------
(* What a verdict on the object as it is means *)

ClusterInvariant ==
  ClusterTypeOK /\ Generations /\ ExceededGaveUp /\ AsAskedIsRolledOut

LEMMA ClusterKept == ClusterInvariant /\ ClusterStep => ClusterInvariant'
  BY ClusterTypeKept, GenerationsKept, ExceededKept, AsAskedKept
  DEF ClusterInvariant

LEMMA ProgressIsVerdict ==
  ASSUME NEW goal \in Goals, NEW obj
  PROVE  Progress(goal, obj) \in Verdict
  BY DEF Progress, Goals, Verdict, DeploymentProgress, StatefulSetProgress

LEMMA VerdictsTyped ==
  ClusterTypeOK /\ current \in Object => Verdicts(current) \in Verdict
<1> SUFFICES ASSUME ClusterTypeOK, current \in Object
             PROVE  Verdicts(current) \in Verdict
  OBVIOUS
<1>1. Goal(current) \in Goals
  BY DEF Goal, ClusterTypeOK, Goals
<1> QED
  BY <1>1, ProgressIsVerdict DEF Verdicts

LEMMA WrittenMeans ==
  ASSUME ClusterInvariant
  PROVE  /\ Verdicts("written") = "complete" => Landed
         /\ Verdicts("written") = "failed" => Abandoned
         /\ written = Absent => Verdicts("written") = "pending"
<1>1. kind \in {"manifest-id", "deployment", "statefulset"}
  BY DEF ClusterInvariant, ClusterTypeOK, Goals
<1>2. Verdicts("written") =
        IF written.id # "ours" THEN "pending"
        ELSE CASE kind = "manifest-id" -> "complete"
               [] kind = "deployment"  -> DeploymentProgress(written)
               [] kind = "statefulset" -> StatefulSetProgress(written)
  BY <1>1 DEF Verdicts, Goal, Stored, Progress, ManifestIdProgress
<1>3. written = Absent => written.id # "ours"
  BY DEF Absent
<1>4. ASSUME Verdicts("written") = "complete"
      PROVE  Landed
  <2>1. written.id = "ours" /\ written # Absent
    BY <1>2, <1>3, <1>4
  <2>2. CASE kind = "manifest-id"
    BY <2>1, <2>2 DEF Landed, ClusterInvariant, AsAskedIsRolledOut, PodsAsAsked
  <2>3. CASE kind = "deployment"
    BY <1>2, <1>4, <2>1, <2>3 DEF Landed, ClusterInvariant, AsAskedIsRolledOut
  <2>4. CASE kind = "statefulset"
    BY <1>2, <1>4, <2>1, <2>4 DEF Landed, ClusterInvariant, AsAskedIsRolledOut
  <2> QED
    BY <1>1, <2>2, <2>3, <2>4
<1>5. ASSUME Verdicts("written") = "failed"
      PROVE  Abandoned
  <2>1. written.id = "ours" /\ written # Absent
    BY <1>2, <1>3, <1>5
  <2>2. kind = "deployment" /\ DeploymentProgress(written) = "failed"
    BY <1>1, <1>2, <1>5, <2>1 DEF StatefulSetProgress
  <2>3. \/ written.paused
        \/ written.exceeded /\ ~(written.observed < written.generation)
    BY <2>2 DEF DeploymentProgress
  <2>4. /\ written.observed \in Nat /\ written.generation \in Nat
        /\ gaveUp \in Nat
    BY <2>1, WrittenIsWorkload DEF ClusterInvariant, ClusterTypeOK
  <2>5. written.paused \/ gaveUp >= written.generation
    BY <2>1, <2>3, <2>4 DEF ClusterInvariant, ExceededGaveUp
  <2> QED
    BY <2>1, <2>2, <2>5 DEF Abandoned, OwnGeneration
<1> QED
  BY <1>2, <1>3, <1>4, <1>5

LEMMA VerdictsMeanIt ==
  ClusterInvariant /\ current \in Object => VerdictMeans(Verdicts(current))
<1> SUFFICES ASSUME ClusterInvariant, current \in Object
             PROVE  VerdictMeans(Verdicts(current))
  OBVIOUS
<1>1. CASE current = "written"
  BY <1>1, WrittenMeans DEF VerdictMeans
<1>2. CASE current = "removed"
  <2>1. Verdicts(current) = IF removed = Absent THEN "complete" ELSE "pending"
    BY <1>2 DEF Verdicts, Goal, Stored, Progress
  <2> QED
    BY <1>2, <2>1 DEF VerdictMeans
<1> QED
  BY <1>1, <1>2 DEF Object

LEMMA PendingMeansNothing == VerdictMeans("pending")
  BY DEF VerdictMeans

LEMMA MeaningKept ==
  ASSUME ClusterInvariant, ClusterStep, UNCHANGED current,
         NEW verdict, VerdictMeans(verdict)
  PROVE  /\ verdict = "complete" =>
              IF current = "written" THEN Landed' ELSE removed' = Absent
         /\ verdict = "failed" => current = "written" /\ Abandoned'
<1>1. /\ Landed => Landed'
      /\ Abandoned => Abandoned'
      /\ removed = Absent => removed' = Absent
  BY LandedKept, AbandonedKept, ClusterTypeKept DEF ClusterInvariant
<1> QED
  BY <1>1 DEF VerdictMeans

LEMMA WatchInit == Init => WatchInvariant
<1> SUFFICES ASSUME Init PROVE WatchInvariant
  OBVIOUS
<1>0. /\ Desired \in 0..Desired /\ Desired \in 0..(2 * Desired)
      /\ 1 + Desired \in 0..(2 * Desired) /\ 1 \in 0..Desired /\ 0 \in Partitions
  OBVIOUS
<1>1. Complete \in Workload /\ Complete # Absent
  <2>1. Complete \in Workload
    BY <1>0 DEF Complete, Left, Workload
  <2> QED
    BY <2>1, WorkloadIsPresent
<1>2. GivenUp = [id |-> "old", generation |-> 1, paused |-> FALSE, desired |-> Desired,
        partition |-> 0, onDelete |-> FALSE, observed |-> 1, exceeded |-> TRUE,
        updated |-> 1, replicas |-> 1 + Desired, available |-> Desired,
        ready |-> Desired, current |-> TRUE]
  BY DEF GivenUp, Left
<1>3. GivenUp \in Workload /\ GivenUp # Absent /\ GivenUp # Complete
  <2>1. GivenUp \in Workload
    BY <1>0, <1>2 DEF Workload
  <2>2. GivenUp.exceeded # Complete.exceeded
    BY <1>2 DEF Complete, Left
  <2> QED
    BY <2>1, <2>2, WorkloadIsPresent
<1>4. ClusterTypeOK
  <2>1. written \in Workload \union {Absent}
    BY <1>1, <1>3 DEF Init, ClusterInit
  <2>2. pods \in [old : 0..Desired, new : 0..Desired, ready : 0..Desired]
    BY <1>0 DEF Init, ClusterInit
  <2> QED
    BY <2>1, <2>2 DEF Init, ClusterInit, ClusterTypeOK
<1>5. Generations
  BY <1>1, <1>2, <1>3 DEF Init, ClusterInit, Generations, Complete, Left
<1>6. ExceededGaveUp
  BY <1>1, <1>2, <1>3 DEF Init, ClusterInit, ExceededGaveUp, Complete, Left
<1>7. AsAskedIsRolledOut
  <2>1. CASE written = Absent
    BY <2>1 DEF AsAskedIsRolledOut
  <2>2. CASE written = Complete
    BY <2>2 DEF Init, ClusterInit, AsAskedIsRolledOut
  <2>3. CASE /\ kind = "deployment" /\ written = GivenUp
             /\ pods = [old |-> Desired, new |-> 1, ready |-> 0]
    <3>1. ~PodsAsAsked(pods, written)
      BY <2>3 DEF PodsAsAsked
    <3>2. DeploymentProgress(written) = "failed"
      BY <1>2, <2>3 DEF DeploymentProgress
    <3> QED
      BY <2>3, <3>1, <3>2 DEF AsAskedIsRolledOut
  <2> QED
    BY <2>1, <2>2, <2>3 DEF Init, ClusterInit
<1>8. TypeOK
  BY <1>4 DEF Init, TypeOK, Object, Verdict, Outcome
<1> QED
  BY <1>5, <1>6, <1>7, <1>8
  DEF Init, WatchInvariant, VerdictsMean, OnTimeIsFound, InPlaceIsNotLate,
      WatchMissesNoWrite

-----------------------------------------------------------------------------
(* The detector's steps *)

LEMMA SameCluster ==
  ASSUME UNCHANGED clusterVars
  PROVE  /\ ClusterInvariant => ClusterInvariant'
         /\ Landed => Landed'
         /\ Abandoned => Abandoned'
         /\ AllInPlace => AllInPlace'
         /\ Verdicts("written")' = Verdicts("written")
         /\ removed' = removed
<1> USE DEF clusterVars
<1>1. ClusterInvariant => ClusterInvariant'
  BY DEF ClusterInvariant, ClusterTypeOK, Generations, ExceededGaveUp,
         AsAskedIsRolledOut, PodsAsAsked
<1>2. (Landed => Landed') /\ (Abandoned => Abandoned')
  BY DEF Landed, Abandoned, OwnGeneration
<1>3. Verdicts("written")' = Verdicts("written")
  BY DEF Verdicts, Goal, Stored
<1>4. AllInPlace => AllInPlace'
  BY DEF AllInPlace, Verdicts, Goal, Stored
<1> QED
  BY <1>1, <1>2, <1>3, <1>4

\* How a settled wait goes on.
LEMMA SettleGoesOn ==
  ASSUME NEW verdict \in Verdict, verdict # "pending", current \in Object,
         Settle(verdict)
  PROVE  \/ /\ verdict = "failed" /\ pc' = "end" /\ outcome' = "givenUp"
            /\ current' = current
         \/ /\ verdict = "complete" /\ current = "removed"
            /\ pc' = "end" /\ outcome' = "ok" /\ current' = current
         \/ /\ verdict = "complete" /\ current = "written"
            /\ pc' = "resolve" /\ outcome' = outcome /\ current' = "removed"
<1>1. CASE verdict = "failed"
  BY <1>1 DEF Settle, End
<1>2. CASE verdict = "complete" /\ current = "removed"
  BY <1>2 DEF Settle, End
<1>3. CASE verdict = "complete" /\ current = "written"
  BY <1>3 DEF Settle, End
<1> QED
  BY <1>1, <1>2, <1>3 DEF Verdict, Object

\* Every step of the detector ends the wait, goes on with the next object, or
\* looks at this one as it is.
LEMMA DetectGoesOn ==
  ASSUME TypeOK, Detect \/ CallFails, UNCHANGED clusterVars
  PROVE  /\ late' = late
         /\ pc # "end"
         /\ \/ /\ pc' = "end" /\ current' = current /\ seen' = seen
               /\ coming' \in {coming, "pending"}
               /\ \/ outcome' \in {"ambiguous", "callFailed"}
                  \/ /\ outcome' = "unserved"
                     /\ pc = "clock"
                  \/ outcome' = "timedOut" /\ pc = "look" /\ seen = "pending"
                  \/ /\ \/ pc = "look" /\ seen = "failed"
                        \/ pc = "watch" /\ coming = "failed"
                     /\ outcome' = "givenUp"
                  \/ /\ \/ pc = "look" /\ seen = "complete"
                        \/ pc = "watch" /\ coming = "complete"
                     /\ outcome' = "ok" /\ current = "removed"
            \/ /\ pc' = "resolve" /\ current' = "removed" /\ current = "written"
               /\ \/ pc = "look" /\ seen = "complete"
                  \/ pc = "watch" /\ coming = "complete"
               /\ outcome' = outcome /\ seen' = seen
               /\ coming' \in {coming, "pending"}
            \/ /\ pc' \in {"resolve", "list"}
               /\ current' = current /\ outcome' = outcome /\ seen' = seen
               /\ coming' \in {coming, "pending"}
            \/ /\ pc' = "clock" /\ served[current] = 0
               /\ current' = current /\ outcome' = outcome /\ seen' = seen
               /\ coming' = coming
            \/ /\ pc' = "look" /\ seen' = Verdicts(current)
               /\ current' = current /\ outcome' = outcome /\ coming' = coming
            \/ /\ pc' = "watch"
               /\ coming' = IF Stored(current) = Absent
                              THEN "pending" ELSE Verdicts(current)
               /\ current' = current /\ outcome' = outcome /\ seen' = seen
<1>1. CASE Discover
  BY <1>1 DEF Discover, End
<1>2. CASE Resolve
  BY <1>2 DEF Resolve, End
<1>3. CASE List
  BY <1>3 DEF List
<1>4. CASE NotServed
  BY <1>4 DEF NotServed, End
<1>5. CASE ListSettles
  BY <1>5, SettleGoesOn DEF ListSettles, TypeOK
<1>6. CASE TimeOut
  BY <1>6 DEF TimeOut, End
<1>7. CASE Open
  BY <1>7 DEF Open
<1>8. CASE EventSettles
  BY <1>8, SettleGoesOn DEF EventSettles, TypeOK
<1>9. CASE WatchEnds
  BY <1>9 DEF WatchEnds
<1>10. CASE CallFails
  BY <1>10 DEF CallFails, Calling, End
<1>11. CASE LookAtClock
  BY <1>11 DEF LookAtClock, End
<1> QED
  BY <1>1, <1>2, <1>3, <1>4, <1>5, <1>6, <1>7, <1>8, <1>9, <1>10, <1>11
  DEF Detect

LEMMA DetectTyped ==
  ASSUME TypeOK, Detect \/ CallFails, UNCHANGED <<onTime, clusterVars>>
  PROVE  TypeOK'
<1>1. known' \in [Object -> 0..2] \union {Undiscovered}
  BY DEF TypeOK, ClusterTypeOK, Detect, CallFails, Discover, LookAtClock, Resolve, List,
         NotServed, ListSettles, TimeOut, Open, EventSettles, WatchEnds
<1>2. ClusterTypeOK'
  BY DEF TypeOK, ClusterTypeOK, clusterVars
<1>3. Verdicts(current) \in Verdict
  BY VerdictsTyped DEF TypeOK
<1> QED
  BY <1>1, <1>2, <1>3, DetectGoesOn DEF TypeOK, Verdict, Object, Outcome

LEMMA DetectKeeps ==
  ASSUME WatchInvariant, Detect \/ CallFails, UNCHANGED <<onTime, clusterVars>>
  PROVE  WatchInvariant'
<1>1. TypeOK /\ ClusterInvariant /\ VerdictsMean /\ OnTimeIsFound /\ InPlaceIsNotLate
  BY DEF WatchInvariant, ClusterInvariant, TypeOK
<1>2. TypeOK'
  BY <1>1, DetectTyped
<1>3. /\ ClusterInvariant'
      /\ Landed => Landed'
      /\ Abandoned => Abandoned'
      /\ AllInPlace => AllInPlace'
      /\ Verdicts("written")' = Verdicts("written")
      /\ removed' = removed
  BY <1>1, SameCluster
<1>4. /\ VerdictMeans(Verdicts(current))
      /\ VerdictMeans("pending")
      /\ current \in Object
      /\ (outcome = "running") = (pc # "end")
  BY <1>1, VerdictsMeanIt, PendingMeansNothing DEF TypeOK
<1>5. VerdictsMean'
  BY <1>1, <1>3, <1>4, DetectGoesOn DEF VerdictsMean, VerdictMeans
<1>6. OnTimeIsFound' /\ InPlaceIsNotLate'
  <2>1. onTime /\ pc # "end" => Verdicts(current) = "complete" /\ served[current] = 1
    BY <1>1, <1>4 DEF OnTimeIsFound, AllInPlace
  <2> QED
    BY <1>1, <1>3, <1>4, <2>1, DetectGoesOn DEF OnTimeIsFound, InPlaceIsNotLate
<1>7. WatchMissesNoWrite'
  <2>1. Stored("written") = Absent => Verdicts("written") = "pending"
    BY <1>1, WrittenMeans DEF Stored
  <2> QED
    BY <1>1, <1>3, <1>4, <2>1, DetectGoesOn DEF WatchMissesNoWrite
<1> QED
  BY <1>2, <1>3, <1>5, <1>6, <1>7 DEF WatchInvariant, ClusterInvariant

-----------------------------------------------------------------------------
(* What goes on around the detector *)

LEMMA ClusterMovesKeeps ==
  ASSUME WatchInvariant, ClusterMoves
  PROVE  WatchInvariant'
<1>1. TypeOK /\ ClusterInvariant /\ VerdictsMean /\ OnTimeIsFound /\ InPlaceIsNotLate
  BY DEF WatchInvariant, ClusterInvariant, TypeOK
<1>2. /\ pc # "end" /\ ClusterStep
      /\ UNCHANGED <<pc, current, seen, known, late, outcome>>
      /\ coming' = IF pc = "watch" /\ coming = "pending" THEN Verdicts(current)'
                   ELSE coming
      /\ onTime' = (onTime /\ AllInPlace')
  BY DEF ClusterMoves
<1>3. ClusterInvariant'
  BY <1>1, <1>2, ClusterKept
<1>4. current' \in Object /\ current \in Object /\ (outcome = "running")
  BY <1>1, <1>2 DEF TypeOK
<1>5. VerdictMeans(Verdicts(current))'
  <2>1. (ClusterInvariant /\ current \in Object => VerdictMeans(Verdicts(current)))'
    BY VerdictsMeanIt, PTL
  <2> QED
    BY <1>3, <1>4, <2>1
<1>6. Verdicts(current)' \in Verdict
  <2>1. (ClusterTypeOK /\ current \in Object => Verdicts(current) \in Verdict)'
    BY VerdictsTyped, PTL
  <2> QED
    BY <1>3, <1>4, <2>1 DEF ClusterInvariant
<1>7. TypeOK'
  BY <1>1, <1>2, <1>3, <1>4, <1>6 DEF TypeOK, ClusterInvariant
<1>8. VerdictsMean'
  <2>1. pc = "look" => VerdictMeans(seen)'
    BY <1>1, <1>2, <1>4, MeaningKept DEF VerdictsMean, VerdictMeans
  <2>2. pc = "watch" => VerdictMeans(coming)'
    <3>1. CASE coming = "pending"
      BY <1>2, <1>5, <3>1 DEF VerdictMeans
    <3>2. CASE coming # "pending"
      BY <1>1, <1>2, <1>4, <3>2, MeaningKept DEF VerdictsMean, VerdictMeans
    <3> QED
      BY <3>1, <3>2
  <2>3. current = "removed" => Landed'
    BY <1>1, <1>2, LandedKept DEF VerdictsMean, ClusterInvariant
  <2> QED
    BY <1>2, <1>4, <2>1, <2>2, <2>3 DEF VerdictsMean
<1>9. OnTimeIsFound' /\ InPlaceIsNotLate'
  BY <1>1, <1>2, <1>4 DEF OnTimeIsFound, InPlaceIsNotLate
<1>10. WatchMissesNoWrite'
  BY <1>2 DEF WatchMissesNoWrite, Verdicts
<1> QED
  BY <1>3, <1>7, <1>8, <1>9, <1>10 DEF WatchInvariant, ClusterInvariant

LEMMA DeadlineKeeps ==
  ASSUME WatchInvariant, Deadline
  PROVE  WatchInvariant'
<1>1. TypeOK /\ ClusterInvariant /\ VerdictsMean /\ InPlaceIsNotLate
  BY DEF WatchInvariant, ClusterInvariant, TypeOK
<1>2. /\ pc # "end" /\ late' = TRUE
      /\ onTime' = (AllInPlace /\ pc \notin {"look", "clock"})
      /\ UNCHANGED <<pc, current, seen, coming, known, outcome>>
      /\ UNCHANGED clusterVars
  BY DEF Deadline
<1>3. /\ ClusterInvariant'
      /\ Landed => Landed'
      /\ Abandoned => Abandoned'
      /\ AllInPlace => AllInPlace'
      /\ Verdicts("written")' = Verdicts("written")
      /\ removed' = removed
  BY <1>1, <1>2, SameCluster
<1>4. TypeOK'
  BY <1>1, <1>2, <1>3 DEF TypeOK, ClusterInvariant
<1>5. VerdictsMean'
  BY <1>1, <1>2, <1>3 DEF VerdictsMean, VerdictMeans
<1>6. OnTimeIsFound' /\ InPlaceIsNotLate'
  BY <1>1, <1>2, <1>3 DEF OnTimeIsFound, InPlaceIsNotLate, TypeOK
<1>7. WatchMissesNoWrite'
  BY <1>2, <1>3 DEF WatchMissesNoWrite, WatchInvariant
<1> QED
  BY <1>3, <1>4, <1>5, <1>6, <1>7 DEF WatchInvariant, ClusterInvariant

LEMMA StillKeeps ==
  ASSUME WatchInvariant, UNCHANGED vars
  PROVE  WatchInvariant'
<1>1. TypeOK /\ ClusterInvariant /\ VerdictsMean /\ OnTimeIsFound /\ InPlaceIsNotLate
  BY DEF WatchInvariant, ClusterInvariant, TypeOK
<1>2. UNCHANGED clusterVars /\ UNCHANGED watchVars /\ onTime' = onTime
  BY DEF vars
<1>3. /\ ClusterInvariant'
      /\ Landed => Landed'
      /\ Abandoned => Abandoned'
      /\ AllInPlace => AllInPlace'
      /\ Verdicts("written")' = Verdicts("written")
      /\ removed' = removed
  BY <1>1, <1>2, SameCluster
<1> USE DEF watchVars
<1>4. TypeOK'
  BY <1>1, <1>2, <1>3 DEF TypeOK, ClusterInvariant
<1>5. VerdictsMean'
  BY <1>1, <1>2, <1>3 DEF VerdictsMean, VerdictMeans
<1>6. OnTimeIsFound' /\ InPlaceIsNotLate'
  BY <1>1, <1>2, <1>3 DEF OnTimeIsFound, InPlaceIsNotLate, TypeOK
<1>7. WatchMissesNoWrite'
  BY <1>2, <1>3 DEF WatchMissesNoWrite, WatchInvariant
<1> QED
  BY <1>3, <1>4, <1>5, <1>6, <1>7 DEF WatchInvariant, ClusterInvariant

\* Whatever the cluster does, and whichever list or event is answered when, the
\* verdicts a wait goes by are of the write it waits for, and what a settled one
\* meant stays true (_wait_for_object, _rollout_goal_progress).
THEOREM WatchHolds == Spec => []WatchInvariant
<1>1. WatchInvariant /\ [Next]_vars => WatchInvariant'
  BY DetectKeeps, ClusterMovesKeeps, DeadlineKeeps, StillKeeps DEF Next, Ended
<1> QED
  BY <1>1, WatchInit, PTL DEF Spec

\* A wait succeeds only once this write has landed, its pods have been what it
\* asks for and the other object is gone, for any number of replicas and any
\* partition (wait_for_success).
THEOREM SuccessIsAlwaysRollout == Spec => []SuccessIsRollout
<1>1. WatchInvariant => SuccessIsRollout
  BY DEF WatchInvariant, VerdictsMean, Landed, SuccessIsRollout
<1> QED
  BY <1>1, WatchHolds, PTL

\* A wait fails early only for a rollout of this very write
\* (_deployment_rollout_progress).
THEOREM GivenUpIsAlwaysOfThisWrite == Spec => []GivenUpIsOfThisWrite
<1>1. WatchInvariant => GivenUpIsOfThisWrite
  BY DEF WatchInvariant, VerdictsMean, Abandoned, GivenUpIsOfThisWrite
<1> QED
  BY <1>1, WatchHolds, PTL

\* What was in place at the deadline is found by the last list
\* (_wait_for_object, _resource_for).
THEOREM InPlaceIsNeverLate == Spec => []InPlaceIsNotLate
<1>1. WatchInvariant => InPlaceIsNotLate
  BY DEF WatchInvariant
<1> QED
  BY <1>1, WatchHolds, PTL

\* No write falls between a list and the watch that follows it
\* (_watch_object).
THEOREM WatchesMissNoWrite == Spec => []WatchMissesNoWrite
<1>1. WatchInvariant => WatchMissesNoWrite
  BY DEF WatchInvariant
<1> QED
  BY <1>1, WatchHolds, PTL
==============================================================================
