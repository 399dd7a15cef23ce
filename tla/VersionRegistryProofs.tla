------------------------ MODULE VersionRegistryProofs ------------------------
(***************************************************************************)
(* Proofs that the registry keeps its promise for any requests, versions   *)
(* and timestamps.                                                         *)
(*                                                                         *)
(* CreatedOnce by itself is not inductive: that an answer of "created" is  *)
(* unique follows from the creators, of which there is one per version     *)
(* because a creator's entry is stored and no version is stored twice.     *)
(***************************************************************************)
EXTENDS VersionRegistry, TLAPS

LEMMA RegistryInit == Init => RegistryInvariant
  BY DEF Init, RegistryInvariant, RegistryTypeOK, OneEach, AnswersStored,
         CreatorsStored, CreatorsDiffer, ReportedByCreator, Reply, Pending

\* An answer about a stored entry, a failure among them, keeps the invariant.
LEMMA ReportKeeps ==
  ASSUME RegistryInvariant, NEW r \in Request, NEW answer \in Reply,
         Reports(r, answer),
         answer.entry \subseteq stored,
         answer.kind = "created" => r \in creator
  PROVE  RegistryInvariant'
  BY DEF Reports, RegistryInvariant, RegistryTypeOK, OneEach, AnswersStored,
         CreatorsStored, CreatorsDiffer, ReportedByCreator

LEMMA AnswerIsReply ==
  ASSUME NEW kind \in {"created", "existing", "conflict"}, NEW e \in Entry
  PROVE  Answer(kind, e) \in Reply
  BY DEF Reply

LEMMA CreateKeeps ==
  ASSUME RegistryInvariant, NEW r \in Request, Create(r)
  PROVE  RegistryInvariant'
<1> USE DEF RegistryInvariant, RegistryTypeOK
<1>1. /\ asked[r] \in Entry
      /\ asked' = asked
      /\ stored' = stored \union {asked[r]}
      /\ creator' = creator \union {r}
  BY DEF Create
<1>2. PICK answer \in {reply[r], Answer("created", asked[r]), Failure} :
        reply' = [reply EXCEPT ![r] = answer]
  BY DEF Create
<1>3. answer \in Reply /\ reply[r] = Pending
  BY <1>1, <1>2, AnswerIsReply DEF Create, Reply
<1>4. RegistryTypeOK'
  BY <1>1, <1>2, <1>3
<1>5. OneEach'
  BY <1>1 DEF Create, Free, OneEach
<1>6. answer.entry \subseteq stored' /\ answer.kind \in {"pending", "created", "failed"}
  BY <1>1, <1>2, <1>3 DEF Answer, Failure, Pending
<1>7. AnswersStored'
  BY <1>1, <1>2, <1>6 DEF AnswersStored
<1>8. CreatorsStored'
  BY <1>1 DEF CreatorsStored
<1>9. CreatorsDiffer'
  BY <1>1 DEF Create, Free, CreatorsStored, CreatorsDiffer
<1>10. ReportedByCreator'
  BY <1>1, <1>2, <1>6 DEF ReportedByCreator
<1> QED
  BY <1>4, <1>5, <1>7, <1>8, <1>9, <1>10

LEMMA RegistryStep == RegistryInvariant /\ [Next]_registryVars => RegistryInvariant'
<1> SUFFICES ASSUME RegistryInvariant, [Next]_registryVars
             PROVE  RegistryInvariant'
  OBVIOUS
<1>1. ASSUME NEW r \in Request, Create(r)
      PROVE  RegistryInvariant'
  BY <1>1, CreateKeeps
<1>2. ASSUME NEW r \in Request, ReportCreated(r)
      PROVE  RegistryInvariant'
  <2>1. asked[r] \in Entry /\ asked[r] \in stored
    BY <1>2 DEF ReportCreated, RegistryInvariant, RegistryTypeOK, CreatorsStored
  <2> QED
    BY <1>2, <2>1, ReportKeeps, AnswerIsReply DEF ReportCreated, Answer
<1>3. ASSUME NEW r \in Request, ReportExisting(r)
      PROVE  RegistryInvariant'
  <2>1. PICK s \in stored : Reports(r, Answer("existing", s))
    BY <1>3 DEF ReportExisting
  <2>2. s \in Entry
    BY DEF RegistryInvariant, RegistryTypeOK
  <2> QED
    BY <2>1, <2>2, ReportKeeps, AnswerIsReply DEF Answer
<1>4. ASSUME NEW r \in Request, ReportConflict(r)
      PROVE  RegistryInvariant'
  <2>1. PICK s \in stored : Reports(r, Answer("conflict", s))
    BY <1>4 DEF ReportConflict
  <2>2. s \in Entry
    BY DEF RegistryInvariant, RegistryTypeOK
  <2> QED
    BY <2>1, <2>2, ReportKeeps, AnswerIsReply DEF Answer
<1>5. ASSUME NEW r \in Request, Fail(r)
      PROVE  RegistryInvariant'
  BY <1>5, ReportKeeps DEF Fail, Failure, Reply
<1>6. CASE UNCHANGED registryVars
  BY <1>6 DEF registryVars, RegistryInvariant, RegistryTypeOK, OneEach,
              AnswersStored, CreatorsStored, CreatorsDiffer,
              ReportedByCreator
<1> QED
  BY <1>1, <1>2, <1>3, <1>4, <1>5, <1>6 DEF Next

\* In every reachable state neither a version nor a timestamp is registered
\* twice and every answer speaks of a stored entry (the register of each
\* ImageInfoStore).
THEOREM RegistryHolds == RegistrySpec => []RegistryInvariant
  BY RegistryInit, RegistryStep, PTL DEF RegistrySpec

\* Of the requests for a version at most one is ever told it created it, however
\* many register it at once or again (RegisterResult.created).
THEOREM CreatedAtMostOnce == RegistrySpec => []CreatedOnce
<1>1. RegistryInvariant => CreatedOnce
  BY DEF RegistryInvariant, CreatorsDiffer, ReportedByCreator, CreatedOnce
<1> QED
  BY <1>1, RegistryHolds, PTL
==============================================================================
