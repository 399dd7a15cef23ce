----------------------------- MODULE StoreProofs -----------------------------
(***************************************************************************)
(* Proofs, for any requests, versions, timestamps and attempts, that both  *)
(* backends implement VersionRegistry and so answer truly; that the two    *)
(* items of a version agree in DynamoDB, and that without cancellations    *)
(* for contention no registration conflicts with itself there; and that    *)
(* SurrealDB refuses no registration that stored its version.              *)
(***************************************************************************)
EXTENDS DynamoStore, SurrealStore, TLAPS

LEMMA AnswerIsReply ==
  ASSUME NEW kind \in {"created", "existing", "conflict"}, NEW e \in Entry
  PROVE  Answer(kind, e) \in Reply
  BY DEF Reply

-----------------------------------------------------------------------------
(* The steps of the retries keep what every step must, of either backend *)

\* What the invariants say of the requests apart from what is stored.
RequestsOK(Step) == RetryTypeOK(Step) /\ UnansweredIsPending

LEMMA GotoKeeps ==
  ASSUME NEW Step, RequestsOK(Step), NEW r \in Request, step[r] # "end",
         creator' \subseteq creator \union {r},
         NEW label \in Step \ {"end"}, Goto(r, label)
  PROVE  RequestsOK(Step)'
  BY DEF RequestsOK, RetryTypeOK, UnansweredIsPending, Goto

LEMMA FinishKeeps ==
  ASSUME NEW Step, "end" \in Step, RequestsOK(Step), NEW r \in Request,
         creator' \subseteq creator \union {r}, NEW answer \in Reply, Finish(r, answer)
  PROVE  RequestsOK(Step)'
  BY DEF RequestsOK, RetryTypeOK, UnansweredIsPending, Finish

LEMMA FailureIsReply == Failure \in Reply
  BY DEF Reply

LEMMA RetryKeeps ==
  ASSUME NEW Step, {"read", "end"} \subseteq Step, RequestsOK(Step), NEW r \in Request,
         step[r] # "end", creator' \subseteq creator \union {r}, Retry(r)
  PROVE  RequestsOK(Step)'
<1>1. CASE Finish(r, Failure)
  BY <1>1, FinishKeeps, FailureIsReply
<1>2. CASE /\ attempt[r] < Attempts
           /\ attempt' = [attempt EXCEPT ![r] = @ + 1]
           /\ step' = [step EXCEPT ![r] = "read"]
           /\ UNCHANGED <<asked, reply>>
  BY <1>2, RetryAssumption DEF RequestsOK, RetryTypeOK, UnansweredIsPending
<1> QED
  BY <1>1, <1>2 DEF Retry

-----------------------------------------------------------------------------
(* DynamoDB: one step for each action *)

Calls == {"read", "write", "reread", "holder", "end"}

LEMMA StoreInit == Init => StoreInvariant
  BY DynamoAssumption, RetryAssumption
  DEF Init, RetryInit, StoreInvariant, TypeOK, RetryTypeOK, ItemsAgree,
      UnansweredIsPending, CancelledForCause, Reply

\* The request parts say the same in StoreInvariant.
LEMMA Parts ==
  StoreInvariant <=> /\ RequestsOK(Calls)
                     /\ versionItem \in [Version -> Timestamp \union {NoTimestamp}]
                     /\ timestampItem \in [Timestamp -> Version \union {NoVersion}]
                     /\ ItemsAgree
                     /\ ~Contention => CancelledForCause
  BY DEF StoreInvariant, TypeOK, RequestsOK, Calls

\* The parts put together again after a step that leaves the items alone.
LEMMA ItemsAlone ==
  ASSUME StoreInvariant, UNCHANGED items, RequestsOK(Calls)',
         ~Contention => CancelledForCause'
  PROVE  StoreInvariant'
  BY DEF StoreInvariant, TypeOK, RequestsOK, Calls, ItemsAgree, items

LEMMA EntryTyped ==
  ASSUME StoreInvariant, NEW r \in Request
  PROVE  /\ asked[r] \in Entry
         /\ asked[r].version \in Version
         /\ asked[r].timestamp \in Timestamp
         /\ versionItem[asked[r].version] \in Timestamp \union {NoTimestamp}
         /\ Holder(r) \in Version \union {NoVersion}
         /\ Known(r) => Stored(asked[r].version) \in Entry
  BY DEF StoreInvariant, TypeOK, RetryTypeOK, Entry, Holder, Known, Stored

\* A step of r that leaves the items alone keeps CancelledForCause if it does
\* not take r itself where it says more.
LEMMA CauseKeeps ==
  ASSUME StoreInvariant, NEW r \in Request, UNCHANGED <<items, asked>>,
         step' \in [Request -> {"read", "write", "reread", "holder", "end"}],
         \A q \in Request \ {r} : step'[q] = step[q],
         ~Contention /\ step'[r] \in {"reread", "holder"} => ~ConditionsHold(r),
         ~Contention /\ step'[r] = "holder" =>
           Holder(r) \notin {NoVersion, asked[r].version}
  PROVE  ~Contention => CancelledForCause'
  BY DEF StoreInvariant, CancelledForCause, ConditionsHold, Known, Holder, items

LEMMA ReadVersionKeeps ==
  ASSUME StoreInvariant, NEW r \in Request, ReadVersion(r)
  PROVE  StoreInvariant'
<1>1. RequestsOK(Calls)'
  <2>1. CASE Known(r) /\ Finish(r, Answer("existing", Stored(asked[r].version)))
    BY <2>1, FinishKeeps, AnswerIsReply, EntryTyped, Parts
    DEF ReadVersion, Calls
  <2>2. CASE ~Known(r) /\ Goto(r, "write")
    BY <2>2, GotoKeeps, Parts DEF ReadVersion, Calls
  <2> QED
    BY <2>1, <2>2 DEF ReadVersion
<1>2. UNCHANGED <<items, asked>> /\ \A q \in Request \ {r} : step'[q] = step[q]
  BY DEF ReadVersion, Finish, Goto, StoreInvariant, TypeOK, RetryTypeOK
<1>3. step'[r] \in {"write", "end"}
  BY DEF ReadVersion, Finish, Goto, StoreInvariant, TypeOK, RetryTypeOK
<1>4. ~Contention => CancelledForCause'
  BY <1>1, <1>2, <1>3, CauseKeeps DEF RequestsOK, RetryTypeOK, Calls
<1> QED
  BY <1>1, <1>2, <1>4, ItemsAlone

LEMMA CancelledKeeps ==
  ASSUME StoreInvariant, NEW r \in Request, Cancelled(r)
  PROVE  StoreInvariant'
<1>1. RequestsOK(Calls)'
  BY GotoKeeps, Parts DEF Cancelled, Calls
<1>2. UNCHANGED <<items, asked>> /\ \A q \in Request \ {r} : step'[q] = step[q]
  BY DEF Cancelled, Goto, StoreInvariant, TypeOK, RetryTypeOK
<1>3. step'[r] = "reread" /\ (~Contention => ~ConditionsHold(r))
  BY DEF Cancelled, Contended, Goto, StoreInvariant, TypeOK, RetryTypeOK
<1>4. ~Contention => CancelledForCause'
  BY <1>1, <1>2, <1>3, CauseKeeps DEF RequestsOK, RetryTypeOK, Calls
<1> QED
  BY <1>1, <1>2, <1>4, ItemsAlone

LEMMA RereadVersionKeeps ==
  ASSUME StoreInvariant, NEW r \in Request, RereadVersion(r)
  PROVE  StoreInvariant'
<1>1. RequestsOK(Calls)'
  <2>1. CASE Known(r) /\ Finish(r, Answer("existing", Stored(asked[r].version)))
    BY <2>1, FinishKeeps, AnswerIsReply, EntryTyped, Parts
    DEF RereadVersion, Calls
  <2>2. CASE ~Known(r) /\ Goto(r, "holder")
    BY <2>2, GotoKeeps, Parts DEF RereadVersion, Calls
  <2> QED
    BY <2>1, <2>2 DEF RereadVersion
<1>2. UNCHANGED <<items, asked>> /\ \A q \in Request \ {r} : step'[q] = step[q]
  BY DEF RereadVersion, Finish, Goto, StoreInvariant, TypeOK, RetryTypeOK
<1>3. step'[r] = "end" \/ (step'[r] = "holder" /\ ~Known(r))
  BY DEF RereadVersion, Finish, Goto, StoreInvariant, TypeOK, RetryTypeOK
<1>4. ~Contention => ~ConditionsHold(r)
  BY DEF RereadVersion, StoreInvariant, CancelledForCause
<1>5. ~Contention /\ ~Known(r) => Holder(r) \notin {NoVersion, asked[r].version}
  <2> SUFFICES ASSUME ~Contention, ~Known(r)
               PROVE  Holder(r) # NoVersion /\ Holder(r) # asked[r].version
    OBVIOUS
  <2>1. Holder(r) # NoVersion
    BY <1>4 DEF ConditionsHold
  <2>2. Holder(r) # asked[r].version
    BY EntryTyped, DynamoAssumption DEF StoreInvariant, ItemsAgree, Known, Holder
  <2> QED
    BY <2>1, <2>2
<1>6. ~Contention => CancelledForCause'
  BY <1>1, <1>2, <1>3, <1>4, <1>5, CauseKeeps DEF RequestsOK, RetryTypeOK, Calls
<1> QED
  BY <1>1, <1>2, <1>6, ItemsAlone

LEMMA ReadHolderKeeps ==
  ASSUME StoreInvariant, NEW r \in Request, ReadHolder(r)
  PROVE  StoreInvariant'
<1>1. RequestsOK(Calls)'
  <2>1. CASE /\ Holder(r) # NoVersion
             /\ Finish(r, Answer("conflict", [version   |-> Holder(r),
                                              timestamp |-> asked[r].timestamp]))
    <3>1. [version |-> Holder(r), timestamp |-> asked[r].timestamp] \in Entry
      BY <2>1, EntryTyped DEF Entry
    <3> QED
      BY <2>1, <3>1, FinishKeeps, AnswerIsReply, Parts
      DEF ReadHolder, Calls
  <2>2. CASE Finish(r, Failure)
    BY <2>2, FinishKeeps, FailureIsReply, Parts DEF ReadHolder, Calls
  <2> QED
    BY <2>1, <2>2 DEF ReadHolder
<1>2. UNCHANGED <<items, asked>> /\ \A q \in Request \ {r} : step'[q] = step[q]
  BY DEF ReadHolder, Finish, StoreInvariant, TypeOK, RetryTypeOK
<1>3. step'[r] = "end"
  BY DEF ReadHolder, Finish, StoreInvariant, TypeOK, RetryTypeOK
<1>4. ~Contention => CancelledForCause'
  BY <1>1, <1>2, <1>3, CauseKeeps DEF RequestsOK, RetryTypeOK, Calls
<1> QED
  BY <1>1, <1>2, <1>4, ItemsAlone

LEMMA CallFailsKeeps ==
  ASSUME StoreInvariant, NEW r \in Request, CallFails(r)
  PROVE  StoreInvariant'
<1>1. RequestsOK(Calls)'
  BY RetryKeeps, Parts DEF CallFails, Calls
<1>2. UNCHANGED <<items, asked>> /\ \A q \in Request \ {r} : step'[q] = step[q]
  BY DEF CallFails, Retry, Finish, StoreInvariant, TypeOK, RetryTypeOK
<1>3. step'[r] \in {"read", "end"}
  BY DEF CallFails, Retry, Finish, StoreInvariant, TypeOK, RetryTypeOK
<1>4. ~Contention => CancelledForCause'
  BY <1>1, <1>2, <1>3, CauseKeeps DEF RequestsOK, RetryTypeOK, Calls
<1> QED
  BY <1>1, <1>2, <1>4, ItemsAlone

\* The transaction puts both items or none, and neither was there before.
LEMMA WriteKeeps ==
  ASSUME StoreInvariant, NEW r \in Request, Write(r)
  PROVE  StoreInvariant'
<1> DEFINE v == asked[r].version
           t == asked[r].timestamp
<1>1. /\ v \in Version
      /\ t \in Timestamp
      /\ versionItem[v] = NoTimestamp
      /\ timestampItem[t] = NoVersion
      /\ versionItem' = [versionItem EXCEPT ![v] = t]
      /\ timestampItem' = [timestampItem EXCEPT ![t] = v]
  BY EntryTyped DEF Write, ConditionsHold, PutItems, Known, Holder
<1>2. RequestsOK(Calls)'
  <2>1. RequestsOK(Calls) /\ step[r] # "end" /\ creator' = creator \union {r}
    BY Parts DEF Write
  <2>2. CASE Finish(r, Answer("created", asked[r]))
    BY <2>1, <2>2, FinishKeeps, AnswerIsReply, EntryTyped DEF Calls
  <2>3. CASE Retry(r)
    BY <2>1, <2>3, RetryKeeps DEF Calls
  <2> QED
    BY <2>2, <2>3 DEF Write
<1>3. /\ versionItem' \in [Version -> Timestamp \union {NoTimestamp}]
      /\ timestampItem' \in [Timestamp -> Version \union {NoVersion}]
  BY <1>1 DEF StoreInvariant, TypeOK
<1>4. ItemsAgree'
  <2> SUFFICES ASSUME NEW u \in Version, NEW s \in Timestamp
               PROVE  versionItem'[u] = s <=> timestampItem'[s] = u
    BY DEF ItemsAgree
  <2>1. versionItem[u] = s <=> timestampItem[s] = u
    BY DEF StoreInvariant, ItemsAgree
  <2>2. /\ versionItem'[u] = IF u = v THEN t ELSE versionItem[u]
        /\ timestampItem'[s] = IF s = t THEN v ELSE timestampItem[s]
    BY <1>1 DEF StoreInvariant, TypeOK
  <2> QED
    BY <1>1, <2>1, <2>2, DynamoAssumption
<1>5. ~Contention => CancelledForCause'
  <2> SUFFICES ASSUME ~Contention, NEW q \in Request
               PROVE  /\ step'[q] \in {"reread", "holder"} => ~ConditionsHold(q)'
                      /\ step'[q] = "holder" =>
                           Holder(q)' \notin {NoVersion, asked'[q].version}
    BY DEF CancelledForCause
  <2>1. asked' = asked /\ (q # r => step'[q] = step[q])
    BY DEF Write, Finish, Retry, StoreInvariant, TypeOK, RetryTypeOK
  <2>2. step'[r] \in {"read", "end"}
    BY DEF Write, Finish, Retry, StoreInvariant, TypeOK, RetryTypeOK
  <2>3. /\ step[q] \in {"reread", "holder"} => ~ConditionsHold(q)
        /\ step[q] = "holder" => Holder(q) \notin {NoVersion, asked[q].version}
    BY DEF StoreInvariant, CancelledForCause
  <2>4. /\ Known(q) => Known(q)'
        /\ Holder(q) # NoVersion => Holder(q)' = Holder(q)
    BY <1>1, <2>1, EntryTyped, DynamoAssumption
    DEF Known, Holder, StoreInvariant, TypeOK
  <2> QED
    BY <2>1, <2>2, <2>3, <2>4 DEF ConditionsHold
<1> QED
  BY <1>2, <1>3, <1>4, <1>5 DEF StoreInvariant, TypeOK, RequestsOK, Calls

LEMMA StoreStep == StoreInvariant /\ [Next]_vars => StoreInvariant'
<1> SUFFICES ASSUME StoreInvariant, [Next]_vars
             PROVE  StoreInvariant'
  OBVIOUS
<1>1. ASSUME NEW r \in Request, RequestStep(r)
      PROVE  StoreInvariant'
  BY <1>1, ReadVersionKeeps, WriteKeeps, CancelledKeeps, RereadVersionKeeps,
     ReadHolderKeeps, CallFailsKeeps DEF RequestStep
<1>2. CASE UNCHANGED vars
  BY <1>2 DEF vars, retryVars, items, StoreInvariant, TypeOK, RetryTypeOK, ItemsAgree,
              UnansweredIsPending, CancelledForCause, ConditionsHold, Known, Holder
<1> QED
  BY <1>1, <1>2 DEF Next, Ended

\* The refinement's invariant, the type invariant among its parts, holds in every
\* reachable state (DynamoDBImageInfoStore.register behind _run).
THEOREM StoreHolds == Spec => []StoreInvariant
  BY StoreInit, StoreStep, PTL DEF Spec

\* The item latest_for_image reads and the item register answers from are there
\* together and agree, contention and lost answers or not (the transaction of
\* DynamoDBImageInfoStore.register).
THEOREM ItemsAlwaysAgree == Spec => []ItemsAgree
<1>1. StoreInvariant => ItemsAgree
  BY DEF StoreInvariant
<1> QED
  BY <1>1, StoreHolds, PTL

-----------------------------------------------------------------------------
(* Refinement *)

\* What VersionRegistry calls stored.
StoredSet == {Stored(v) : v \in {u \in Version : versionItem[u] # NoTimestamp}}

LEMMA StoredKnown ==
  ASSUME StoreInvariant, NEW r \in Request, Known(r)
  PROVE  Stored(asked[r].version) \in StoredSet
  BY EntryTyped DEF StoredSet, Known

LEMMA InitRefines == Init => Registry!Init
  BY DEF Init, RetryInit, Registry!Init, Stored, Entry, Registry!Entry,
         Pending, Registry!Pending

\* An answer that leaves the items alone is one of the registry's reports.
LEMMA FinishReports ==
  ASSUME StoreInvariant, NEW r \in Request, step[r] # "end", NEW answer,
         Finish(r, answer), UNCHANGED <<items, creator>>
  PROVE  Registry!Reports(r, answer)
  BY DEF StoreInvariant, UnansweredIsPending, Finish, items, Stored, Pending,
         Registry!Pending, Registry!Reports

LEMMA ExistingRefines ==
  ASSUME StoreInvariant, NEW r \in Request, step[r] # "end", Known(r),
         Finish(r, Answer("existing", Stored(asked[r].version))),
         UNCHANGED <<items, creator>>
  PROVE  Registry!ReportExisting(r)
<1>1. Registry!Reports(r, Registry!Answer("existing", Stored(asked[r].version)))
  BY FinishReports DEF Answer, Registry!Answer
<1>2. Stored(asked[r].version).version = asked[r].version
  BY DEF Stored
<1> QED
  BY <1>1, <1>2, StoredKnown DEF StoredSet, Registry!ReportExisting

LEMMA RetryRefines ==
  ASSUME StoreInvariant, NEW r \in Request, step[r] # "end", Retry(r),
         UNCHANGED <<items, creator>>
  PROVE  Registry!Fail(r) \/ UNCHANGED Registry!registryVars
<1>1. CASE Finish(r, Failure)
  BY <1>1, FinishReports DEF Failure, Registry!Failure, Registry!Fail
<1>2. CASE UNCHANGED <<asked, reply>>
  BY <1>2 DEF items, Stored, Registry!registryVars
<1> QED
  BY <1>1, <1>2 DEF Retry

LEMMA WriteRefines ==
  ASSUME StoreInvariant, NEW r \in Request, Write(r)
  PROVE  Registry!Create(r)
<1> DEFINE v == asked[r].version
           t == asked[r].timestamp
<1>1. /\ v \in Version
      /\ t \in Timestamp
      /\ versionItem[v] = NoTimestamp
      /\ timestampItem[t] = NoVersion
      /\ versionItem' = [versionItem EXCEPT ![v] = t]
      /\ creator' = creator \union {r}
      /\ reply[r] = Pending
      /\ asked[r] = [version |-> v, timestamp |-> t]
  BY EntryTyped DEF Write, ConditionsHold, PutItems, Known, Holder, Entry,
     StoreInvariant, UnansweredIsPending
<1>2. Registry!Free(asked[r])
  <2> SUFFICES ASSUME NEW u \in Version, versionItem[u] # NoTimestamp
               PROVE  u # v /\ versionItem[u] # t
    BY DEF Registry!Free, Stored
  <2> QED
    BY <1>1, DynamoAssumption DEF StoreInvariant, ItemsAgree
<1>3. StoredSet' = StoredSet \union {asked[r]}
  <2>1. \A u \in Version : versionItem'[u] = IF u = v THEN t ELSE versionItem[u]
    BY <1>1 DEF StoreInvariant, TypeOK
  <2>2. \A u \in Version \ {v} : Stored(u)' = Stored(u)
    BY <2>1 DEF Stored
  <2>3. \A u \in Version : u = v => Stored(u)' = asked[r]
    BY <1>1, <2>1 DEF Stored
  <2>4. {u \in Version : versionItem'[u] # NoTimestamp}
          = {u \in Version : versionItem[u] # NoTimestamp} \union {v}
    BY <1>1, <2>1, DynamoAssumption
  <2>5. StoredSet' = {Stored(u)' : u \in {u \in Version : versionItem'[u] # NoTimestamp}}
    BY DEF StoredSet
  <2> QED
    BY <1>1, <2>2, <2>3, <2>4, <2>5 DEF StoredSet
<1>4. asked' = asked
  BY DEF Write, Finish, Retry
<1>5. \/ UNCHANGED reply
      \/ \E answer \in {Answer("created", asked[r]), Failure} :
           reply' = [reply EXCEPT ![r] = answer]
  BY DEF Write, Finish, Retry
<1> QED
  BY <1>1, <1>2, <1>3, <1>4, <1>5
  DEF Registry!Create, StoredSet, Answer, Registry!Answer, Failure, Registry!Failure,
      Pending, Registry!Pending

LEMMA StepRefines ==
  ASSUME StoreInvariant, [Next]_vars
  PROVE  [Registry!Next]_(Registry!registryVars)
<1>1. ASSUME NEW r \in Request, ReadVersion(r)
      PROVE  Registry!Next \/ UNCHANGED Registry!registryVars
  <2>1. CASE Known(r) /\ Finish(r, Answer("existing", Stored(asked[r].version)))
    BY <1>1, <2>1, ExistingRefines DEF ReadVersion, Registry!Next
  <2>2. CASE Goto(r, "write")
    BY <1>1, <2>2 DEF ReadVersion, Goto, items, Stored, Registry!registryVars
  <2> QED
    BY <1>1, <2>1, <2>2 DEF ReadVersion
<1>2. ASSUME NEW r \in Request, Write(r)
      PROVE  Registry!Next
  BY <1>2, WriteRefines DEF Registry!Next
<1>3. ASSUME NEW r \in Request, Cancelled(r)
      PROVE  UNCHANGED Registry!registryVars
  BY <1>3 DEF Cancelled, Goto, items, Stored, Registry!registryVars
<1>4. ASSUME NEW r \in Request, RereadVersion(r)
      PROVE  Registry!Next \/ UNCHANGED Registry!registryVars
  <2>1. CASE Known(r) /\ Finish(r, Answer("existing", Stored(asked[r].version)))
    BY <1>4, <2>1, ExistingRefines DEF RereadVersion, Registry!Next
  <2>2. CASE Goto(r, "holder")
    BY <1>4, <2>2 DEF RereadVersion, Goto, items, Stored, Registry!registryVars
  <2> QED
    BY <1>4, <2>1, <2>2 DEF RereadVersion
<1>5. ASSUME NEW r \in Request, ReadHolder(r)
      PROVE  Registry!Next
  <2> DEFINE s == [version |-> Holder(r), timestamp |-> asked[r].timestamp]
  <2>1. CASE Holder(r) # NoVersion /\ Finish(r, Answer("conflict", s))
    <3>1. s \in StoredSet
      <4>1. /\ Holder(r) \in Version
            /\ versionItem[Holder(r)] = asked[r].timestamp
            /\ versionItem[Holder(r)] # NoTimestamp
        BY <2>1, EntryTyped, DynamoAssumption DEF StoreInvariant, ItemsAgree, Holder
      <4> QED
        BY <4>1 DEF StoredSet, Stored
    <3>2. Registry!Reports(r, Registry!Answer("conflict", s))
      BY <1>5, <2>1, FinishReports DEF ReadHolder, Answer, Registry!Answer
    <3>3. Registry!ReportConflict(r)
      BY <3>1, <3>2 DEF StoredSet, Registry!ReportConflict
    <3> QED
      BY <3>3 DEF Registry!Next
  <2>2. CASE Finish(r, Failure)
    BY <1>5, <2>2, FinishReports
    DEF ReadHolder, Failure, Registry!Failure, Registry!Fail, Registry!Next
  <2> QED
    BY <1>5, <2>1, <2>2 DEF ReadHolder
<1>6. ASSUME NEW r \in Request, CallFails(r)
      PROVE  Registry!Next \/ UNCHANGED Registry!registryVars
  BY <1>6, RetryRefines DEF CallFails, Registry!Next
<1>7. CASE UNCHANGED vars
  BY <1>7 DEF vars, retryVars, Stored, Registry!registryVars
<1> QED
  BY <1>1, <1>2, <1>3, <1>4, <1>5, <1>6, <1>7 DEF Next, RequestStep, Ended

\* DynamoDBImageInfoStore behind its retries keeps the registry's promise,
\* whatever answers are lost and whatever transactions are cancelled.
THEOREM StoreImplementsRegistry == Spec => ImplementsRegistry
<1>1. Init => Registry!Init
  BY InitRefines
<1>2. StoreInvariant /\ [Next]_vars => [Registry!Next]_(Registry!registryVars)
  BY StepRefines
<1> QED
  BY <1>1, <1>2, StoreHolds, PTL DEF Spec, ImplementsRegistry, Registry!RegistrySpec

-----------------------------------------------------------------------------
(* What the registry promises, of DynamoStore *)

RegistryProofs == INSTANCE VersionRegistryProofs WITH
  stored <- {Stored(v) : v \in {u \in Version : versionItem[u] # NoTimestamp}}

\* Every answer of register speaks of a stored version, and at most one request
\* for a version is told it created it (RegisterResult.created).
THEOREM AnswersAlwaysTrue == Spec => []AnswersTrue
<1>1. RegistryProofs!RegistrySpec => []RegistryProofs!RegistryInvariant
  BY RegistryProofs!RegistryHolds
<1>2. RegistryProofs!RegistrySpec => []RegistryProofs!CreatedOnce
  BY RegistryProofs!CreatedAtMostOnce
<1>3. Registry!Init => RegistryProofs!Init
  BY DEF Registry!Init, Registry!Entry, Registry!Pending,
         RegistryProofs!Init, RegistryProofs!Entry, RegistryProofs!Pending
<1>4. [Registry!Next]_(Registry!registryVars)
        => [RegistryProofs!Next]_(RegistryProofs!registryVars)
  BY DEF Registry!Next, Registry!Create, Registry!Free, Registry!ReportCreated,
         Registry!ReportExisting, Registry!ReportConflict, Registry!Fail,
         Registry!Reports, Registry!Answer, Registry!Pending, Registry!Failure,
         Registry!registryVars,
         RegistryProofs!Next, RegistryProofs!Create, RegistryProofs!Free,
         RegistryProofs!ReportCreated, RegistryProofs!ReportExisting,
         RegistryProofs!ReportConflict, RegistryProofs!Fail, RegistryProofs!Reports,
         RegistryProofs!Answer, RegistryProofs!Pending, RegistryProofs!Failure,
         RegistryProofs!registryVars
<1>5. RegistryProofs!RegistryInvariant /\ RegistryProofs!CreatedOnce => AnswersTrue
  BY DEF AnswersTrue, Registry!AnswersStored, Registry!CreatedOnce,
         RegistryProofs!RegistryInvariant, RegistryProofs!AnswersStored,
         RegistryProofs!CreatedOnce
<1> QED
  BY <1>1, <1>2, <1>3, <1>4, <1>5, StoreImplementsRegistry, PTL
  DEF ImplementsRegistry, Registry!RegistrySpec, RegistryProofs!RegistrySpec

-----------------------------------------------------------------------------
(* Without contention *)

LEMMA ConflictStep ==
  ASSUME ~Contention, StoreInvariant, ConflictNamesAnother, [Next]_vars
  PROVE  ConflictNamesAnother'
<1> USE DEF ConflictNamesAnother, Registry!ConflictNamesAnother
<1>1. ASSUME NEW r \in Request, NEW answer \in Reply, Finish(r, answer),
             answer.kind = "conflict" =>
               \A s \in answer.entry : s.version # asked[r].version
      PROVE  ConflictNamesAnother'
  BY <1>1 DEF Finish, StoreInvariant, TypeOK, RetryTypeOK
<1>2. ASSUME UNCHANGED <<asked, reply>>
      PROVE  ConflictNamesAnother'
  BY <1>2
<1>3. ASSUME NEW r \in Request, Known(r),
             Finish(r, Answer("existing", Stored(asked[r].version)))
      PROVE  ConflictNamesAnother'
  BY <1>1, <1>3, AnswerIsReply, EntryTyped DEF Answer
<1>4. Failure \in Reply /\ Failure.kind = "failed"
  BY DEF Failure, Reply
<1>5. ASSUME NEW r \in Request, Retry(r)
      PROVE  ConflictNamesAnother'
  BY <1>1, <1>2, <1>4, <1>5 DEF Retry
<1>6. ASSUME NEW r \in Request, Finish(r, Answer("created", asked[r]))
      PROVE  ConflictNamesAnother'
  BY <1>1, <1>6, AnswerIsReply, EntryTyped DEF Answer
<1>7. ASSUME NEW r \in Request, ReadHolder(r)
      PROVE  ConflictNamesAnother'
  <2> DEFINE s == [version |-> Holder(r), timestamp |-> asked[r].timestamp]
  <2>1. CASE Holder(r) # NoVersion /\ Finish(r, Answer("conflict", s))
    <3>1. s \in Entry /\ s.version # asked[r].version
      BY <1>7, <2>1, EntryTyped
      DEF ReadHolder, StoreInvariant, CancelledForCause, Entry
    <3>2. Answer("conflict", s) \in Reply /\ Answer("conflict", s).entry = {s}
      BY <3>1, AnswerIsReply DEF Answer
    <3> QED
      BY <1>1, <2>1, <3>1, <3>2
  <2>2. CASE Finish(r, Failure)
    BY <1>1, <1>4, <2>2
  <2> QED
    BY <1>7, <2>1, <2>2 DEF ReadHolder
<1>8. ASSUME NEW r \in Request, RequestStep(r)
      PROVE  ConflictNamesAnother'
  BY <1>2, <1>3, <1>5, <1>6, <1>7, <1>8
  DEF RequestStep, ReadVersion, Write, Cancelled, RereadVersion, CallFails, Goto
<1> QED
  BY <1>2, <1>8 DEF Next, Ended, vars, retryVars

\* A registration is told that it conflicts with its own version only because a
\* transaction was cancelled for another's sake: where none is, whatever answers
\* are lost, a conflict names another version (TimestampConflictError).
THEOREM WithoutContentionConflictsName ==
  ASSUME ~Contention
  PROVE  Spec => []ConflictNamesAnother
<1>1. Init => ConflictNamesAnother
  BY DEF Init, RetryInit, Pending, ConflictNamesAnother, Registry!ConflictNamesAnother
<1>2. StoreInvariant /\ ConflictNamesAnother /\ [Next]_vars => ConflictNamesAnother'
  BY ConflictStep
<1> QED
  BY <1>1, <1>2, StoreHolds, PTL DEF Spec

-----------------------------------------------------------------------------
(* SurrealDB: one step for each action *)

Queries == {"read", "create", "findVersion", "findTimestamp", "end"}

\* A request is not refused if its record was created.
NotRefused(r) == reply[r].kind = "conflict" => r \notin creator

LEMMA SurrealParts ==
  SurrealInvariant <=> /\ RequestsOK(Queries)
                       /\ record \in [Version -> Timestamp \union {NoRecord}]
                       /\ RecordsDiffer
                       /\ RecordsCreated
                       /\ CreatorsReadAgain
                       /\ \A r \in Request : NotRefused(r)
  BY DEF SurrealInvariant, SurrealTypeOK, RequestsOK, RetryTypeOK, Queries,
         CreatorsAreNotRefused, NotRefused

\* The same parts after a step.
LEMMA SurrealPartsAfter ==
  ASSUME RequestsOK(Queries)',
         record' \in [Version -> Timestamp \union {NoRecord}],
         RecordsDiffer', RecordsCreated', CreatorsReadAgain',
         \A r \in Request : NotRefused(r)'
  PROVE  SurrealInvariant'
<1>1. CreatorsAreNotRefused'
  BY DEF CreatorsAreNotRefused, NotRefused, RequestsOK, RetryTypeOK
<1> QED
  BY <1>1 DEF SurrealInvariant, SurrealTypeOK, RequestsOK, Queries

LEMMA SurrealInitially == SurrealInit => SurrealInvariant
<1> SUFFICES ASSUME SurrealInit
             PROVE  SurrealInvariant
  OBVIOUS
<1>1. RequestsOK(Queries)
  BY RetryAssumption
  DEF SurrealInit, RetryInit, RequestsOK, RetryTypeOK, UnansweredIsPending, Queries,
      Reply
<1>2. /\ record \in [Version -> Timestamp \union {NoRecord}]
      /\ RecordsDiffer /\ RecordsCreated /\ CreatorsReadAgain
  BY DEF SurrealInit, RetryInit, RecordsDiffer, RecordsCreated, CreatorsReadAgain
<1>3. \A r \in Request : NotRefused(r)
  BY DEF SurrealInit, RetryInit, NotRefused, Pending
<1> QED
  BY <1>1, <1>2, <1>3, SurrealParts

LEMMA AskedTyped ==
  ASSUME SurrealInvariant, NEW r \in Request
  PROVE  /\ asked[r] = [version |-> asked[r].version, timestamp |-> asked[r].timestamp]
         /\ asked[r] \in Entry
         /\ asked[r].version \in Version
         /\ asked[r].timestamp \in Timestamp
         /\ OnRecord(r) => Record(asked[r].version) \in Entry
  BY SurrealParts DEF RequestsOK, RetryTypeOK, Entry, OnRecord, Record

\* A step of r that leaves the records alone, and does not send it back to where
\* it has been if it created one.
LEMMA RecordsAlone ==
  ASSUME SurrealInvariant, NEW r \in Request, UNCHANGED <<record, creator, asked>>,
         RequestsOK(Queries)',
         \A q \in Request \ {r} : step'[q] = step[q] /\ reply'[q] = reply[q],
         r \in creator => step'[r] \in {"read", "end"},
         NotRefused(r)'
  PROVE  SurrealInvariant'
<1>1. record' \in [Version -> Timestamp \union {NoRecord}]
      /\ RecordsDiffer' /\ RecordsCreated'
  BY SurrealParts DEF RecordsDiffer, RecordsCreated, Record
<1>2. CreatorsReadAgain'
  <2>1. creator \subseteq Request
    BY SurrealParts DEF RequestsOK, RetryTypeOK
  <2> QED
    BY <2>1, SurrealParts DEF CreatorsReadAgain, OnRecord
<1>3. ASSUME NEW q \in Request
      PROVE  NotRefused(q)'
  <2>1. NotRefused(q)
    BY SurrealParts
  <2> QED
    BY <2>1 DEF NotRefused
<1> QED
  BY <1>1, <1>2, <1>3, SurrealPartsAfter

\* What a call does to the request that makes it, and to no other.
LEMMA GotoAlone ==
  ASSUME SurrealInvariant, NEW r \in Request, NEW label, Goto(r, label)
  PROVE  /\ asked' = asked /\ reply' = reply /\ step'[r] = label
         /\ \A q \in Request \ {r} : step'[q] = step[q]
  BY SurrealParts DEF RequestsOK, RetryTypeOK, Goto

LEMMA FinishAlone ==
  ASSUME SurrealInvariant, NEW r \in Request, NEW answer, Finish(r, answer)
  PROVE  /\ asked' = asked /\ step'[r] = "end" /\ reply'[r] = answer
         /\ \A q \in Request \ {r} : step'[q] = step[q] /\ reply'[q] = reply[q]
  BY SurrealParts DEF RequestsOK, RetryTypeOK, Finish

LEMMA RetryAlone ==
  ASSUME SurrealInvariant, NEW r \in Request, Retry(r)
  PROVE  /\ asked' = asked /\ step'[r] \in {"read", "end"}
         /\ reply'[r] \in {reply[r], Failure}
         /\ \A q \in Request \ {r} : step'[q] = step[q] /\ reply'[q] = reply[q]
  BY SurrealParts DEF RequestsOK, RetryTypeOK, Retry, Finish

\* No other answer refuses the request.
LEMMA OtherAnswersTell ==
  ASSUME NEW r, reply'[r].kind # "conflict"
  PROVE  NotRefused(r)'
  BY DEF NotRefused

LEMMA GotoHolds ==
  ASSUME SurrealInvariant, NEW r \in Request, step[r] # "end",
         NEW label \in Queries \ {"end"}, Goto(r, label), UNCHANGED <<record, creator>>,
         r \notin creator
  PROVE  SurrealInvariant'
<1>1. RequestsOK(Queries)'
  BY GotoKeeps, SurrealParts
<1>2. NotRefused(r)'
  BY GotoAlone, SurrealParts DEF NotRefused
<1> QED
  BY <1>1, <1>2, GotoAlone, RecordsAlone

LEMMA FinishHolds ==
  ASSUME SurrealInvariant, NEW r \in Request, NEW answer \in Reply, Finish(r, answer),
         UNCHANGED <<record, creator>>,
         answer.kind = "conflict" => r \notin creator
  PROVE  SurrealInvariant'
<1>1. RequestsOK(Queries)'
  BY FinishKeeps, SurrealParts DEF Queries
<1>2. NotRefused(r)'
  BY FinishAlone DEF NotRefused
<1> QED
  BY <1>1, <1>2, FinishAlone, RecordsAlone

LEMMA FailingHolds ==
  ASSUME SurrealInvariant, NEW r \in Request, Finish(r, Failure),
         UNCHANGED <<record, creator>>
  PROVE  SurrealInvariant'
<1>1. Failure.kind # "conflict"
  BY DEF Failure
<1> QED
  BY <1>1, FailureIsReply, FinishHolds

LEMMA FoundHolds ==
  ASSUME SurrealInvariant, NEW r \in Request, OnRecord(r),
         Finish(r, Answer("existing", Record(asked[r].version))),
         UNCHANGED <<record, creator>>
  PROVE  SurrealInvariant'
<1>1. Answer("existing", Record(asked[r].version)) \in Reply
  BY AskedTyped, AnswerIsReply
<1>2. Answer("existing", Record(asked[r].version)).kind # "conflict"
  BY DEF Answer
<1> QED
  BY <1>1, <1>2, FinishHolds

LEMMA SelectVersionHolds ==
  ASSUME SurrealInvariant, NEW r \in Request, SelectVersion(r)
  PROVE  SurrealInvariant'
<1>1. /\ step[r] = "read" /\ UNCHANGED <<record, creator>>
      /\ \/ OnRecord(r) /\ Finish(r, Answer("existing", Record(asked[r].version)))
         \/ ~OnRecord(r) /\ Goto(r, "create")
  BY DEF SelectVersion, FindVersion
<1>2. CASE ~OnRecord(r) /\ Goto(r, "create")
  <2>1. r \notin creator
    BY <1>2, SurrealParts DEF CreatorsReadAgain
  <2> QED
    BY <1>1, <1>2, <2>1, GotoHolds DEF Queries
<1> QED
  BY <1>1, <1>2, FoundHolds

\* A request that is not at its start or its end has created nothing.
LEMMA NotCreator ==
  ASSUME SurrealInvariant, NEW r \in Request, step[r] \notin {"read", "end"}
  PROVE  r \notin creator
  BY SurrealParts DEF CreatorsReadAgain

LEMMA DuplicateHolds ==
  ASSUME SurrealInvariant, NEW r \in Request,
         DuplicateVersion(r) \/ DuplicateTimestamp(r)
  PROVE  SurrealInvariant'
<1>1. PICK label \in {"findVersion", "findTimestamp"} : Goto(r, label)
  BY DEF DuplicateVersion, DuplicateTimestamp
<1>2. step[r] = "create" /\ UNCHANGED <<record, creator>>
  BY DEF DuplicateVersion, DuplicateTimestamp
<1>3. r \notin creator
  BY <1>2, NotCreator
<1> QED
  BY <1>1, <1>2, <1>3, GotoHolds DEF Queries

LEMMA FindDuplicateHolds ==
  ASSUME SurrealInvariant, NEW r \in Request, FindDuplicate(r)
  PROVE  SurrealInvariant'
<1>1. /\ UNCHANGED <<record, creator>>
      /\ \/ OnRecord(r) /\ Finish(r, Answer("existing", Record(asked[r].version)))
         \/ Finish(r, Failure)
  BY DEF FindDuplicate, FindVersion
<1> QED
  BY <1>1, FoundHolds, FailingHolds

\* A holder of the timestamp that is the version asked for was registered by
\* another request: this one would not have come here.
LEMMA FindHolderHolds ==
  ASSUME SurrealInvariant, NEW r \in Request, FindHolder(r)
  PROVE  SurrealInvariant'
<1>1. step[r] = "findTimestamp" /\ UNCHANGED <<record, creator>>
  BY DEF FindHolder
<1>2. ASSUME NEW v \in Holders(r), Finish(r, Answer("conflict", Record(v)))
      PROVE  SurrealInvariant'
  <2>1. v \in Version /\ record[v] = asked[r].timestamp /\ record[v] \in Timestamp
    BY AskedTyped DEF Holders
  <2>2. record[v] # NoRecord /\ Record(v) \in Entry
    BY <2>1, SurrealAssumption DEF Record, Entry
  <2>3. Answer("conflict", Record(v)) \in Reply
    BY <2>2, AnswerIsReply
  <2>4. r \notin creator
    BY <1>1, NotCreator
  <2> QED
    BY <1>1, <1>2, <2>3, <2>4, FinishHolds
<1> QED
  BY <1>1, <1>2, FailingHolds DEF FindHolder

LEMMA QueryFailsHolds ==
  ASSUME SurrealInvariant, NEW r \in Request, QueryFails(r)
  PROVE  SurrealInvariant'
<1>1. step[r] # "end" /\ Retry(r) /\ UNCHANGED <<record, creator>>
  BY DEF QueryFails
<1>2. RequestsOK(Queries)'
  BY <1>1, RetryKeeps, SurrealParts DEF Queries
<1>3. reply[r] = Pending
  BY <1>1, SurrealParts DEF RequestsOK, UnansweredIsPending
<1>4. reply'[r].kind # "conflict"
  BY <1>1, <1>3, RetryAlone DEF Pending, Failure
<1> QED
  BY <1>1, <1>2, <1>4, RetryAlone, RecordsAlone, OtherAnswersTell

\* What a create that breaks no index does, its answer lost or not.
LEMMA Created ==
  ASSUME SurrealInvariant, NEW r \in Request, Create(r)
  PROVE  /\ reply[r] = Pending
         /\ asked' = asked
         /\ creator' = creator \union {r}
         /\ step'[r] \in {"read", "end"}
         /\ reply'[r] \in {Pending, Answer("created", asked[r]), Failure}
         /\ \A q \in Request \ {r} : step'[q] = step[q] /\ reply'[q] = reply[q]
         /\ \A v \in Version :
              record'[v] = IF v = asked[r].version THEN asked[r].timestamp ELSE record[v]
         /\ record[asked[r].version] = NoRecord
         /\ \A v \in Version : record[v] # asked[r].timestamp
<1>1. /\ step[r] = "create" /\ Broken(r) = {} /\ creator' = creator \union {r}
      /\ record' = [record EXCEPT ![asked[r].version] = asked[r].timestamp]
      /\ Finish(r, Answer("created", asked[r])) \/ Retry(r)
  BY DEF Create
<1>2. reply[r] = Pending
  BY <1>1, SurrealParts DEF RequestsOK, UnansweredIsPending
<1>3. /\ asked' = asked
      /\ step'[r] \in {"read", "end"}
      /\ reply'[r] \in {Pending, Answer("created", asked[r]), Failure}
      /\ \A q \in Request \ {r} : step'[q] = step[q] /\ reply'[q] = reply[q]
  BY <1>1, <1>2, FinishAlone, RetryAlone
<1>4. ~OnRecord(r) /\ Holders(r) = {}
  BY <1>1 DEF Broken
<1>5. \A v \in Version :
        record'[v] = IF v = asked[r].version THEN asked[r].timestamp ELSE record[v]
  BY <1>1, SurrealParts
<1> QED
  BY <1>1, <1>2, <1>3, <1>4, <1>5 DEF OnRecord, Holders

LEMMA CreateHolds ==
  ASSUME SurrealInvariant, NEW r \in Request, Create(r)
  PROVE  SurrealInvariant'
<1> DEFINE a == asked[r]
<1>1. RequestsOK(Queries)'
  <2>1. /\ step[r] # "end" /\ creator' = creator \union {r} /\ RequestsOK(Queries)
        /\ Finish(r, Answer("created", asked[r])) \/ Retry(r)
    BY SurrealParts DEF Create
  <2>2. Answer("created", asked[r]) \in Reply
    BY AskedTyped, AnswerIsReply
  <2> QED
    BY <2>1, <2>2, FinishKeeps, RetryKeeps DEF Queries
<1>2. record' \in [Version -> Timestamp \union {NoRecord}]
  BY AskedTyped, SurrealParts DEF Create
<1>3. RecordsDiffer'
  BY Created, SurrealParts DEF RecordsDiffer
<1>4. RecordsCreated'
  <2> SUFFICES ASSUME NEW v \in Version, record'[v] # NoRecord
               PROVE  \E q \in creator' : asked'[q] = Record(v)'
    BY DEF RecordsCreated
  <2>1. CASE v = a.version
    <3>1. record'[v] = a.timestamp
      BY <2>1, Created
    <3>2. a = [version |-> a.version, timestamp |-> a.timestamp]
      BY AskedTyped, Zenon
    <3>3. Record(v)' = a
      BY <2>1, <3>1, <3>2 DEF Record
    <3>4. r \in creator' /\ asked'[r] = a
      BY Created
    <3> QED
      BY <3>3, <3>4
  <2>2. CASE v # a.version
    <3>1. record'[v] = record[v]
      BY <2>2, Created
    <3>2. Record(v)' = Record(v)
      BY <3>1 DEF Record
    <3>3. PICK q \in creator : asked[q] = Record(v)
      BY <3>1, SurrealParts DEF RecordsCreated
    <3> QED
      BY <3>2, <3>3, Created
  <2> QED
    BY <2>1, <2>2
<1>5. CreatorsReadAgain'
  <2> SUFFICES ASSUME NEW q \in creator'
               PROVE  OnRecord(q)' /\ step'[q] \in {"read", "end"}
    BY DEF CreatorsReadAgain
  <2>1. q \in Request
    BY <1>1 DEF RequestsOK, RetryTypeOK
  <2>2. asked'[q] = asked[q] /\ asked[q].version \in Version
    BY <2>1, Created, AskedTyped
  <2>3. a.timestamp # NoRecord
    BY AskedTyped, SurrealAssumption
  <2>4. CASE q = r
    BY <2>2, <2>3, <2>4, Created DEF OnRecord
  <2>5. CASE q # r
    <3>1. q \in creator
      BY <2>5, Created
    <3>2. OnRecord(q) /\ step[q] \in {"read", "end"}
      BY <3>1, SurrealParts DEF CreatorsReadAgain
    <3> QED
      BY <2>1, <2>2, <2>3, <2>5, <3>2, Created DEF OnRecord
  <2> QED
    BY <2>4, <2>5
<1>6. ASSUME NEW q \in Request
      PROVE  NotRefused(q)'
  <2>1. CASE q = r
    <3>1. reply'[r].kind # "conflict"
      BY Created DEF Pending, Answer, Failure
    <3> QED
      BY <2>1, <3>1, OtherAnswersTell
  <2>2. CASE q # r
    <3>1. NotRefused(q)
      BY SurrealParts
    <3>2. reply'[q] = reply[q] /\ creator' = creator \union {r}
      BY <2>2, Created
    <3> QED
      BY <2>2, <3>1, <3>2 DEF NotRefused
  <2> QED
    BY <2>1, <2>2
<1> QED
  BY <1>1, <1>2, <1>3, <1>4, <1>5, <1>6, SurrealPartsAfter

LEMMA SurrealInductive ==
  ASSUME SurrealInvariant, [SurrealNext]_surrealVars
  PROVE  SurrealInvariant'
<1>1. ASSUME NEW r \in Request, NotCommitted(r)
      PROVE  SurrealInvariant'
  BY <1>1, FailingHolds DEF NotCommitted
<1>2. ASSUME NEW r \in Request, SurrealStep(r)
      PROVE  SurrealInvariant'
  BY <1>1, <1>2, SelectVersionHolds, CreateHolds, DuplicateHolds, FindDuplicateHolds,
     FindHolderHolds, QueryFailsHolds DEF SurrealStep
<1>3. CASE UNCHANGED surrealVars
  <2>1. UNCHANGED <<asked, step, attempt, reply, creator, record>>
    BY <1>3 DEF surrealVars, retryVars
  <2>2. RequestsOK(Queries)'
    BY <2>1, SurrealParts DEF RequestsOK, RetryTypeOK, UnansweredIsPending
  <2>3. RecordsDiffer' /\ RecordsCreated' /\ CreatorsReadAgain'
        /\ record' \in [Version -> Timestamp \union {NoRecord}]
    BY <2>1, SurrealParts
    DEF RecordsDiffer, RecordsCreated, CreatorsReadAgain, Record, OnRecord
  <2>4. \A r \in Request : NotRefused(r)'
    BY <2>1, SurrealParts DEF NotRefused
  <2> QED
    BY <2>2, <2>3, <2>4, SurrealPartsAfter
<1> QED
  BY <1>2, <1>3 DEF SurrealNext, SurrealEnded

\* The invariant of records, retries and answers holds in every reachable state
\* (SurrealImageInfoStore.register behind _run).
THEOREM SurrealHolds == SurrealSpec => []SurrealInvariant
<1>1. SurrealInit => SurrealInvariant
  BY SurrealInitially
<1>2. SurrealInvariant /\ [SurrealNext]_surrealVars => SurrealInvariant'
  BY SurrealInductive
<1> QED
  BY <1>1, <1>2, PTL DEF SurrealSpec

\* The registration that stored a version is never told that it conflicts,
\* whatever answers are lost and whichever index SurrealDB names
\* (SurrealImageInfoStore.register).
THEOREM CreatorsAreNeverRefused == SurrealSpec => []CreatorsAreNotRefused
<1>1. SurrealInvariant => CreatorsAreNotRefused
  BY DEF SurrealInvariant
<1> QED
  BY <1>1, SurrealHolds, PTL

-----------------------------------------------------------------------------
(* SurrealDB: refinement *)

RecordSet == {Record(v) : v \in {u \in Version : record[u] # NoRecord}}

LEMMA SurrealInitRefines == SurrealInit => SurrealRegistry!Init
  BY DEF SurrealInit, RetryInit, SurrealRegistry!Init, Record, Entry,
         SurrealRegistry!Entry, Pending, SurrealRegistry!Pending

\* An answer that leaves the records alone is one of the registry's reports.
LEMMA SurrealReports ==
  ASSUME SurrealInvariant, NEW r \in Request, step[r] # "end", NEW answer,
         Finish(r, answer), UNCHANGED <<record, creator>>
  PROVE  SurrealRegistry!Reports(r, answer)
<1>1. reply[r] = Pending
  BY SurrealParts DEF RequestsOK, UnansweredIsPending
<1> QED
  BY <1>1 DEF Finish, Record, Pending, SurrealRegistry!Pending, SurrealRegistry!Reports

LEMMA FailureRefines ==
  ASSUME SurrealInvariant, NEW r \in Request, step[r] # "end",
         Finish(r, Failure), UNCHANGED <<record, creator>>
  PROVE  SurrealRegistry!Next
<1>1. SurrealRegistry!Fail(r)
  BY SurrealReports DEF Failure, SurrealRegistry!Failure, SurrealRegistry!Fail
<1> QED
  BY <1>1 DEF SurrealRegistry!Next

LEMMA FoundRefines ==
  ASSUME SurrealInvariant, NEW r \in Request, step[r] # "end", OnRecord(r),
         Finish(r, Answer("existing", Record(asked[r].version))),
         UNCHANGED <<record, creator>>
  PROVE  SurrealRegistry!Next
<1>1. Record(asked[r].version) \in RecordSet
  BY AskedTyped DEF RecordSet, OnRecord
<1>2. SurrealRegistry!Reports(r, SurrealRegistry!Answer("existing", Record(asked[r].version)))
  BY SurrealReports DEF Answer, SurrealRegistry!Answer
<1>3. Record(asked[r].version).version = asked[r].version
  BY DEF Record
<1>4. SurrealRegistry!ReportExisting(r)
  BY <1>1, <1>2, <1>3 DEF RecordSet, SurrealRegistry!ReportExisting
<1> QED
  BY <1>4 DEF SurrealRegistry!Next

LEMMA HolderRefines ==
  ASSUME SurrealInvariant, NEW r \in Request, step[r] # "end", NEW v \in Holders(r),
         Finish(r, Answer("conflict", Record(v))), UNCHANGED <<record, creator>>
  PROVE  SurrealRegistry!Next
<1>1. v \in Version /\ record[v] = asked[r].timestamp /\ record[v] # NoRecord
  BY AskedTyped, SurrealAssumption DEF Holders
<1>2. Record(v) \in RecordSet
  BY <1>1 DEF RecordSet
<1>3. SurrealRegistry!Reports(r, SurrealRegistry!Answer("conflict", Record(v)))
  BY SurrealReports DEF Answer, SurrealRegistry!Answer
<1>4. Record(v).timestamp = asked[r].timestamp
  BY <1>1 DEF Record
<1>5. SurrealRegistry!ReportConflict(r)
  BY <1>2, <1>3, <1>4 DEF RecordSet, SurrealRegistry!ReportConflict
<1> QED
  BY <1>5 DEF SurrealRegistry!Next

LEMMA CreateRefines ==
  ASSUME SurrealInvariant, NEW r \in Request, Create(r)
  PROVE  SurrealRegistry!Create(r)
<1> DEFINE a == asked[r]
<1>1. SurrealRegistry!Free(a)
  BY Created DEF SurrealRegistry!Free, Record
<1>2. RecordSet' = RecordSet \union {a}
  <2>1. a.version \in Version /\ a.timestamp # NoRecord
        /\ a = [version |-> a.version, timestamp |-> a.timestamp]
    BY AskedTyped, SurrealAssumption, Zenon
  <2>2. \A u \in Version \ {a.version} : Record(u)' = Record(u)
    BY Created DEF Record
  <2>3. \A u \in Version : u = a.version => Record(u)' = a
    BY <2>1, Created DEF Record
  <2>4. {u \in Version : record'[u] # NoRecord}
          = {u \in Version : record[u] # NoRecord} \union {a.version}
    BY <2>1, Created
  <2>5. RecordSet' = {Record(u)' : u \in {u \in Version : record'[u] # NoRecord}}
    BY DEF RecordSet
  <2>6. record[a.version] = NoRecord
    BY Created
  <2> QED
    BY <2>1, <2>2, <2>3, <2>4, <2>5, <2>6 DEF RecordSet
<1>3. \/ UNCHANGED reply
      \/ \E answer \in {Answer("created", asked[r]), Failure} :
           reply' = [reply EXCEPT ![r] = answer]
  BY DEF Create, Finish, Retry
<1>4. reply[r] = Pending /\ asked' = asked /\ creator' = creator \union {r}
  BY Created
<1> QED
  BY <1>1, <1>2, <1>3, <1>4
  DEF SurrealRegistry!Create, RecordSet, Answer, SurrealRegistry!Answer, Failure,
      SurrealRegistry!Failure, Pending, SurrealRegistry!Pending

LEMMA SurrealStepRefines ==
  ASSUME SurrealInvariant, [SurrealNext]_surrealVars
  PROVE  [SurrealRegistry!Next]_(SurrealRegistry!registryVars)
<1> DEFINE Refined == SurrealRegistry!Next \/ UNCHANGED SurrealRegistry!registryVars
<1>1. ASSUME UNCHANGED <<asked, record, creator, reply>>
      PROVE  Refined
  BY <1>1 DEF Record, SurrealRegistry!registryVars
<1>2. ASSUME NEW r \in Request, SelectVersion(r)
      PROVE  Refined
  BY <1>1, <1>2, FoundRefines DEF SelectVersion, FindVersion, Goto
<1>3. ASSUME NEW r \in Request, Create(r)
      PROVE  Refined
  BY <1>3, CreateRefines DEF SurrealRegistry!Next
<1>4. ASSUME NEW r \in Request, DuplicateVersion(r) \/ DuplicateTimestamp(r)
      PROVE  Refined
  BY <1>1, <1>4 DEF DuplicateVersion, DuplicateTimestamp, Goto
<1>5. ASSUME NEW r \in Request, NotCommitted(r)
      PROVE  Refined
  BY <1>5, FailureRefines DEF NotCommitted
<1>6. ASSUME NEW r \in Request, FindDuplicate(r)
      PROVE  Refined
  BY <1>6, FoundRefines, FailureRefines DEF FindDuplicate, FindVersion
<1>7. ASSUME NEW r \in Request, FindHolder(r)
      PROVE  Refined
  BY <1>7, HolderRefines, FailureRefines DEF FindHolder
<1>8. ASSUME NEW r \in Request, QueryFails(r)
      PROVE  Refined
  BY <1>1, <1>8, FailureRefines DEF QueryFails, Retry
<1>9. CASE UNCHANGED surrealVars
  BY <1>1, <1>9 DEF surrealVars, retryVars
<1> QED
  BY <1>2, <1>3, <1>4, <1>5, <1>6, <1>7, <1>8, <1>9
  DEF SurrealNext, SurrealStep, SurrealEnded

\* SurrealImageInfoStore behind its retries keeps the registry's promise, whatever
\* answers are lost and whichever index a refused CREATE names.
THEOREM SurrealImplementsTheRegistry == SurrealSpec => SurrealImplementsRegistry
<1>1. SurrealInit => SurrealRegistry!Init
  BY SurrealInitRefines
<1>2. SurrealInvariant /\ [SurrealNext]_surrealVars
        => [SurrealRegistry!Next]_(SurrealRegistry!registryVars)
  BY SurrealStepRefines
<1> QED
  BY <1>1, <1>2, SurrealHolds, PTL
  DEF SurrealSpec, SurrealImplementsRegistry, SurrealRegistry!RegistrySpec

SurrealRegistryProofs == INSTANCE VersionRegistryProofs WITH
  stored <- {Record(v) : v \in {u \in Version : record[u] # NoRecord}}

\* Every answer of register speaks of a stored version, and at most one request
\* for a version is told it created it (RegisterResult.created).
THEOREM SurrealAnswersTrue ==
  SurrealSpec => [](SurrealRegistry!AnswersStored /\ SurrealRegistry!CreatedOnce)
<1>1. SurrealRegistryProofs!RegistrySpec => []SurrealRegistryProofs!RegistryInvariant
  BY SurrealRegistryProofs!RegistryHolds
<1>2. SurrealRegistryProofs!RegistrySpec => []SurrealRegistryProofs!CreatedOnce
  BY SurrealRegistryProofs!CreatedAtMostOnce
<1>3. SurrealRegistry!Init => SurrealRegistryProofs!Init
  BY DEF SurrealRegistry!Init, SurrealRegistry!Entry, SurrealRegistry!Pending,
         SurrealRegistryProofs!Init, SurrealRegistryProofs!Entry,
         SurrealRegistryProofs!Pending
<1>4. [SurrealRegistry!Next]_(SurrealRegistry!registryVars)
        => [SurrealRegistryProofs!Next]_(SurrealRegistryProofs!registryVars)
  BY DEF SurrealRegistry!Next, SurrealRegistry!Create, SurrealRegistry!Free,
         SurrealRegistry!ReportCreated, SurrealRegistry!ReportExisting,
         SurrealRegistry!ReportConflict, SurrealRegistry!Fail, SurrealRegistry!Reports,
         SurrealRegistry!Answer, SurrealRegistry!Pending, SurrealRegistry!Failure,
         SurrealRegistry!registryVars,
         SurrealRegistryProofs!Next, SurrealRegistryProofs!Create,
         SurrealRegistryProofs!Free, SurrealRegistryProofs!ReportCreated,
         SurrealRegistryProofs!ReportExisting, SurrealRegistryProofs!ReportConflict,
         SurrealRegistryProofs!Fail, SurrealRegistryProofs!Reports,
         SurrealRegistryProofs!Answer, SurrealRegistryProofs!Pending,
         SurrealRegistryProofs!Failure, SurrealRegistryProofs!registryVars
<1>5. SurrealRegistryProofs!RegistryInvariant /\ SurrealRegistryProofs!CreatedOnce
        => SurrealRegistry!AnswersStored /\ SurrealRegistry!CreatedOnce
  BY DEF SurrealRegistry!AnswersStored, SurrealRegistry!CreatedOnce,
         SurrealRegistryProofs!RegistryInvariant, SurrealRegistryProofs!AnswersStored,
         SurrealRegistryProofs!CreatedOnce
<1> QED
  BY <1>1, <1>2, <1>3, <1>4, <1>5, SurrealImplementsTheRegistry, PTL
  DEF SurrealImplementsRegistry, SurrealRegistry!RegistrySpec,
      SurrealRegistryProofs!RegistrySpec
==============================================================================
