----------------------------- MODULE DynamoStore -----------------------------
(***************************************************************************)
(* DynamoDBImageInfoStore (dynamodb_store.py) behind the retries: a        *)
(* version is two items of one partition, keyed by the version and by the  *)
(* timestamp, put in one transaction, and the latest version is read from  *)
(* the timestamp item with the greatest sort key.                          *)
(*                                                                         *)
(* DynamoDB is external: reads are consistent, a transaction is applied    *)
(* whole or cancelled, and is cancelled when its conditions fail or,       *)
(* whatever they say, when another is at work on the same items.           *)
(***************************************************************************)
EXTENDS RetryingStore

CONSTANTS
  NoVersion, NoTimestamp,
  Contention   \* whether a transaction may be cancelled for another's sake

\* Timestamps are given as whole seconds and microseconds.
ASSUME DynamoAssumption ==
  /\ Timestamp \subseteq [second : Nat, micro : Nat]
  /\ NoVersion \notin Version
  /\ NoTimestamp \notin Timestamp
  /\ Contention \in BOOLEAN

VARIABLES
  versionItem,    \* per version, the timestamp its item holds
  timestampItem   \* per timestamp, the version its item holds

vars == <<retryVars, versionItem, timestampItem>>
items == <<versionItem, timestampItem>>

TypeOK ==
  /\ RetryTypeOK({"read", "write", "reread", "holder", "end"})
  /\ versionItem \in [Version -> Timestamp \union {NoTimestamp}]
  /\ timestampItem \in [Timestamp -> Version \union {NoVersion}]

Init ==
  /\ RetryInit
  /\ versionItem = [v \in Version |-> NoTimestamp]
  /\ timestampItem = [t \in Timestamp |-> NoVersion]

-----------------------------------------------------------------------------
Stored(v) == [version |-> v, timestamp |-> versionItem[v]]
Known(r) == versionItem[asked[r].version] # NoTimestamp
Holder(r) == timestampItem[asked[r].timestamp]

\* register first asks whether the version is known.
ReadVersion(r) ==
  /\ step[r] = "read"
  /\ \/ Known(r) /\ Finish(r, Answer("existing", Stored(asked[r].version)))
     \/ ~Known(r) /\ Goto(r, "write")
  /\ UNCHANGED <<items, creator>>

\* Mutant: the timestamp's item is put whether or not it exists.
VersionIsNew(r) == ~Known(r)

\* attribute_not_exists(pk) on both items.
ConditionsHold(r) == ~Known(r) /\ Holder(r) = NoVersion

\* Mutant: the version's item is put with no item for its timestamp.
PutVersionOnly(r) ==
  /\ versionItem' = [versionItem EXCEPT ![asked[r].version] = asked[r].timestamp]
  /\ UNCHANGED timestampItem

PutItems(r) ==
  /\ versionItem' = [versionItem EXCEPT ![asked[r].version] = asked[r].timestamp]
  /\ timestampItem' = [timestampItem EXCEPT ![asked[r].timestamp] = asked[r].version]

Write(r) ==
  /\ step[r] = "write"
  /\ ConditionsHold(r)
  /\ PutItems(r)
  /\ creator' = creator \union {r}
  /\ \/ Finish(r, Answer("created", asked[r]))
     \/ ResponseLost /\ Retry(r)

Contended(r) ==
  /\ Contention
  /\ \E q \in Request \ {r} :
       /\ step[q] = "write"
       /\ \/ asked[q].version = asked[r].version
          \/ asked[q].timestamp = asked[r].timestamp

Cancelled(r) ==
  /\ step[r] = "write"
  /\ ~ConditionsHold(r) \/ Contended(r)
  /\ Goto(r, "reread")
  /\ UNCHANGED <<items, creator>>

\* Why the transaction was cancelled is found by reading again, the version's
\* item first: a transaction cancelled for contention may leave neither there.
RereadVersion(r) ==
  /\ step[r] = "reread"
  /\ \/ Known(r) /\ Finish(r, Answer("existing", Stored(asked[r].version)))
     \/ ~Known(r) /\ Goto(r, "holder")
  /\ UNCHANGED <<items, creator>>

ReadHolder(r) ==
  /\ step[r] = "holder"
  /\ \/ /\ Holder(r) # NoVersion
        /\ Finish(r, Answer("conflict", [version   |-> Holder(r),
                                         timestamp |-> asked[r].timestamp]))
     \/ Holder(r) = NoVersion /\ Finish(r, Failure)
  /\ UNCHANGED <<items, creator>>

CallFails(r) ==
  /\ step[r] # "end"
  /\ Retry(r)
  /\ UNCHANGED <<items, creator>>

RequestStep(r) ==
  \/ ReadVersion(r) \/ Write(r) \/ Cancelled(r) \/ RereadVersion(r)
  \/ ReadHolder(r) \/ CallFails(r)

Ended == Answered /\ UNCHANGED vars

Next == (\E r \in Request : RequestStep(r)) \/ Ended

Spec == Init /\ [][Next]_vars

-----------------------------------------------------------------------------
(* Reading the latest version *)

\* A timestamp's sort key is its ISO form, whose fraction is left out when it is
\* zero.  Keys compare as text: seconds alike, "." of a fraction comes before
\* the "Z" that ends a key without one.
KeyBefore(s, t) ==
  \/ s.second < t.second
  \/ s.second = t.second /\ s.micro # 0 /\ t.micro = 0
  \/ s.second = t.second /\ s.micro # 0 /\ t.micro # 0 /\ s.micro < t.micro

Before(s, t) ==
  s.second < t.second \/ (s.second = t.second /\ s.micro < t.micro)

Taken == {t \in Timestamp : timestampItem[t] # NoVersion}

LastKey(T) == CHOOSE t \in T : \A s \in T : s = t \/ KeyBefore(s, t)

LatestVersion == IF Taken = {} THEN NoVersion ELSE timestampItem[LastKey(Taken)]

-----------------------------------------------------------------------------
(* Properties *)

Registry == INSTANCE VersionRegistry WITH
  stored <- {Stored(v) : v \in {u \in Version : versionItem[u] # NoTimestamp}}

\* Concurrent and retried registrations keep VersionRegistry's promise, whatever
\* answers are lost and transactions cancelled.
ImplementsRegistry == Registry!RegistrySpec

\* Answers speak of what is stored, and one request at most is told that it
\* created a version, however many register it at once or again.
AnswersTrue == Registry!AnswersStored /\ Registry!CreatedOnce

\* A conflict is with another version (errors.py, TimestampConflictError).  A
\* transaction cancelled for contention with a registration of the same version
\* and timestamp, which is applied between the two reads that follow, is told
\* it conflicts with itself.
ConflictNamesAnother == Registry!ConflictNamesAnother

\* The two items of a version are there together and agree, so that latest,
\* which reads the one, speaks of what register answers from the other.
ItemsAgree ==
  \A v \in Version, t \in Timestamp : versionItem[v] = t <=> timestampItem[t] = v

\* What a cancelled transaction tells, where none is cancelled for contention:
\* one of the items is there, and stays; past the second look at the version's
\* it is the timestamp's, another version's.
CancelledForCause ==
  \A r \in Request :
    /\ step[r] \in {"reread", "holder"} => ~ConditionsHold(r)
    /\ step[r] = "holder" => Holder(r) \notin {NoVersion, asked[r].version}

\* The inductive invariant of the refinement.
StoreInvariant ==
  /\ TypeOK
  /\ ItemsAgree
  /\ UnansweredIsPending
  /\ ~Contention => CancelledForCause

\* "The latest version for an image is the version whose image/version record
\* has the greatest stored timestamp" (docs/version-service-design.md).  It
\* holds of timestamps that all have a fraction, and not of all timestamps.
LatestIsNewest ==
  \A v \in Version :
    versionItem[v] # NoTimestamp =>
      \/ v = LatestVersion
      \/ Before(versionItem[v], versionItem[LatestVersion])
==============================================================================
