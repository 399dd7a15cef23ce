----------------------------- MODULE SurrealStore -----------------------------
(***************************************************************************)
(* SurrealImageInfoStore (surreal_store.py) behind the retries: a version  *)
(* is a record that two unique indexes cover, and a CREATE that breaks one *)
(* says in its error which.                                                *)
(*                                                                         *)
(* SurrealDB is external: a query sees the records committed before it, a  *)
(* CREATE that breaks both indexes names one of them, and one that meets   *)
(* another on its records may fail to commit with an error of its own.     *)
(***************************************************************************)
EXTENDS RetryingStore

CONSTANTS
  NoRecord,
  NamedOfBoth   \* the indexes a CREATE that breaks both may name

ASSUME SurrealAssumption ==
  /\ NoRecord \notin Timestamp
  /\ NamedOfBoth \subseteq {"imageVersion", "imageTimestamp"}

VARIABLE record   \* per version, the timestamp of its record

surrealVars == <<retryVars, record>>

SurrealTypeOK ==
  /\ RetryTypeOK({"read", "create", "findVersion", "findTimestamp", "end"})
  /\ record \in [Version -> Timestamp \union {NoRecord}]

SurrealInit ==
  /\ RetryInit
  /\ record = [v \in Version |-> NoRecord]

-----------------------------------------------------------------------------
Record(v) == [version |-> v, timestamp |-> record[v]]
OnRecord(r) == record[asked[r].version] # NoRecord
Holders(r) == {v \in Version : record[v] = asked[r].timestamp}

FindVersion(r, label, otherwise) ==
  /\ step[r] = label
  /\ \/ OnRecord(r) /\ Finish(r, Answer("existing", Record(asked[r].version)))
     \/ ~OnRecord(r) /\ otherwise
  /\ UNCHANGED <<record, creator>>

SelectVersion(r) == FindVersion(r, "read", Goto(r, "create"))

\* Mutant: the index over an image's timestamps is not unique.
VersionsUnique(r) == IF OnRecord(r) THEN {"imageVersion"} ELSE {}

Broken(r) ==
  (IF OnRecord(r) THEN {"imageVersion"} ELSE {}) \union
  (IF Holders(r) # {} THEN {"imageTimestamp"} ELSE {})

\* The record is there; whether the request learns so is another matter.
Create(r) ==
  /\ step[r] = "create"
  /\ Broken(r) = {}
  /\ record' = [record EXCEPT ![asked[r].version] = asked[r].timestamp]
  /\ creator' = creator \union {r}
  /\ \/ Finish(r, Answer("created", asked[r]))
     \/ ResponseLost /\ Retry(r)

Names(r, index) ==
  IF Broken(r) = {"imageVersion", "imageTimestamp"} THEN index \in NamedOfBoth
                                                    ELSE Broken(r) = {index}

DuplicateVersion(r) ==
  /\ step[r] = "create"
  /\ Names(r, "imageVersion")
  /\ Goto(r, "findVersion")
  /\ UNCHANGED <<record, creator>>

DuplicateTimestamp(r) ==
  /\ step[r] = "create"
  /\ Names(r, "imageTimestamp")
  /\ Goto(r, "findTimestamp")
  /\ UNCHANGED <<record, creator>>

\* An error that names neither index is not the registration's to explain.
NotCommitted(r) ==
  /\ step[r] = "create"
  /\ \E q \in Request \ {r} :
       /\ step[q] = "create"
       /\ \/ asked[q].version = asked[r].version
          \/ asked[q].timestamp = asked[r].timestamp
  /\ Finish(r, Failure)
  /\ UNCHANGED <<record, creator>>

FindDuplicate(r) == FindVersion(r, "findVersion", Finish(r, Failure))

FindHolder(r) ==
  /\ step[r] = "findTimestamp"
  /\ \/ \E v \in Holders(r) : Finish(r, Answer("conflict", Record(v)))
     \/ Holders(r) = {} /\ Finish(r, Failure)
  /\ UNCHANGED <<record, creator>>

QueryFails(r) ==
  /\ step[r] # "end"
  /\ Retry(r)
  /\ UNCHANGED <<record, creator>>

SurrealStep(r) ==
  \/ SelectVersion(r) \/ Create(r) \/ DuplicateVersion(r) \/ DuplicateTimestamp(r)
  \/ NotCommitted(r) \/ FindDuplicate(r) \/ FindHolder(r) \/ QueryFails(r)

SurrealEnded == Answered /\ UNCHANGED surrealVars

SurrealNext == (\E r \in Request : SurrealStep(r)) \/ SurrealEnded

SurrealSpec == SurrealInit /\ [][SurrealNext]_surrealVars

\* A request's calls have timeouts, and its retries run on the event loop
\* whatever the other requests do.
SurrealFairSpec == SurrealSpec /\ \A r \in Request : WF_surrealVars(SurrealStep(r))

-----------------------------------------------------------------------------
(* Properties *)

SurrealRegistry == INSTANCE VersionRegistry WITH
  stored <- {Record(v) : v \in {u \in Version : record[u] # NoRecord}}

\* Concurrent and retried registrations keep VersionRegistry's promise, whichever
\* index the error of a record that breaks both names.
SurrealImplementsRegistry == SurrealRegistry!RegistrySpec

\* The registration that stored a version is never refused it as a conflict, not
\* even when the answer to its CREATE was lost and another holds the version by
\* then in its name: it reads the version first when it is retried.  (A duplicate
\* of it may be refused: where a CREATE breaks both indexes and the error names
\* the timestamp's, it is told that the version conflicts with itself, although
\* the design has duplicates succeed.)
CreatorsAreNotRefused == \A r \in creator : reply[r].kind # "conflict"

\* Every registration is answered, its attempts being bounded.
EveryRequestAnswered == \A r \in Request : <>(reply[r] # Pending)

-----------------------------------------------------------------------------
(* Why the safety properties last, for the proofs *)

RecordsDiffer ==
  \A u, v \in Version : record[u] = record[v] /\ record[u] # NoRecord => u = v

\* Who a record is from.
RecordsCreated ==
  \A v \in Version :
    record[v] # NoRecord => \E q \in creator : asked[q] = Record(v)

\* A request whose record was created and that is not answered reads again from
\* the start, and finds it there.
CreatorsReadAgain == \A r \in creator : OnRecord(r) /\ step[r] \in {"read", "end"}

\* The inductive invariant, of the refinement and of conflicts.
SurrealInvariant ==
  /\ SurrealTypeOK
  /\ RecordsDiffer
  /\ UnansweredIsPending
  /\ RecordsCreated
  /\ CreatorsReadAgain
  /\ CreatorsAreNotRefused
==============================================================================
