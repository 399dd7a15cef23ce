--------------------------- MODULE VersionRegistry ---------------------------
(***************************************************************************)
(* What the image version store promises about registering: a version      *)
(* keeps the timestamp it was first registered with, no two versions of an *)
(* image share one, a registration is told it created the version at most  *)
(* once and only if it did, and every other answer speaks of a version     *)
(* that is stored.                                                         *)
(*                                                                         *)
(* One image: nothing about one image depends on another.                  *)
(***************************************************************************)
CONSTANTS
  Request,     \* the registrations
  Version,
  Timestamp

VARIABLES
  asked,    \* per request, the version and the timestamp it registers
  stored,   \* the registered versions, each with its timestamp
  creator,  \* the requests that registered a version
  reply     \* per request, its answer

registryVars == <<asked, stored, creator, reply>>

Entry == [version : Version, timestamp : Timestamp]

\* An answer names the entry it is about: the one created or found, or the one
\* already holding the timestamp asked for.
Answer(kind, entry) == [kind |-> kind, entry |-> {entry}]
Pending == [kind |-> "pending", entry |-> {}]
Failure == [kind |-> "failed", entry |-> {}]

Reply ==
  {Pending, Failure} \union
  {Answer(kind, e) : kind \in {"created", "existing", "conflict"}, e \in Entry}

RegistryTypeOK ==
  /\ asked \in [Request -> Entry]
  /\ stored \subseteq Entry
  /\ creator \subseteq Request
  /\ reply \in [Request -> Reply]

Init ==
  /\ asked \in [Request -> Entry]
  /\ stored = {}
  /\ creator = {}
  /\ reply = [r \in Request |-> Pending]

-----------------------------------------------------------------------------
Free(e) == \A s \in stored : s.version # e.version /\ s.timestamp # e.timestamp

\* The answer may follow later, or be lost for good.
Create(r) ==
  /\ reply[r] = Pending
  /\ Free(asked[r])
  /\ stored' = stored \union {asked[r]}
  /\ creator' = creator \union {r}
  /\ \/ UNCHANGED reply
     \/ \E answer \in {Answer("created", asked[r]), Failure} :
          reply' = [reply EXCEPT ![r] = answer]
  /\ UNCHANGED asked

Reports(r, answer) ==
  /\ reply[r] = Pending
  /\ reply' = [reply EXCEPT ![r] = answer]
  /\ UNCHANGED <<asked, stored, creator>>

ReportCreated(r) ==
  /\ r \in creator
  /\ Reports(r, Answer("created", asked[r]))

ReportExisting(r) ==
  \E s \in stored :
    /\ s.version = asked[r].version
    /\ Reports(r, Answer("existing", s))

\* The entry holding the timestamp asked for, which may be the request's own if
\* another registered it in the meantime.
ReportConflict(r) ==
  \E s \in stored :
    /\ s.timestamp = asked[r].timestamp
    /\ Reports(r, Answer("conflict", s))

Fail(r) == Reports(r, Failure)

Next ==
  \E r \in Request :
    \/ Create(r) \/ ReportCreated(r) \/ ReportExisting(r) \/ ReportConflict(r)
    \/ Fail(r)

RegistrySpec == Init /\ [][Next]_registryVars

-----------------------------------------------------------------------------
(* Properties *)

\* Neither a version nor a timestamp is registered twice (the conditions of
\* every backend's write).
OneEach ==
  \A s, t \in stored : s.version = t.version \/ s.timestamp = t.timestamp => s = t

\* Of the requests that ask for a version at most one is told it created it.
CreatedOnce ==
  \A q, r \in Request :
    /\ reply[q].kind = "created"
    /\ reply[r].kind = "created"
    /\ asked[q].version = asked[r].version
    => q = r

\* An answer speaks of an entry that is stored.
AnswersStored == \A r \in Request : reply[r].entry \subseteq stored

\* A conflict names a version other than the one asked for
\* (TimestampConflictError, "Raised when two versions for an image are
\* registered at the same time", errors.py).  The registry does not promise it.
ConflictNamesAnother ==
  \A r \in Request :
    reply[r].kind = "conflict" =>
      \A s \in reply[r].entry : s.version # asked[r].version

CreatorsStored == \A r \in creator : asked[r] \in stored

CreatorsDiffer ==
  \A q, r \in creator : asked[q].version = asked[r].version => q = r

ReportedByCreator ==
  \A r \in Request : reply[r].kind = "created" => r \in creator

\* The inductive invariant: a creator's entry is stored, no two creators asked
\* for the same version, and who is told it created a version did.
RegistryInvariant ==
  /\ RegistryTypeOK
  /\ OneEach
  /\ AnswersStored
  /\ CreatorsStored
  /\ CreatorsDiffer
  /\ ReportedByCreator
==============================================================================
