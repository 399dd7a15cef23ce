---------------------------- MODULE RetryingStore ----------------------------
(***************************************************************************)
(* RetryingImageInfoStore around a backend's register (retrying_store.py): *)
(* a registration that fails in a way that may pass is run again from its  *)
(* start, a bounded number of times.  DynamoStore and SurrealStore extend  *)
(* this module with the steps of a backend, each a request to its server,  *)
(* between which other registrations run.                                  *)
(***************************************************************************)
EXTENDS Naturals, FiniteSets

CONSTANTS
  Request,        \* the registrations, concurrent or one after the other
  Version,
  Timestamp,
  Attempts,       \* attempts
  ResponseLost    \* whether a write may be applied and its answer lost

ASSUME RetryAssumption ==
  /\ Attempts \in Nat \ {0}
  /\ ResponseLost \in BOOLEAN

VARIABLES
  asked,     \* per request, the version and the timestamp it registers
  step,      \* per request, the call to the backend it makes next
  attempt,   \* per request, the attempt it is on
  reply,     \* per request, its answer
  creator    \* the requests whose write was applied (read by properties only)

retryVars == <<asked, step, attempt, reply, creator>>

Entry == [version : Version, timestamp : Timestamp]
Answer(kind, entry) == [kind |-> kind, entry |-> {entry}]
Pending == [kind |-> "pending", entry |-> {}]
Failure == [kind |-> "failed", entry |-> {}]

Reply ==
  {Pending, Failure} \union
  {Answer(kind, e) : kind \in {"created", "existing", "conflict"}, e \in Entry}

RetryTypeOK(Step) ==
  /\ asked \in [Request -> Entry]
  /\ step \in [Request -> Step]
  /\ attempt \in [Request -> 1..Attempts]
  /\ reply \in [Request -> Reply]
  /\ creator \subseteq Request

RetryInit ==
  /\ asked \in [Request -> Entry]
  /\ step = [r \in Request |-> "read"]
  /\ attempt = [r \in Request |-> 1]
  /\ reply = [r \in Request |-> Pending]
  /\ creator = {}

Goto(r, label) ==
  /\ step' = [step EXCEPT ![r] = label]
  /\ UNCHANGED <<asked, attempt, reply>>

\* A conflict, or a failure that is not known to pass, is not tried again.
Finish(r, answer) ==
  /\ reply' = [reply EXCEPT ![r] = answer]
  /\ step' = [step EXCEPT ![r] = "end"]
  /\ UNCHANGED <<asked, attempt>>

\* Mutant: attempts are not counted.
RetryForever(r) == Goto(r, "read")

\* Mutant: the call that failed is made again, not the whole registration.
RetryCall(r) ==
  \/ /\ attempt[r] < Attempts
     /\ attempt' = [attempt EXCEPT ![r] = @ + 1]
     /\ UNCHANGED <<asked, step, reply>>
  \/ /\ attempt[r] = Attempts
     /\ Finish(r, Failure)

\* A transient failure of any call starts the registration again, unless this
\* was the last attempt.
Retry(r) ==
  \/ /\ attempt[r] < Attempts
     /\ attempt' = [attempt EXCEPT ![r] = @ + 1]
     /\ step' = [step EXCEPT ![r] = "read"]
     /\ UNCHANGED <<asked, reply>>
  \/ /\ attempt[r] = Attempts
     /\ Finish(r, Failure)

UnansweredIsPending == \A r \in Request : step[r] # "end" => reply[r] = Pending

Answered == \A r \in Request : step[r] = "end"
==============================================================================
