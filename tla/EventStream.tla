----------------------------- MODULE EventStream -----------------------------
(***************************************************************************)
(* A change reported as server-sent events (_work_events in app.py).  The  *)
(* processor works on a thread of its own, whose progress events reach the *)
(* event loop as callbacks that put them in a queue; the stream takes them *)
(* from there until it comes to the sentinel that closes the queue, and    *)
(* then awaits the task for the outcome.  A client may disconnect at any   *)
(* of the stream's awaits: the stream is then cancelled, the work is not.  *)
(*                                                                         *)
(* asyncio is external: callbacks run in the order they were scheduled,    *)
(* the task is resolved some time after its thread ends, and cancelling a  *)
(* coroutine that awaits an unfinished task cancels that task.             *)
(***************************************************************************)
EXTENDS Naturals, Sequences, SequencesExt

CONSTANTS
  Events,      \* how many progress events the change reports
  LateEvents   \* how many more the waits it leaves running may report

ASSUME StreamAssumption == Events \in Nat /\ LateEvents \in Nat

VARIABLES
  thread,     \* the worker thread: at work, or how its work ended
  emitted,    \* how many events have been reported, by any thread
  closing,    \* how many had been when the sentinel was posted (a set: none yet)
  callbacks,  \* what is scheduled on the event loop, in order
  queue,      \* what the stream has yet to take
  task,       \* the asyncio task awaiting the thread
  stream,     \* where the stream is suspended
  sending,    \* the event being sent; none for a keep-alive
  received,   \* the events the client was sent
  reported,   \* the outcome as the stream reports it
  watched,    \* whether the outcome is left to the log
  logged      \* whether it was logged

threadVars == <<thread, emitted, closing, callbacks>>
streamVars == <<stream, sending, received, reported, watched>>
eventVars == <<threadVars, queue, task, streamVars, logged>>

\* The queue's end, put in it as None; events are numbered as reported.
Sentinel == 0
Event == 1..(Events + LateEvents)

StreamTypeOK ==
  /\ thread \in {"working", "ok", "refused", "crashed"}
  /\ emitted \in 0..(Events + LateEvents)
  /\ closing \subseteq 0..(Events + LateEvents)
  /\ callbacks \in Seq(Event \union {Sentinel})
  /\ queue \in Seq(Event \union {Sentinel})
  /\ task \in {"pending", "done", "cancelled"}
  /\ stream \in {"accepted", "get", "send", "await", "final", "closed"}
  /\ sending \in SUBSET Event
  /\ received \in Seq(Event)
  /\ reported \in {"none", "complete", "error"}
  /\ watched \in BOOLEAN
  /\ logged \in BOOLEAN

StreamInit ==
  /\ thread = "working"
  /\ emitted = 0
  /\ closing = {}
  /\ callbacks = <<>>
  /\ queue = <<>>
  /\ task = "pending"
  /\ stream = "accepted"
  /\ sending = {}
  /\ received = <<>>
  /\ reported = "none"
  /\ watched = FALSE
  /\ logged = FALSE

-----------------------------------------------------------------------------
(* The threads *)

CallSoon(callback) == callbacks' = Append(callbacks, callback)

Emit ==
  /\ thread = "working"
  /\ emitted < Events
  /\ emitted' = emitted + 1
  /\ CallSoon(emitted + 1)
  /\ UNCHANGED <<thread, closing, queue, task, streamVars, logged>>

\* A change that failed may leave waits running, which go on reporting.
EmitLate ==
  /\ thread \in {"refused", "crashed"}
  /\ emitted < Events + LateEvents
  /\ emitted' = emitted + 1
  /\ CallSoon(emitted + 1)
  /\ UNCHANGED <<thread, closing, queue, task, streamVars, logged>>

\* The work ends deployed, refused with an error of its own, or crashes.
EndWork ==
  /\ thread = "working"
  /\ thread' \in {"ok", "refused", "crashed"}
  /\ UNCHANGED <<emitted, closing, callbacks, queue, task, streamVars, logged>>

\* However it ended, the worker thread posts the sentinel after its events.
PostSentinel ==
  /\ thread # "working"
  /\ closing = {}
  /\ CallSoon(Sentinel)
  /\ closing' = {emitted}
  /\ UNCHANGED <<thread, emitted, queue, task, streamVars, logged>>

-----------------------------------------------------------------------------
(* The event loop *)

RunCallback ==
  /\ callbacks # <<>>
  /\ queue' = Append(queue, Head(callbacks))
  /\ callbacks' = Tail(callbacks)
  /\ UNCHANGED <<thread, emitted, closing, task, streamVars, logged>>

\* The thread's end resolves the task, in no order with its callbacks.
Resolve ==
  /\ closing # {}
  /\ task = "pending"
  /\ task' = "done"
  /\ UNCHANGED <<threadVars, queue, streamVars, logged>>

\* The callback the stream leaves on the task says nothing of a cancelled one.
LogOutcome ==
  /\ watched
  /\ task = "done"
  /\ ~logged
  /\ logged' = TRUE
  /\ UNCHANGED <<threadVars, queue, task, streamVars>>

-----------------------------------------------------------------------------
(* The stream *)

SendAccepted ==
  /\ stream = "accepted"
  /\ stream' = "get"
  /\ UNCHANGED <<threadVars, queue, task, sending, received, reported, watched,
                 logged>>

TakeEvent ==
  /\ stream = "get"
  /\ queue # <<>>
  /\ Head(queue) # Sentinel
  /\ sending' = {Head(queue)}
  /\ queue' = Tail(queue)
  /\ stream' = "send"
  /\ UNCHANGED <<threadVars, task, received, reported, watched, logged>>

\* Mutant: the queue is closed as soon as the task is done.
CloseWhenDone ==
  /\ stream = "get"
  /\ task = "done"
  /\ stream' = "await"
  /\ UNCHANGED <<threadVars, queue, task, sending, received, reported, watched,
                 logged>>

TakeSentinel ==
  /\ stream = "get"
  /\ queue # <<>>
  /\ Head(queue) = Sentinel
  /\ queue' = Tail(queue)
  /\ stream' = "await"
  /\ UNCHANGED <<threadVars, task, sending, received, reported, watched,
                 logged>>

\* A heartbeat interval without an event takes nothing from the queue.
KeepAlive ==
  /\ stream = "get"
  /\ queue = <<>>
  /\ sending' = {}
  /\ stream' = "send"
  /\ UNCHANGED <<threadVars, queue, task, received, reported, watched, logged>>

SendEvent ==
  /\ stream = "send"
  /\ received' = received \o SetToSeq(sending)
  /\ sending' = {}
  /\ stream' = "get"
  /\ UNCHANGED <<threadVars, queue, task, reported, watched, logged>>

AwaitTask ==
  /\ stream = "await"
  /\ task = "done"
  /\ thread # "crashed"
  /\ reported' = IF thread = "ok" THEN "complete" ELSE "error"
  /\ stream' = "final"
  /\ UNCHANGED <<threadVars, queue, task, sending, received, watched, logged>>

\* An exception of another kind breaks the stream off and is left to the log.
AwaitCrashed ==
  /\ stream = "await"
  /\ task = "done"
  /\ thread = "crashed"
  /\ watched' = TRUE
  /\ stream' = "closed"
  /\ UNCHANGED <<threadVars, queue, task, sending, received, reported, logged>>

SendFinal ==
  /\ stream = "final"
  /\ stream' = "closed"
  /\ UNCHANGED <<threadVars, queue, task, sending, received, reported, watched,
                 logged>>

\* Mutant: only a stream that ends of itself leaves the outcome to the log.
DisconnectUnwatched ==
  /\ stream # "closed"
  /\ stream' = "closed"
  /\ task' = IF stream = "await" /\ task = "pending" THEN "cancelled" ELSE task
  /\ UNCHANGED <<threadVars, queue, sending, received, reported, watched,
                 logged>>

\* The client's going cancels the stream where it is suspended.
Disconnect ==
  /\ stream # "closed"
  /\ stream' = "closed"
  /\ watched' = (reported = "none")
  /\ task' = IF stream = "await" /\ task = "pending" THEN "cancelled" ELSE task
  /\ UNCHANGED <<threadVars, queue, sending, received, reported, logged>>

ThreadStep == EndWork \/ PostSentinel
LoopStep == RunCallback \/ Resolve \/ LogOutcome
StreamStep ==
  \/ SendAccepted \/ TakeEvent \/ TakeSentinel \/ SendEvent
  \/ AwaitTask \/ AwaitCrashed \/ SendFinal

\* The response is over, the work too, and nothing is left on the event loop.
StreamEnded ==
  /\ stream = "closed"
  /\ task # "pending"
  /\ callbacks = <<>>
  /\ watched /\ task = "done" => logged
  /\ UNCHANGED eventVars

StreamNext ==
  \/ Emit \/ EmitLate \/ ThreadStep \/ LoopStep
  \/ StreamStep \/ KeepAlive \/ Disconnect
  \/ StreamEnded

StreamSpec == StreamInit /\ [][StreamNext]_eventVars

\* The work ends, the event loop runs what is scheduled on it, and a client
\* either takes what it is sent or is found to have gone.
FairStreamSpec ==
  /\ StreamSpec
  /\ WF_eventVars(ThreadStep)
  /\ WF_eventVars(RunCallback)
  /\ WF_eventVars(Resolve)
  /\ WF_eventVars(LogOutcome)
  /\ WF_eventVars(StreamStep \/ Disconnect)

-----------------------------------------------------------------------------
(* Properties *)

\* The client is sent the change's events in the order they were reported, none
\* skipped or repeated, and its outcome only after every event posted ahead of
\* the sentinel (the comment in process_then_close), keep-alives or not.
EventsInOrder ==
  /\ \A i \in 1..Len(received) : received[i] = i
  /\ reported # "none" => closing # {} /\ \A n \in closing : Len(received) >= n

\* The outcome is told to the client, or to the log once it has gone, unless the
\* stream was cancelled while it awaited the task.
OutcomeKnownUnlessCancelled ==
  <>(reported # "none" \/ logged \/ task = "cancelled")

-----------------------------------------------------------------------------
(* Why the order lasts, for the proofs *)

\* What was posted n-th, and how much was: the events as reported, with the
\* sentinel among them once there is one.
Posted(n) ==
  IF \A c \in closing : n <= c THEN n ELSE IF n - 1 \in closing THEN Sentinel ELSE n - 1

PostedSoFar == IF closing = {} THEN emitted ELSE emitted + 1

\* How much of it the stream has taken while it has not come to the sentinel.
Taken == IF sending = {} THEN Len(received) ELSE Len(received) + 1

Streaming == stream \in {"accepted", "get", "send"}

\* There is one sentinel, and no event is reported before its time.
ClosedOnce ==
  /\ \A c, d \in closing : c = d
  /\ \A c \in closing : c <= emitted
  /\ thread = "working" => closing = {}

\* Queue and callbacks hold what was posted and not taken, in that order.
NothingOvertakes ==
  Streaming =>
    /\ Taken + Len(queue) + Len(callbacks) = PostedSoFar
    /\ \A i \in 1..Len(queue) : queue[i] = Posted(Taken + i)
    /\ \A i \in 1..Len(callbacks) : callbacks[i] = Posted(Taken + Len(queue) + i)
    /\ \A c \in closing : Taken <= c

\* The one being sent follows those that were.
SendsTheNext ==
  /\ stream \in {"accepted", "get", "await", "final"} => sending = {}
  /\ stream = "send" => sending \subseteq {Len(received) + 1}

\* Past the sentinel every event ahead of it was sent.
AllSentBehind ==
  stream \in {"await", "final"} \/ reported # "none" =>
    closing # {} /\ \A c \in closing : Len(received) >= c

OrderInvariant ==
  /\ StreamTypeOK
  /\ ClosedOnce
  /\ NothingOvertakes
  /\ SendsTheNext
  /\ AllSentBehind
  /\ EventsInOrder
==============================================================================
