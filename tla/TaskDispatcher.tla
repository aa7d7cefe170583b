--------------------------- MODULE TaskDispatcher ---------------------------
(***************************************************************************)
(* TokioTaskDispatcher of fireweed-server/src/tokio_dispatcher.rs: a bounded *)
(* dispatcher of owned tasks that run detached from their callers, with a     *)
(* close and a drain.                                                       *)
(*                                                                         *)
(* Every critical section of the mutex is one step; what follows it outside  *)
(* the lock (the spawn of a job, the completions that a thread works off) is  *)
(* a step of its own.  The runtime may shut down at any time: it then drops   *)
(* its tasks, and a job handed to it is dropped on the spot.                 *)
(***************************************************************************)
EXTENDS Integers, Sequences, FiniteSets

CONSTANTS
    Tasks,        \* the tasks, each submitted again after it ended
    Drainers,     \* callers of drain
    MaxRunning,   \* max_running
    MaxQueued     \* max_queued

VARIABLES
    closed, running, outstanding, queued,
    pending,     \* pending_completions
    advancing,   \* advancing_completions: some thread is in advance_completions
    hand,        \* the job that thread is about to start, as a set of at most one
    stage,       \* of each task
    drain,       \* of each drainer: idle, registered, resolved
    up           \* the runtime accepts and polls tasks

vars == <<closed, running, outstanding, queued, pending, advancing, hand, stage, drain, up>>

\* absent; in the queue; given a slot but not spawned; spawned; its outcome sent
\* or dropped, its completion guard still alive
Stages == {"absent", "queued", "starting", "spawned", "ending"}

Init ==
    /\ closed = FALSE /\ running = 0 /\ outstanding = 0 /\ queued = <<>>
    /\ pending = 0 /\ advancing = FALSE /\ hand = {}
    /\ stage = [t \in Tasks |-> "absent"]
    /\ drain = [d \in Drainers |-> "idle"]
    /\ up = TRUE

-----------------------------------------------------------------------------
AtCapacity == running = MaxRunning /\ Len(queued) = MaxQueued

\* submit, up to the release of the lock.
Submit(t) ==
    /\ stage[t] = "absent"
    /\ ~closed /\ ~AtCapacity
    /\ outstanding' = outstanding + 1
    /\ \/ /\ running < MaxRunning
          /\ running' = running + 1
          /\ stage' = [stage EXCEPT ![t] = "starting"]
          /\ UNCHANGED queued
       \/ /\ ~(running < MaxRunning)
          /\ queued' = Append(queued, t)
          /\ stage' = [stage EXCEPT ![t] = "queued"]
          /\ UNCHANGED running
    /\ UNCHANGED <<closed, pending, advancing, hand, drain, up>>

\* start_job, by the submitter or by the advancing thread.  A runtime that is down
\* drops the task, and with it the completion guard, in the same thread.
Start(t) ==
    /\ stage[t] = "starting"
    /\ stage' = [stage EXCEPT ![t] = IF up THEN "spawned" ELSE "ending"]
    /\ hand' = IF up THEN hand \ {t} ELSE hand
    /\ UNCHANGED <<closed, running, outstanding, queued, pending, advancing, drain, up>>

\* The task returns and sends its outcome, panics, or is dropped by the runtime.
End(t) ==
    /\ stage[t] = "spawned"
    /\ stage' = [stage EXCEPT ![t] = "ending"]
    /\ UNCHANGED <<closed, running, outstanding, queued, pending, advancing, hand, drain, up>>

\* Defect: a completion that finds another thread advancing is not recorded.
FinishedUnrecorded(t) ==
    /\ stage[t] = "ending"
    /\ stage' = [stage EXCEPT ![t] = "absent"]
    /\ pending' = IF advancing THEN pending ELSE pending + 1
    /\ advancing' = TRUE
    /\ hand' = hand \ {t}
    /\ UNCHANGED <<closed, running, outstanding, queued, drain, up>>

\* task_finished: the drop of the completion guard.  The thread becomes the
\* advancing one unless there is one.
Finished(t) ==
    /\ stage[t] = "ending"
    /\ stage' = [stage EXCEPT ![t] = "absent"]
    /\ pending' = pending + 1
    /\ advancing' = TRUE
    /\ hand' = hand \ {t}
    /\ UNCHANGED <<closed, running, outstanding, queued, drain, up>>

Registered == {d \in Drainers : drain[d] = "registered"}

\* Defect: the drainers are answered while tasks wait in the queue.
ResolvedEarly(out, cl) == IF cl THEN [d \in Drainers |-> IF d \in Registered THEN "resolved" ELSE drain[d]] ELSE drain

\* take_ready_drainers and resolve_drainers.
Resolved(out, cl) ==
    IF cl /\ out = 0 THEN [d \in Drainers |-> IF d \in Registered THEN "resolved" ELSE drain[d]] ELSE drain

\* Defect: a finished task gives its slot back and starts nothing.
AdvanceOnly ==
    /\ advancing /\ hand = {}
    /\ \/ /\ pending = 0
          /\ advancing' = FALSE
          /\ UNCHANGED <<running, outstanding, pending, drain>>
       \/ /\ pending > 0
          /\ pending' = pending - 1
          /\ outstanding' = outstanding - 1
          /\ running' = running - 1
          /\ drain' = Resolved(outstanding - 1, closed)
          /\ UNCHANGED advancing
    /\ UNCHANGED <<closed, queued, hand, stage, up>>

\* One turn of advance_completions: finish_one_pending, then the next job is in
\* the thread's hand.
Advance ==
    /\ advancing /\ hand = {}
    /\ \/ /\ pending = 0
          /\ advancing' = FALSE
          /\ UNCHANGED <<running, outstanding, queued, pending, hand, stage, drain>>
       \/ /\ pending > 0
          /\ pending' = pending - 1
          /\ outstanding' = outstanding - 1
          /\ \/ /\ queued = <<>>
                /\ running' = running - 1
                /\ UNCHANGED <<queued, hand, stage>>
             \/ /\ queued # <<>>
                /\ queued' = Tail(queued)
                /\ hand' = {Head(queued)}
                /\ stage' = [stage EXCEPT ![Head(queued)] = "starting"]
                /\ UNCHANGED running
          /\ drain' = Resolved(outstanding - 1, closed)
          /\ UNCHANGED advancing
    /\ UNCHANGED <<closed, up>>

\* Defect: close leaves the drainers to the next completion.
CloseOnly ==
    /\ closed' = TRUE
    /\ UNCHANGED <<running, outstanding, queued, pending, advancing, hand, stage, drain, up>>

Close ==
    /\ closed' = TRUE
    /\ drain' = Resolved(outstanding, TRUE)
    /\ UNCHANGED <<running, outstanding, queued, pending, advancing, hand, stage, up>>

Drain(d) ==
    /\ drain[d] = "idle"
    /\ drain' = [drain EXCEPT ![d] = IF closed /\ outstanding = 0 THEN "resolved" ELSE "registered"]
    /\ UNCHANGED <<closed, running, outstanding, queued, pending, advancing, hand, stage, up>>

\* The runtime shuts down.
ShutDown ==
    /\ up
    /\ up' = FALSE
    /\ UNCHANGED <<closed, running, outstanding, queued, pending, advancing, hand, stage, drain>>

Next ==
    \/ \E t \in Tasks : Submit(t) \/ Start(t) \/ End(t) \/ Finished(t)
    \/ Advance \/ Close \/ ShutDown
    \/ \E d \in Drainers : Drain(d)

Spec == Init /\ [][Next]_vars

-----------------------------------------------------------------------------
In(places) == {t \in Tasks : stage[t] \in places}

\* The type of the state: running tasks and queued ones stay within their bounds.
TypeOK ==
    /\ closed \in BOOLEAN /\ up \in BOOLEAN /\ advancing \in BOOLEAN
    /\ running \in 0..MaxRunning /\ outstanding \in 0..(MaxRunning + MaxQueued)
    /\ queued \in Seq(Tasks) /\ Len(queued) <= MaxQueued
    /\ pending \in Nat /\ hand \subseteq Tasks
    /\ stage \in [Tasks -> Stages]
    /\ drain \in [Drainers -> {"idle", "registered", "resolved"}]

\* Every accepted task is counted once, from submit until its completion was
\* worked off, though a completion may be recorded by one thread and worked off by
\* another: the two expects of finish_one_pending never fail.
Counted ==
    /\ running = Cardinality(In({"starting", "spawned", "ending"})) + pending
    /\ outstanding = running + Len(queued)
    /\ pending > 0 => advancing

\* No task waits while a slot is free.
NoIdleSlot == queued # <<>> => running = MaxRunning
=============================================================================
