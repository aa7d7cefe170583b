-------------------------- MODULE ComposedBackend ---------------------------
(***************************************************************************)
(* submit_operation, close and drain of AsyncComposedBackend                *)
(* (fireweed-engine/src/async_composed.rs): KeyedGate and TaskDispatcher     *)
(* composed.  A caller acquires the gate for its queue and submits the        *)
(* operation with the permit in it.  The permit stays with the operation      *)
(* through the dispatcher's queue, its run, its panic or its drop, whatever    *)
(* becomes of the caller.                                                   *)
(*                                                                         *)
(* The gate's variables are those of KeyedGate, the future of a caller is     *)
(* also the name of its task.                                               *)
(***************************************************************************)
EXTENDS KeyedGate

CONSTANTS Drainers, MaxRunning, MaxJobs

ASSUME BackendAssumption == MaxRunning \in Nat \ {0} /\ MaxJobs \in Nat

VARIABLES
    stopped,   \* the dispatcher's closed
    running, outstanding, jobs, pending, advancing, hand, stage, drain, up,
    refused    \* callers whose job the dispatcher refused, and that still hold their permit

Dispatcher ==
    INSTANCE TaskDispatcher WITH
        Tasks <- Futures, MaxQueued <- MaxJobs, closed <- stopped, queued <- jobs

dispatcher == <<stopped, running, outstanding, jobs, pending, advancing, hand, stage, drain, up>>
backend == <<vars, dispatcher, refused>>

BackendInit == Init /\ Dispatcher!Init /\ refused = {}

-----------------------------------------------------------------------------
\* The steps of the gate before the permit.  A caller works on one queue, and its
\* name is free again when its task has left the dispatcher.
AwaitPermit(f) ==
    /\ \/ stage[f] = "absent" /\ Acquire(f, key[f])
       \/ Poll(f)
       \/ Drop(f)
    /\ UNCHANGED <<dispatcher, refused>>

\* The caller holds the permit and has not handed it to the dispatcher.
Submitting(f) == at[f] = "permit" /\ stage[f] = "absent" /\ f \notin refused

\* dispatcher.submit accepts the job, and the permit with it.
Submit(f) ==
    /\ Submitting(f)
    /\ Dispatcher!Submit(f)
    /\ UNCHANGED <<vars, refused>>

\* It refuses the job ...
Refuse(f) ==
    /\ Submitting(f)
    /\ stopped \/ Dispatcher!AtCapacity
    /\ refused' = refused \cup {f}
    /\ UNCHANGED <<vars, dispatcher>>

\* ... and drops it, and the permit in it.
GiveBack(f) ==
    /\ f \in refused
    /\ refused' = refused \ {f}
    /\ Release(f)
    /\ UNCHANGED dispatcher

\* Defect: the permit stays with the caller, and is dropped once the job is spawned.
StartReleases(f) == Dispatcher!Start(f) /\ Release(f) /\ UNCHANGED refused

\* A runtime that is down drops the job, and the permit in it.
Start(f) ==
    /\ Dispatcher!Start(f)
    /\ \/ up /\ UNCHANGED vars
       \/ ~up /\ Release(f)
    /\ UNCHANGED refused

\* The operation ends, and drops its permit before its outcome is sent.
End(f) ==
    /\ Dispatcher!End(f)
    /\ Release(f)
    /\ UNCHANGED refused

Finished(f) == Dispatcher!Finished(f) /\ UNCHANGED <<vars, refused>>

Advance == Dispatcher!Advance /\ UNCHANGED <<vars, refused>>

\* close: first the gate, then the dispatcher.
CloseAdmission == Close /\ UNCHANGED <<dispatcher, refused>>

CloseDispatcher == closed /\ Dispatcher!Close /\ UNCHANGED <<vars, refused>>

Drain(d) == Dispatcher!Drain(d) /\ UNCHANGED <<vars, refused>>

ShutDown == Dispatcher!ShutDown /\ UNCHANGED <<vars, refused>>

BackendNext ==
    \/ \E f \in Futures :
         \/ AwaitPermit(f) \/ Submit(f) \/ Refuse(f) \/ GiveBack(f)
         \/ Start(f) \/ End(f) \/ Finished(f)
    \/ Advance \/ CloseAdmission \/ CloseDispatcher \/ ShutDown
    \/ \E d \in Drainers : Drain(d)

\* A woken task is polled and goes on to submit without an await, an operation
\* ends, and threads leave their critical sections.  Nobody has to come, to
\* leave, to close or to drain, and close may stop between its two calls.
BackendFairness ==
    /\ \A f \in Futures :
         WF_backend(\/ f \in woken /\ Poll(f) /\ UNCHANGED <<dispatcher, refused>>
                    \/ Submit(f) \/ Refuse(f) \/ GiveBack(f) \/ Start(f) \/ End(f) \/ Finished(f))
    /\ WF_backend(Advance)

BackendSpec == BackendInit /\ [][BackendNext]_backend /\ BackendFairness

-----------------------------------------------------------------------------
\* Every accepted job is counted once, from submit until its completion was
\* worked off, though a completion may be recorded by one thread and worked off
\* by another: the two expects of finish_one_pending never fail.
JobsCounted == Dispatcher!TypeOK /\ Dispatcher!Counted

\* No job waits in the dispatcher while a slot is free.
NoIdleSlot == Dispatcher!NoIdleSlot

Accepted(f) == stage[f] \in {"queued", "starting", "spawned"}

\* Operations of one queue are serial: an accepted operation owns its queue until
\* it ended, so that no two of them are in the dispatcher at the same time,
\* however callers are dropped, jobs are refused and the runtime shuts down.
SerialOperations ==
    /\ \A f \in Futures : Accepted(f) => Owns(f, key[f])
    /\ \A f, g \in Futures : Accepted(f) /\ Accepted(g) /\ key[f] = key[g] => f = g

\* After close_and_drain nothing runs and nothing will: an acquire that outlived
\* the close gets its job refused.
DrainedForGood == (\E d \in Drainers : drain[d] = "resolved") => closed /\ \A f \in Futures : stage[f] = "absent"

Busy(f) == at[f] # "idle" \/ stage[f] # "absent"

\* Every call ends, from its acquire on.  No wakeup of a waiter is lost between a
\* release, a drop or a close and the poll that registers the waker; no permit
\* stays behind a refused or dropped job; and every accepted operation ends, also
\* when the runtime shuts down with a full queue.
EveryOperationEnds == \A f \in Futures : Busy(f) ~> ~Busy(f)

\* A drain of a closed backend is answered.
DrainsEnd == \A d \in Drainers : stopped /\ drain[d] = "registered" ~> drain[d] = "resolved"
=============================================================================
