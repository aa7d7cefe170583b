----------------------------- MODULE Ownership ------------------------------
(***************************************************************************)
(* Ownership of one queue: the control plane's authority record             *)
(* (fireweed-engine/src/control_plane.rs), the storage epoch that fences     *)
(* data-plane writes, and the nodes that acquire, fence, renew, write and    *)
(* release (ownership.rs, async_control_plane.rs, and the session cache of   *)
(* fireweed/src/lib.rs).                                                    *)
(*                                                                         *)
(* Each call of the control plane and of the storage is one step; between   *)
(* two calls of an acquisition the other nodes move, leases lapse and the    *)
(* acquiring node may crash or stall.  All decisions of an acquisition use   *)
(* the time that was sampled before its first call.                         *)
(***************************************************************************)
EXTENDS Integers

CONSTANTS
    Owners,     \* the nodes
    NoOwner,    \* nobody
    Plane,      \* "bound", "durable" or "ephemeral", see below
    Exact,      \* fence_epoch refuses an epoch past its target, see FenceAdvance
    LeaseTtl,   \* lease_ttl_ms
    MaxTime,    \* bound on the clock
    MaxEpoch    \* bound on both epochs

\* A bound plane (PostgreSQL, with the storage's tables in its schema) moves
\* the storage epoch in its acquire transaction.  A durable plane (PostgreSQL,
\* storage elsewhere) does not.  An ephemeral plane (InMemoryControlPlane) does
\* not either, and forgets everything when the process restarts.
ASSUME OwnershipAssumption ==
    /\ NoOwner \notin Owners
    /\ Plane \in {"bound", "durable", "ephemeral"}
    /\ Exact \in BOOLEAN
    /\ LeaseTtl \in Nat /\ MaxTime \in Nat /\ MaxEpoch \in Nat

Ephemeral == Plane = "ephemeral"

VARIABLES
    lease,     \* the authority record
    storage,   \* the storage epoch
    now,       \* the clock
    task,      \* the acquisition each node has under way
    renewal,   \* the renewal each node has under way
    session,   \* the cached OwnedSession of each node, epochs 0 for none
    stamps,    \* fence epochs that writes of the node may still carry
    stale,     \* the same for processes from before a restart
    last       \* the last accepted write

vars == <<lease, storage, now, task, renewal, session, stamps, stale, last>>

-----------------------------------------------------------------------------
(***************************************************************************)
(* The lease decisions of control_plane.rs.                                 *)
(***************************************************************************)
LeaseState == {"Unassigned", "PendingFence", "Assigned", "Draining"}
QueueLease == [state : LeaseState, owner : Owners \cup {NoOwner}, epoch : 0..MaxEpoch, expires : Nat]

Unassigned(epoch) == [state |-> "Unassigned", owner |-> NoOwner, epoch |-> epoch, expires |-> 0]

IsLive(record, at) == record.state # "Unassigned" /\ at < record.expires

AcquireRejected(record, o, at) ==
    IsLive(record, at) /\ (record.owner # o \/ record.state = "PendingFence")

\* A lease that still names its owner is re-affirmed at its epoch, lapsed or
\* not; every other acquisition gets the next epoch.
Reaffirms(record, o) == record.owner = o /\ record.state # "PendingFence"

\* Defect: a takeover of a lapsed lease keeps its epoch.
AcquiredKeepsEpoch(record, o, at) ==
    [state |-> IF Reaffirms(record, o) \/ Plane = "bound" THEN "Assigned" ELSE "PendingFence",
     owner |-> o,
     epoch |-> IF record.owner # NoOwner THEN record.epoch ELSE record.epoch + 1,
     expires |-> at + LeaseTtl]
\* Defect: the new owner serves before its fence is confirmed.
AcquiredServing(record, o, at) ==
    [state |-> "Assigned",
     owner |-> o,
     epoch |-> IF Reaffirms(record, o) THEN record.epoch ELSE record.epoch + 1,
     expires |-> at + LeaseTtl]
Acquired(record, o, at) ==
    [state |-> IF Reaffirms(record, o) \/ Plane = "bound" THEN "Assigned" ELSE "PendingFence",
     owner |-> o,
     epoch |-> IF Reaffirms(record, o) THEN record.epoch ELSE record.epoch + 1,
     expires |-> at + LeaseTtl]

Holds(record, o, epoch) == record.owner = o /\ record.epoch = epoch

CanConfirm(record, o, epoch, at) ==
    Holds(record, o, epoch) /\ IsLive(record, at) /\ record.state \in {"PendingFence", "Assigned"}

CanRenew(record, o, epoch, at) ==
    Holds(record, o, epoch) /\ IsLive(record, at) /\ record.state \in {"Assigned", "Draining"}

Renewed(record, at) ==
    [record EXCEPT !.expires = IF at + LeaseTtl > @ THEN at + LeaseTtl ELSE @]

CanRelease(record, o, epoch) == Holds(record, o, epoch) /\ record.state # "Unassigned"

-----------------------------------------------------------------------------
(***************************************************************************)
(* Nodes.                                                                  *)
(***************************************************************************)
Idle == [step |-> "idle", at |-> 0, prior |-> Unassigned(0), epoch |-> 0, pending |-> FALSE,
         same |-> FALSE, fence |-> 0]
NoSession == [lease |-> 0, fence |-> 0]
NoRenewal == [epoch |-> 0, at |-> 0]

Steps == {"idle", "sampled", "resolved", "ready", "acquired", "fencing", "looping", "advancing",
          "fenced", "failed"}
Task == [step : Steps, at : Nat, prior : QueueLease, epoch : 0..MaxEpoch, pending : BOOLEAN,
         same : BOOLEAN, fence : 0..MaxEpoch]

Init ==
    /\ lease = Unassigned(0)
    /\ storage = 0
    /\ now = 0
    /\ task = [o \in Owners |-> Idle]
    /\ renewal = [o \in Owners |-> NoRenewal]
    /\ session = [o \in Owners |-> NoSession]
    /\ stamps = [o \in Owners |-> {}] /\ stale = {}
    /\ last = [epoch |-> 0, owner |-> NoOwner]

Tick ==
    /\ now < MaxTime
    /\ now' = now + 1
    /\ UNCHANGED <<lease, storage, task, renewal, session, stamps, stale, last>>

Goto(o, step) == task' = [task EXCEPT ![o].step = step]
Others == <<now, renewal, stamps, stale, last>>

\* session_epoch_with_time: without a cached session, and under the queue's
\* gate, so a node has one acquisition under way, the time is sampled.
Sample(o) ==
    /\ task[o].step = "idle"
    /\ session[o] = NoSession
    /\ task' = [task EXCEPT ![o] = [Idle EXCEPT !.step = "sampled", !.at = now]]
    /\ UNCHANGED <<lease, storage, session, Others>>

\* resolve_queue_owner: a queue with another live owner, or whose target in
\* the placement is another node at the moment, is left alone.
Resolve(o) ==
    /\ task[o].step = "sampled"
    /\ \/ task' = [task EXCEPT ![o] = Idle]
       \/ /\ ~(IsLive(lease, task[o].at) /\ lease.owner # o)
          /\ Goto(o, IF Ephemeral THEN "resolved" ELSE "ready")
    /\ UNCHANGED <<lease, storage, session, Others>>

\* An ephemeral plane's record is read before the acquisition.
ReadPrior(o) ==
    /\ task[o].step = "resolved"
    /\ task' = [task EXCEPT ![o].step = "ready", ![o].prior = lease]
    /\ UNCHANGED <<lease, storage, session, Others>>

\* Defect: every acquisition is taken for a new assignment.
SameSessionNever(prior, o, epoch) == FALSE
\* The record found before the acquisition is the node's own, at the epoch it
\* has now.
SameSession(prior, o, epoch) ==
    prior.owner = o /\ prior.epoch = epoch /\ prior.state # "PendingFence"

\* acquire_queue_lease.
Acquire(o) ==
    LET t == task[o]
        new == Acquired(lease, o, t.at)
    IN
    /\ t.step = "ready"
    /\ \/ /\ AcquireRejected(lease, o, t.at)
          /\ task' = [task EXCEPT ![o] = Idle]
          /\ UNCHANGED <<lease, storage>>
       \/ /\ ~AcquireRejected(lease, o, t.at)
          /\ new.epoch <= MaxEpoch
          /\ lease' = new
          /\ storage' = IF Plane = "bound" THEN new.epoch ELSE storage
          /\ task' = [task EXCEPT ![o] =
                        [t EXCEPT !.step = "acquired", !.epoch = new.epoch,
                                  !.pending = new.state = "PendingFence",
                                  !.same = SameSession(t.prior, o, new.epoch),
                                  !.prior = Unassigned(0)]]
    /\ UNCHANGED <<session, Others>>

\* Defect: an equal epoch is taken for a fence of this session.
EstablishedByEquality(t, current) ==
    CASE current < t.epoch -> "fencing"
      [] current = t.epoch -> "fenced"
      [] current > t.epoch -> IF Ephemeral THEN "advancing" ELSE "failed"
\* establish_ownership_fence, from the storage epoch it is given.
Established(t, current) ==
    CASE current < t.epoch -> "fencing"
      [] current >= t.epoch /\ Ephemeral -> IF t.same THEN "fenced" ELSE "advancing"
      [] current = t.epoch /\ ~Ephemeral -> "fencing"
      [] current > t.epoch /\ ~Ephemeral -> "failed"

ReadEpoch(o) ==
    /\ task[o].step = "acquired"
    /\ task' = [task EXCEPT ![o].step = Established(task[o], storage), ![o].fence = storage]
    /\ UNCHANGED <<lease, storage, session, Others>>

\* fence_epoch reads the epoch once more, and then advances it to its target.
Compared(epoch, target) ==
    CASE epoch > target -> "failed"
      [] epoch = target -> "fenced"
      [] epoch < target -> "looping"

FenceEpoch(o) ==
    /\ task[o].step = "fencing"
    /\ task' = [task EXCEPT ![o].step = Compared(storage, task[o].epoch), ![o].fence = storage]
    /\ UNCHANGED <<lease, storage, session, Others>>

\* Defect: the loop ends at any epoch that is not below its target.
FenceAdvanceUnchecked(o) ==
    /\ task[o].step = "looping"
    /\ storage < MaxEpoch
    /\ storage' = storage + 1
    /\ task' = [task EXCEPT ![o].step = IF storage + 1 < task[o].epoch THEN "looping" ELSE "fenced",
                            ![o].fence = storage + 1]
    /\ UNCHANGED <<lease, session, Others>>
\* One acquire_epoch of fence_epoch's loop.  The trait's own fence_epoch fails
\* when another node's acquire_epoch carried it past the target; the overrides
\* of the log-composed backends leave the loop and report success.
FenceAdvance(o) ==
    /\ task[o].step = "looping"
    /\ storage < MaxEpoch
    /\ storage' = storage + 1
    /\ task' = [task EXCEPT ![o].step = IF ~Exact /\ storage + 1 > task[o].epoch THEN "fenced"
                                        ELSE Compared(storage + 1, task[o].epoch),
                            ![o].fence = storage + 1]
    /\ UNCHANGED <<lease, session, Others>>

\* Defect: the epoch from before the advance is returned.
AdvanceReturnsPrevious(o) ==
    /\ task[o].step = "advancing"
    /\ storage < MaxEpoch
    /\ storage' = storage + 1
    /\ task' = [task EXCEPT ![o].step = "fenced", ![o].fence = storage]
    /\ UNCHANGED <<lease, session, Others>>
\* acquire_epoch for a new assignment of an ephemeral plane.
Advance(o) ==
    /\ task[o].step = "advancing"
    /\ storage < MaxEpoch
    /\ storage' = storage + 1
    /\ task' = [task EXCEPT ![o].step = "fenced", ![o].fence = storage + 1]
    /\ UNCHANGED <<lease, session, Others>>

\* A storage call, or the hydration of the projection, fails.
StorageFails(o) ==
    /\ task[o].step \in {"acquired", "fencing", "looping", "advancing", "fenced"}
    /\ Goto(o, "failed")
    /\ UNCHANGED <<lease, storage, session, Others>>

\* confirm_queue_lease_fence, for a lease that is still pending, and the new
\* session.
Confirm(o) ==
    LET t == task[o] IN
    /\ t.step = "fenced"
    /\ \/ /\ t.pending /\ ~CanConfirm(lease, o, t.epoch, t.at)
          /\ Goto(o, "failed")
          /\ UNCHANGED <<lease, session, stamps>>
       \/ /\ t.pending => CanConfirm(lease, o, t.epoch, t.at)
          /\ lease' = IF t.pending THEN [lease EXCEPT !.state = "Assigned"] ELSE lease
          /\ session' = [session EXCEPT ![o] = [lease |-> t.epoch, fence |-> t.fence]]
          /\ stamps' = [stamps EXCEPT ![o] = @ \cup {t.fence}]
          /\ task' = [task EXCEPT ![o] = Idle]
    /\ UNCHANGED <<storage, now, renewal, stale, last>>

\* A remote authority confirms the fence, and its answer is lost.
ConfirmLost(o) ==
    /\ ~Ephemeral
    /\ task[o].step = "fenced" /\ task[o].pending
    /\ CanConfirm(lease, o, task[o].epoch, task[o].at)
    /\ lease' = [lease EXCEPT !.state = "Assigned"]
    /\ Goto(o, "failed")
    /\ UNCHANGED <<storage, session, Others>>

Released(record, o, epoch) ==
    IF CanRelease(record, o, epoch) THEN Unassigned(record.epoch) ELSE record

\* A call of release_queue_lease, which a remote authority may not get.
TryRelease(o, epoch) ==
    \/ lease' = Released(lease, o, epoch)
    \/ ~Ephemeral /\ UNCHANGED lease

\* A failed acquisition tries to give its lease back, and ignores the answer.
Compensate(o) ==
    /\ task[o].step = "failed"
    /\ TryRelease(o, task[o].epoch)
    /\ task' = [task EXCEPT ![o] = Idle]
    /\ UNCHANGED <<storage, session, Others>>

\* An acquisition ends without giving anything back: its caller drops it, the
\* answer to the acquisition is lost, or acquire_and_fence cannot read the epoch.
Abandon(o) ==
    /\ task[o].step # "idle"
    /\ task' = [task EXCEPT ![o] = Idle]
    /\ UNCHANGED <<lease, storage, session, Others>>

-----------------------------------------------------------------------------
\* renew_owned samples the clock and the cached session ...
StartRenewal(o) ==
    /\ renewal[o] = NoRenewal
    /\ session[o] # NoSession
    /\ renewal' = [renewal EXCEPT ![o] = [epoch |-> session[o].lease, at |-> now]]
    /\ UNCHANGED <<lease, storage, now, task, session, stamps, stale, last>>

\* ... and drops whatever session is cached when the authority refuses, but not
\* when a remote authority does not answer.
Renew(o) ==
    /\ renewal[o] # NoRenewal
    /\ LET r == renewal[o] IN
       \/ /\ CanRenew(lease, o, r.epoch, r.at)
          /\ lease' = Renewed(lease, r.at)
          /\ UNCHANGED session
       \/ /\ ~CanRenew(lease, o, r.epoch, r.at)
          /\ session' = [session EXCEPT ![o] = NoSession]
          /\ UNCHANGED lease
       \/ ~Ephemeral /\ UNCHANGED <<lease, session>>
    /\ renewal' = [renewal EXCEPT ![o] = NoRenewal]
    /\ UNCHANGED <<storage, now, task, stamps, stale, last>>

\* begin_drain at the record's epoch: the placement moves to another node.
BeginDrain ==
    /\ lease.state = "Assigned" /\ IsLive(lease, now)
    /\ lease' = [lease EXCEPT !.state = "Draining"]
    /\ UNCHANGED <<storage, task, session, Others>>

\* shutdown_owned releases the lease and drops the session, whatever the
\* answer.  A write that took the session before is still on its way.
Release(o) ==
    /\ session[o] # NoSession
    /\ TryRelease(o, session[o].lease)
    /\ session' = [session EXCEPT ![o] = NoSession]
    /\ UNCHANGED <<storage, task, Others>>

\* A data-plane write carries the fence epoch of the session it was started
\* under, and is accepted in the atomic unit of work that checks the epoch.
Write(o) ==
    \E e \in stamps[o] :
        /\ \/ e = storage /\ last' = [epoch |-> e, owner |-> o] /\ UNCHANGED session
           \/ /\ e # storage
              /\ session' = [session EXCEPT ![o] = NoSession]
              /\ UNCHANGED last
        /\ UNCHANGED <<lease, storage, now, task, renewal, stamps, stale>>

\* A write of a process from before the last restart.
StaleWrite ==
    /\ storage \in stale
    /\ last' = [epoch |-> storage, owner |-> NoOwner]
    /\ UNCHANGED <<lease, storage, now, task, renewal, session, stamps, stale>>

\* A node loses its volatile state; its writes may still be on their way.
Crash(o) ==
    /\ task[o] # Idle \/ session[o] # NoSession \/ renewal[o] # NoRenewal
    /\ task' = [task EXCEPT ![o] = Idle]
    /\ session' = [session EXCEPT ![o] = NoSession]
    /\ renewal' = [renewal EXCEPT ![o] = NoRenewal]
    /\ UNCHANGED <<lease, storage, now, stamps, stale, last>>

\* The process with an ephemeral plane restarts, with all nodes in it.
Restart ==
    /\ Ephemeral
    /\ lease # Unassigned(0)
    /\ lease' = Unassigned(0)
    /\ task' = [o \in Owners |-> Idle]
    /\ session' = [o \in Owners |-> NoSession]
    /\ renewal' = [o \in Owners |-> NoRenewal]
    /\ stale' = stale \cup UNION {stamps[o] : o \in Owners}
    /\ stamps' = [o \in Owners |-> {}]
    /\ UNCHANGED <<storage, now, last>>

Next ==
    \/ Tick \/ BeginDrain \/ StaleWrite \/ Restart
    \/ \E o \in Owners :
         \/ Sample(o) \/ Resolve(o) \/ ReadPrior(o) \/ Acquire(o) \/ ReadEpoch(o) \/ FenceEpoch(o)
         \/ FenceAdvance(o) \/ Advance(o) \/ StorageFails(o) \/ Confirm(o) \/ ConfirmLost(o)
         \/ Compensate(o) \/ Abandon(o) \/ StartRenewal(o) \/ Renew(o) \/ Release(o) \/ Write(o) \/ Crash(o)

Spec == Init /\ [][Next]_vars

-----------------------------------------------------------------------------
\* Every component of the state keeps its type; the epochs stay in bounds.
TypeOK ==
    /\ lease \in QueueLease
    /\ storage \in 0..MaxEpoch
    /\ now \in 0..MaxTime
    /\ task \in [Owners -> Task]
    /\ renewal \in [Owners -> [epoch : 0..MaxEpoch, at : Nat]]
    /\ session \in [Owners -> [lease : 0..MaxEpoch, fence : 0..MaxEpoch]]
    /\ stamps \in [Owners -> SUBSET (0..MaxEpoch)]
    /\ stale \in SUBSET (0..MaxEpoch)
    /\ last \in [epoch : 0..MaxEpoch, owner : Owners \cup {NoOwner}]

\* A fence epoch identifies one node: no two nodes ever get sessions that
\* stamp writes with the same epoch, so that the storage's one comparison of
\* epochs is enough to tell their writes apart.
DistinctStamps == \A o, p \in Owners : o # p => stamps[o] \cap stamps[p] = {}

Serving == lease.state \in {"Assigned", "Draining"}

\* Once the authority record names a serving owner, a write of any other node
\* is refused at its commit, however long it was under way.
SupersededFenced == Serving => \A o \in Owners \ {lease.owner} : storage \notin stamps[o]

\* The cached session of the serving owner carries the storage's epoch: its
\* writes are accepted.
Matched ==
    \A o \in Owners :
        Serving /\ lease.owner = o /\ session[o].lease = lease.epoch => session[o].fence = storage

\* The storage epoch does not move under a serving owner: a slow owner that
\* lapses and re-affirms its own lease does not fence its writes under way.
NeverSelfFenced ==
    [][Serving /\ lease'.state # "Unassigned" /\ lease'.epoch = lease.epoch => storage' = storage]_vars

\* Accepted writes come in runs of one owner: a write of a new owner raises
\* the epoch for good.
WritesHandOver ==
    [][/\ last'.epoch >= last.epoch
       /\ last.owner \in Owners /\ last'.owner # last.owner => last'.epoch > last.epoch]_vars

\* A session after the restart of an ephemeral plane shares no fence epoch
\* with those from before, although the plane's own epochs start over.
RestartFenced == \A o \in Owners : stamps[o] \cap stale = {}

=============================================================================
