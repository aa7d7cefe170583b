-------------------------- MODULE OperationRuntime --------------------------
(***************************************************************************)
(* Admission of storage operations and the drain that waits for them:        *)
(* QueueAdmission and its guards (fireweed-engine/src/queue_admission.rs)    *)
(* under QueueOperationRuntime (fireweed-queue-spool/src/                    *)
(* operation_runtime.rs), which wakes its drainers through a tokio Notify.   *)
(*                                                                         *)
(* A job is one QueueReservation behind an Arc.  Its owner is the operation; *)
(* its charges are buffers, borrowed from the reservation or holding an Arc  *)
(* of their own.  Every critical section of the metadata lock is one step,   *)
(* and so is the terminal callback, which runs after the lock is released.   *)
(***************************************************************************)
EXTENDS Integers, FiniteSets, Units

CONSTANTS
    Jobs,        \* reservations that can exist at a time
    Charges,     \* buffer charges that can exist at a time
    JobOf,       \* the job whose reservation a charge is taken from
    Drainers,    \* callers of close_and_drain
    Amounts,     \* byte counts that are asked for
    MaxSlots,    \* max_slots
    MaxBytes,    \* max_bytes
    MaxWork      \* bound: the allocations that one operation makes

ASSUME RuntimeAssumption ==
    /\ JobOf \in [Charges -> Jobs]
    /\ Amounts \subseteq Nat /\ MaxSlots \in Nat \ {0} /\ MaxBytes \in Nat \ {0} /\ MaxWork \in Nat

VARIABLES
    slots, bytes, closed,   \* State of the admission
    stage,                  \* of a job: absent, live, last owner gone, counters released
    owner,                  \* the operation holds its Arc of the reservation
    base,                   \* QueueReservation.bytes
    kind, held,             \* of a charge guard: what it is, QueueBufferCharge.bytes
    work,                   \* the allocations the operation has still to make
    drain,                  \* where each drainer is
    listening               \* drainers whose Notified is registered and not yet notified

vars == <<slots, bytes, closed, stage, owner, base, kind, held, work, drain, listening>>
admission == <<slots, bytes, closed>>
job == <<stage, owner, base, kind, held, work>>

Kinds == {"none", "borrowed", "owned"}

Init ==
    /\ slots = 0 /\ bytes = 0 /\ closed = FALSE
    /\ stage = [j \in Jobs |-> "absent"]
    /\ owner = [j \in Jobs |-> FALSE]
    /\ base = [j \in Jobs |-> 0]
    /\ kind = [c \in Charges |-> "none"]
    /\ held = [c \in Charges |-> 0]
    /\ work = [j \in Jobs |-> 0]
    /\ drain = [d \in Drainers |-> "idle"]
    /\ listening = {}

-----------------------------------------------------------------------------
\* The charges of the job that are of a kind.
Has(j, k) == {c \in Charges : JobOf[c] = j /\ kind[c] = k}

\* Somebody other than charge c has an Arc of the reservation.
Shared(j, c) == owner[j] \/ Has(j, "owned") \ {c} # {}

Room(n) == n <= MaxBytes - bytes

\* Defect: a closed admission still admits.
ReserveClosed(j, n) ==
    /\ stage[j] = "absent"
    /\ slots < MaxSlots /\ Room(n)
    /\ slots' = slots + 1 /\ bytes' = bytes + n
    /\ stage' = [stage EXCEPT ![j] = "live"]
    /\ owner' = [owner EXCEPT ![j] = TRUE]
    /\ base' = [base EXCEPT ![j] = n]
    /\ work' = [work EXCEPT ![j] = MaxWork]
    /\ UNCHANGED <<closed, kind, held, drain, listening>>

\* reserve, with the terminal callback attached before the job is exposed.
Reserve(j, n) ==
    /\ stage[j] = "absent"
    /\ ~closed /\ slots < MaxSlots /\ Room(n)
    /\ slots' = slots + 1 /\ bytes' = bytes + n
    /\ stage' = [stage EXCEPT ![j] = "live"]
    /\ owner' = [owner EXCEPT ![j] = TRUE]
    /\ base' = [base EXCEPT ![j] = n]
    /\ work' = [work EXCEPT ![j] = MaxWork]
    /\ UNCHANGED <<closed, kind, held, drain, listening>>

\* One of the allocations of job j, of n bytes.
Allocate(j, n) ==
    /\ Room(n) /\ work[j] > 0
    /\ work' = [work EXCEPT ![j] = @ - 1]
    /\ bytes' = bytes + n
    /\ UNCHANGED <<slots, closed, stage, owner, drain, listening>>

\* QueueReservation::grow; it needs the reservation to itself.
Grow(j, n) ==
    /\ stage[j] = "live" /\ owner[j] /\ Has(j, "borrowed") = {} /\ Has(j, "owned") = {}
    /\ Allocate(j, n)
    /\ base' = [base EXCEPT ![j] = @ + n]
    /\ UNCHANGED <<kind, held>>

\* buffer, by the operation or through a charge that has an Arc.
Buffer(c, n) ==
    /\ stage[JobOf[c]] = "live" /\ kind[c] = "none" /\ Shared(JobOf[c], c)
    /\ Allocate(JobOf[c], n)
    /\ kind' = [kind EXCEPT ![c] = "borrowed"]
    /\ held' = [held EXCEPT ![c] = n]
    /\ UNCHANGED base

\* OwnedQueueBufferCharge::grow: the additional charge is folded into this one.
GrowCharge(c, n) ==
    /\ kind[c] = "owned"
    /\ Allocate(JobOf[c], n)
    /\ held' = [held EXCEPT ![c] = @ + n]
    /\ UNCHANGED <<base, kind>>

\* Defect: the absorbed guard keeps its bytes and gives them back as it drops.
MergeTwice(c, d) ==
    /\ c # d /\ JobOf[c] = JobOf[d] /\ kind[c] = "borrowed" /\ kind[d] = "borrowed"
    /\ bytes' = bytes - held[d]
    /\ kind' = [kind EXCEPT ![d] = "none"]
    /\ held' = [held EXCEPT ![c] = held[c] + held[d], ![d] = 0]
    /\ UNCHANGED <<work, slots, closed, stage, owner, base, drain, listening>>

\* merge: two borrowed charges of one job become one, at no cost.
Merge(c, d) ==
    /\ c # d /\ JobOf[c] = JobOf[d] /\ kind[c] = "borrowed" /\ kind[d] = "borrowed"
    /\ kind' = [kind EXCEPT ![d] = "none"]
    /\ held' = [held EXCEPT ![c] = held[c] + held[d], ![d] = 0]
    /\ UNCHANGED <<work, admission, stage, owner, base, drain, listening>>

\* into_owned; owned_buffer and child_buffer are Buffer and then this step.
IntoOwned(c) ==
    /\ kind[c] = "borrowed"
    /\ kind' = [kind EXCEPT ![c] = "owned"]
    /\ UNCHANGED <<work, admission, stage, owner, base, held, drain, listening>>

\* Defect: an owned buffer does not keep the reservation alive.
DropOwnerEndsJob(j) ==
    /\ owner[j] /\ Has(j, "borrowed") = {}
    /\ owner' = [owner EXCEPT ![j] = FALSE]
    /\ stage' = [stage EXCEPT ![j] = "last"]
    /\ UNCHANGED <<work, admission, base, kind, held, drain, listening>>

\* The operation drops its Arc, which outlives the borrowed charges.
DropOwner(j) ==
    /\ owner[j] /\ Has(j, "borrowed") = {}
    /\ owner' = [owner EXCEPT ![j] = FALSE]
    /\ stage' = IF Has(j, "owned") = {} THEN [stage EXCEPT ![j] = "last"] ELSE stage
    /\ UNCHANGED <<work, admission, base, kind, held, drain, listening>>

\* Drop of a charge: its bytes return, then its Arc goes.
DropCharge(c) ==
    LET j == JobOf[c] IN
    /\ \/ kind[c] = "borrowed"
       \/ kind[c] = "owned" /\ (Shared(j, c) \/ Has(j, "borrowed") = {})
    /\ bytes' = bytes - held[c]
    /\ kind' = [kind EXCEPT ![c] = "none"]
    /\ held' = [held EXCEPT ![c] = 0]
    /\ stage' = IF kind[c] = "owned" /\ ~Shared(j, c) THEN [stage EXCEPT ![j] = "last"] ELSE stage
    /\ UNCHANGED <<work, slots, closed, owner, base, drain, listening>>

\* Drop of the reservation by its last owner, under the lock.
Finish(j) ==
    /\ stage[j] = "last"
    /\ slots' = slots - 1 /\ bytes' = bytes - base[j]
    /\ base' = [base EXCEPT ![j] = 0]
    /\ stage' = [stage EXCEPT ![j] = "released"]
    /\ UNCHANGED <<work, closed, owner, kind, held, drain, listening>>

\* Defect: notify_one.
SignalOne(j) ==
    /\ stage[j] = "released"
    /\ stage' = [stage EXCEPT ![j] = "absent"]
    /\ IF listening = {} THEN UNCHANGED listening ELSE \E d \in listening : listening' = listening \ {d}
    /\ UNCHANGED <<work, admission, owner, base, kind, held, drain>>

\* The terminal callback, notify_waiters.
Signal(j) ==
    /\ stage[j] = "released"
    /\ stage' = [stage EXCEPT ![j] = "absent"]
    /\ listening' = {}
    /\ UNCHANGED <<work, admission, owner, base, kind, held, drain>>

-----------------------------------------------------------------------------
\* close_and_drain closes the admission first.
Close(d) ==
    /\ drain[d] = "idle"
    /\ closed' = TRUE
    /\ drain' = [drain EXCEPT ![d] = "loop"]
    /\ UNCHANGED <<slots, bytes, job, listening>>

\* notified() and enable().
Arm(d) ==
    /\ drain[d] = "loop"
    /\ drain' = [drain EXCEPT ![d] = "armed"]
    /\ listening' = listening \cup {d}
    /\ UNCHANGED <<admission, job>>

NoUsage == slots = 0

\* usage(), then return or await.
Check(d) ==
    /\ drain[d] = "armed"
    /\ drain' = [drain EXCEPT ![d] = IF NoUsage THEN "drained" ELSE "await"]
    /\ listening' = IF NoUsage THEN listening \ {d} ELSE listening
    /\ UNCHANGED <<admission, job>>

\* The notification ends the await and the loop turns.
Resume(d) ==
    /\ drain[d] = "await" /\ d \notin listening
    /\ drain' = [drain EXCEPT ![d] = "loop"]
    /\ UNCHANGED <<admission, job, listening>>

\* The future of the drain is dropped at its await.
Cancel(d) ==
    /\ drain[d] = "await"
    /\ drain' = [drain EXCEPT ![d] = "idle"]
    /\ listening' = listening \ {d}
    /\ UNCHANGED <<admission, job>>

DropSome(j) == DropOwner(j) \/ \E c \in Charges : JobOf[c] = j /\ DropCharge(c)

Next ==
    \/ \E j \in Jobs :
         \/ \E n \in Amounts : Reserve(j, n) \/ Grow(j, n)
         \/ DropSome(j) \/ Finish(j) \/ Signal(j)
    \/ \E c \in Charges :
         \/ \E n \in Amounts : Buffer(c, n) \/ GrowCharge(c, n)
         \/ \E d \in Charges : Merge(c, d)
         \/ IntoOwned(c)
    \/ \E d \in Drainers : Close(d) \/ Arm(d) \/ Check(d) \/ Resume(d) \/ Cancel(d)

Spec == Init /\ [][Next]_vars

\* Operations end: each owner and guard is dropped in the end.  A woken drainer
\* is polled again.
Fairness ==
    /\ \A j \in Jobs : WF_vars(DropSome(j) \/ Finish(j) \/ Signal(j))
    /\ \A d \in Drainers : WF_vars(Arm(d) \/ Check(d) \/ Resume(d))

FairSpec == Spec /\ Fairness

-----------------------------------------------------------------------------
Admitted == {j \in Jobs : stage[j] \in {"live", "last"}}

\* The type of the state, and the two limits of the admission.
TypeOK ==
    /\ slots \in 0..MaxSlots /\ bytes \in 0..MaxBytes /\ closed \in BOOLEAN
    /\ stage \in [Jobs -> {"absent", "live", "last", "released"}]
    /\ owner \in [Jobs -> BOOLEAN] /\ base \in [Jobs -> 0..MaxBytes]
    /\ kind \in [Charges -> Kinds] /\ held \in [Charges -> 0..MaxBytes]
    /\ work \in [Jobs -> 0..MaxWork]
    /\ drain \in [Drainers -> {"idle", "loop", "armed", "await", "drained"}]
    /\ listening \subseteq Drainers

\* The counters of the admission are exactly what the living guards hold, however
\* charges are merged, grown, handed to workers and dropped: no subtraction of a
\* Drop underflows, and no capacity is lost.
CountersExact ==
    /\ TypeOK
    /\ slots = Cardinality(Admitted)
    /\ bytes = Cardinality(Units(base)) + Cardinality(Units(held))

\* A charge never outlives its job: bytes are retained only under a slot (the
\* borrow or the Arc inside every charge).
ChargesUnderSlots ==
    /\ \A j \in Jobs : base[j] > 0 => j \in Admitted
    /\ \A c \in Charges : held[c] > 0 => JobOf[c] \in Admitted

\* A drain that returned left nothing behind: no admitted operation and no byte,
\* now or at any later time (close is permanent, and reserve is refused by it).
DrainedForGood == (\E d \in Drainers : drain[d] = "drained") => closed /\ slots = 0 /\ bytes = 0

\* No wakeup is lost between the look at the counters and the await: every drain
\* ends once the operations end, with several drainers and cancelled ones too
\* (enable() before usage(), notify_waiters after the counters changed).
EveryDrainEnds ==
    \A d \in Drainers : drain[d] \in {"loop", "armed", "await"} ~> drain[d] \in {"drained", "idle"}
=============================================================================
