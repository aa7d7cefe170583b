-------------------------- MODULE OwnershipProofs ---------------------------
(***************************************************************************)
(* What Ownership guarantees for any number of nodes, any lease lifetime    *)
(* and any epochs.                                                          *)
(***************************************************************************)
EXTENDS Ownership, TLAPS

LEMMA AcquiredType ==
    ASSUME TypeOK, NEW o \in Owners, NEW at \in Nat, Acquired(lease, o, at).epoch <= MaxEpoch
    PROVE  Acquired(lease, o, at) \in QueueLease
BY OwnershipAssumption DEF TypeOK, QueueLease, Acquired, LeaseState

LEMMA UnassignedType == \A e \in 0..MaxEpoch : Unassigned(e) \in QueueLease
BY DEF Unassigned, QueueLease, LeaseState

LEMMA IdleType == Idle \in Task
<1>1. Unassigned(0) \in QueueLease /\ 0 \in 0..MaxEpoch
  BY UnassignedType, OwnershipAssumption
<1> QED
  BY <1>1 DEF Idle, Task, Steps

LEMMA StepType == \A t \in Task, s \in Steps : [t EXCEPT !.step = s] \in Task
BY DEF Task

LEMMA FenceType ==
    \A t \in Task, s \in Steps, f \in 0..MaxEpoch : [t EXCEPT !.step = s, !.fence = f] \in Task
BY Zenon DEF Task

LEMMA ReleaseType ==
    ASSUME TypeOK, NEW o \in Owners, NEW e, TryRelease(o, e)
    PROVE  lease' \in QueueLease
<1>1. lease.epoch \in 0..MaxEpoch
  BY DEF TypeOK, QueueLease
<1> QED
  BY <1>1, UnassignedType DEF TypeOK, TryRelease, Released

LEMMA EstablishedType ==
    ASSUME NEW t \in Task, NEW e \in Nat
    PROVE  Established(t, e) \in Steps
<1>1. t.epoch \in Nat
  BY DEF Task
<1>2. e < t.epoch \/ e = t.epoch \/ e > t.epoch
  BY <1>1
<1> QED
  BY <1>1, <1>2 DEF Established, Steps

LEMMA ComparedType ==
    ASSUME NEW e \in Nat, NEW f \in Nat
    PROVE  Compared(e, f) \in Steps
BY DEF Compared, Steps

-----------------------------------------------------------------------------
\* Type correctness: the lease record, the epochs, the acquisitions and the
\* sessions keep their shape through every call.
THEOREM TypeCorrect == Spec => []TypeOK
<1>1. Init => TypeOK
  BY OwnershipAssumption, IdleType, UnassignedType DEF Init, TypeOK, NoRenewal, NoSession
<1>2. TypeOK /\ [Next]_vars => TypeOK'
  <2> SUFFICES ASSUME TypeOK, [Next]_vars PROVE TypeOK'
    OBVIOUS
  <2> USE OwnershipAssumption
  <2>1. CASE Tick
    BY <2>1 DEF Tick, TypeOK
  <2>2. CASE BeginDrain
    BY <2>2, Zenon DEF BeginDrain, TypeOK, Others, QueueLease, LeaseState
  <2>3. CASE StaleWrite
    BY <2>3 DEF StaleWrite, TypeOK
  <2>4. CASE Restart
    <3>1. Unassigned(0) \in QueueLease
      BY UnassignedType
    <3>2. stale' \in SUBSET (0..MaxEpoch)
      <4>1. \A p \in Owners : stamps[p] \subseteq 0..MaxEpoch
        BY DEF TypeOK
      <4>2. stale' = stale \cup UNION {stamps[p] : p \in Owners} /\ stale \subseteq 0..MaxEpoch
        BY <2>4 DEF Restart, TypeOK
      <4> QED
        BY <4>1, <4>2, Zenon
    <3> QED
      BY <2>4, <3>1, <3>2, IdleType DEF Restart, TypeOK, NoSession, NoRenewal
  <2>5. ASSUME NEW o \in Owners, Sample(o) PROVE TypeOK'
    <3>0. now \in Nat
      BY DEF TypeOK
    <3>1. [Idle EXCEPT !.step = "sampled", !.at = now] \in Task
      BY <3>0, IdleType, Zenon DEF Task, Steps
    <3> QED
      BY <2>5, <3>1 DEF Sample, TypeOK, Others
  <2>6. ASSUME NEW o \in Owners, Resolve(o) PROVE TypeOK'
    <3>1. {"resolved", "ready"} \subseteq Steps /\ task[o] \in Task
      BY DEF TypeOK, Steps
    <3>2. \A s \in {"resolved", "ready"} : [task[o] EXCEPT !.step = s] \in Task
      BY <3>1, StepType
    <3>3. task' \in [Owners -> Task]
      <4>1. CASE task' = [task EXCEPT ![o] = Idle]
        BY <4>1, IdleType DEF TypeOK
      <4>2. CASE Goto(o, "resolved") \/ Goto(o, "ready")
        BY <4>2, <3>2, Zenon DEF TypeOK, Goto
      <4> QED
        BY <2>6, <4>1, <4>2 DEF Resolve
    <3> QED
      BY <2>6, <3>3 DEF Resolve, TypeOK, Others
  <2>7. ASSUME NEW o \in Owners, ReadPrior(o) PROVE TypeOK'
    <3>0. task[o] \in Task /\ lease \in QueueLease
      BY DEF TypeOK
    <3>1. [task[o] EXCEPT !.step = "ready", !.prior = lease] \in Task
      BY <3>0, Zenon DEF Task, Steps
    <3> QED
      BY <2>7, <3>1 DEF ReadPrior, TypeOK, Others
  <2>8. ASSUME NEW o \in Owners, Acquire(o) PROVE TypeOK'
    <3> DEFINE t == task[o]
               new == Acquired(lease, o, t.at)
               after == [t EXCEPT !.step = "acquired", !.epoch = new.epoch,
                                  !.pending = new.state = "PendingFence",
                                  !.same = SameSession(t.prior, o, new.epoch),
                                  !.prior = Unassigned(0)]
    <3>1. t \in Task /\ t.at \in Nat
      BY DEF TypeOK, Task
    <3>2. CASE AcquireRejected(lease, o, t.at) /\ task' = [task EXCEPT ![o] = Idle]
               /\ UNCHANGED <<lease, storage>>
      BY <2>8, <3>2, IdleType DEF Acquire, TypeOK, Others
    <3>3. CASE new.epoch <= MaxEpoch /\ lease' = new
               /\ storage' = (IF Plane = "bound" THEN new.epoch ELSE storage)
               /\ task' = [task EXCEPT ![o] = after]
      <4>1. new \in QueueLease
        BY <3>1, <3>3, AcquiredType
      <4>2. new.epoch \in 0..MaxEpoch
        BY <4>1 DEF QueueLease
      <4>3. SameSession(t.prior, o, new.epoch) \in BOOLEAN
        BY DEF SameSession
      <4>4. Unassigned(0) \in QueueLease
        BY UnassignedType
      <4> HIDE DEF new
      <4>5. after \in Task
        BY <3>1, <4>2, <4>3, <4>4, Zenon DEF Task, Steps
      <4>6. storage' \in 0..MaxEpoch
        BY <3>3, <4>2 DEF TypeOK
      <4> HIDE DEF after
      <4> QED
        BY <2>8, <3>3, <4>1, <4>5, <4>6 DEF Acquire, TypeOK, Others
    <3> QED
      BY <2>8, <3>2, <3>3 DEF Acquire
  <2>9. ASSUME NEW o \in Owners, ReadEpoch(o) PROVE TypeOK'
    <3>1. Established(task[o], storage) \in Steps
      BY EstablishedType DEF TypeOK
    <3>2. [task[o] EXCEPT !.step = Established(task[o], storage), !.fence = storage] \in Task
      BY <3>1, FenceType, Zenon DEF TypeOK
    <3> QED
      BY <2>9, <3>2 DEF ReadEpoch, TypeOK, Others
  <2>10. ASSUME NEW o \in Owners, FenceEpoch(o) PROVE TypeOK'
    <3>1. Compared(storage, task[o].epoch) \in Steps
      BY ComparedType DEF TypeOK, Task
    <3>2. [task[o] EXCEPT !.step = Compared(storage, task[o].epoch), !.fence = storage] \in Task
      BY <3>1, FenceType, Zenon DEF TypeOK
    <3> QED
      BY <2>10, <3>2 DEF FenceEpoch, TypeOK, Others
  <2>11. ASSUME NEW o \in Owners, FenceAdvance(o) PROVE TypeOK'
    <3> DEFINE step == IF ~Exact /\ storage + 1 > task[o].epoch THEN "fenced"
                       ELSE Compared(storage + 1, task[o].epoch)
    <3>1. step \in Steps /\ storage + 1 \in 0..MaxEpoch
      <4>0. storage < MaxEpoch /\ storage \in 0..MaxEpoch /\ task[o] \in Task
        BY <2>11, Zenon DEF TypeOK, FenceAdvance
      <4>1. storage \in Nat /\ storage + 1 \in 0..MaxEpoch /\ task[o] \in Task
        BY <4>0
      <4>2. storage + 1 \in Nat /\ task[o].epoch \in Nat
        BY <4>1 DEF Task
      <4>3. Compared(storage + 1, task[o].epoch) \in Steps
        BY <4>2, ComparedType, Zenon
      <4>4. "fenced" \in Steps
        BY Zenon DEF Steps
      <4> QED BY <4>1, <4>3, <4>4, Zenon
    <3> HIDE DEF step
    <3>2. [task[o] EXCEPT !.step = step, !.fence = storage + 1] \in Task
      BY <3>1, FenceType, Zenon DEF TypeOK
    <3> QED
      BY <2>11, <3>1, <3>2 DEF FenceAdvance, TypeOK, Others, step
  <2>12. ASSUME NEW o \in Owners, Advance(o) PROVE TypeOK'
    <3>0. task[o] \in Task
      BY DEF TypeOK
    <3>1. storage + 1 \in 0..MaxEpoch
      BY <2>12 DEF TypeOK, Advance
    <3>2. [task[o] EXCEPT !.step = "fenced", !.fence = storage + 1] \in Task
      BY <3>0, <3>1, Zenon DEF Task, Steps
    <3> QED
      BY <2>12, <3>1, <3>2 DEF Advance, TypeOK, Others
  <2>13. ASSUME NEW o \in Owners, StorageFails(o) PROVE TypeOK'
    <3>1. [task[o] EXCEPT !.step = "failed"] \in Task
      BY StepType, Zenon DEF TypeOK, Steps
    <3> QED
      BY <2>13, <3>1 DEF StorageFails, Goto, TypeOK, Others
  <2>14. ASSUME NEW o \in Owners, Confirm(o) PROVE TypeOK'
    <3>1. [task[o] EXCEPT !.step = "failed"] \in Task /\ task[o] \in Task
      BY StepType, Zenon DEF TypeOK, Steps
    <3>2. [lease EXCEPT !.state = "Assigned"] \in QueueLease
      BY Zenon DEF TypeOK, QueueLease, LeaseState
    <3>3. task[o].epoch \in 0..MaxEpoch /\ task[o].fence \in 0..MaxEpoch
      BY DEF TypeOK, Task
    <3>4. task' \in [Owners -> Task]
      BY <2>14, <3>1, IdleType, Zenon DEF Confirm, Goto, TypeOK
    <3>5. lease' \in QueueLease
      BY <2>14, <3>2, Zenon DEF Confirm, TypeOK
    <3>6. session' \in [Owners -> [lease : 0..MaxEpoch, fence : 0..MaxEpoch]]
      <4>1. session' \in {session, [session EXCEPT ![o] = [lease |-> task[o].epoch, fence |-> task[o].fence]]}
        BY <2>14 DEF Confirm
      <4>2. [lease |-> task[o].epoch, fence |-> task[o].fence] \in [lease : 0..MaxEpoch, fence : 0..MaxEpoch]
        BY <3>3
      <4> QED
        BY <4>1, <4>2 DEF TypeOK
    <3>7. stamps' \in [Owners -> SUBSET (0..MaxEpoch)]
      <4>1. stamps' \in {stamps, [stamps EXCEPT ![o] = @ \cup {task[o].fence}]}
        BY <2>14 DEF Confirm
      <4>2. stamps[o] \cup {task[o].fence} \in SUBSET (0..MaxEpoch)
        BY <3>3 DEF TypeOK
      <4> QED
        BY <4>1, <4>2, Zenon DEF TypeOK
    <3> QED
      BY <2>14, <3>4, <3>5, <3>6, <3>7 DEF Confirm, TypeOK
  <2>15. ASSUME NEW o \in Owners, Compensate(o) PROVE TypeOK'
    BY <2>15, ReleaseType, IdleType DEF Compensate, TypeOK, Others
  <2>16. ASSUME NEW o \in Owners, StartRenewal(o) PROVE TypeOK'
    BY <2>16 DEF StartRenewal, TypeOK
  <2>17. ASSUME NEW o \in Owners, Renew(o) PROVE TypeOK'
    <3>1. renewal[o].at + LeaseTtl \in Nat /\ lease \in QueueLease
      BY DEF TypeOK
    <3>2. Renewed(lease, renewal[o].at) \in QueueLease
      BY <3>1 DEF Renewed, QueueLease
    <3>3. lease' \in QueueLease
      BY <2>17, <3>2 DEF Renew, TypeOK
    <3>4. session' \in [Owners -> [lease : 0..MaxEpoch, fence : 0..MaxEpoch]]
      BY <2>17 DEF Renew, TypeOK, NoSession
    <3>5. renewal' \in [Owners -> [epoch : 0..MaxEpoch, at : Nat]]
      BY <2>17 DEF Renew, TypeOK, NoRenewal
    <3> QED
      BY <2>17, <3>3, <3>4, <3>5 DEF Renew, TypeOK
  <2>18. ASSUME NEW o \in Owners, Release(o) PROVE TypeOK'
    BY <2>18, ReleaseType DEF Release, TypeOK, Others, NoSession
  <2>19. ASSUME NEW o \in Owners, Write(o) PROVE TypeOK'
    <3>1. PICK e \in stamps[o] :
             /\ \/ last' = [epoch |-> e, owner |-> o] /\ UNCHANGED session
                \/ session' = [session EXCEPT ![o] = NoSession] /\ UNCHANGED last
             /\ UNCHANGED <<lease, storage, now, task, renewal, stamps, stale>>
      BY <2>19 DEF Write
    <3>2. e \in 0..MaxEpoch
      BY DEF TypeOK
    <3>3. last' \in [epoch : 0..MaxEpoch, owner : Owners \cup {NoOwner}]
      BY <3>1, <3>2 DEF TypeOK
    <3>4. session' \in [Owners -> [lease : 0..MaxEpoch, fence : 0..MaxEpoch]]
      BY <3>1 DEF TypeOK, NoSession
    <3> QED
      BY <3>1, <3>3, <3>4 DEF TypeOK
  <2>20. ASSUME NEW o \in Owners, Crash(o) PROVE TypeOK'
    BY <2>20, IdleType DEF Crash, TypeOK, NoSession, NoRenewal
  <2>21. CASE UNCHANGED vars
    BY <2>21 DEF vars, TypeOK
  <2>22. ASSUME NEW o \in Owners, ConfirmLost(o) PROVE TypeOK'
    <3>1. [task[o] EXCEPT !.step = "failed"] \in Task
      BY StepType, Zenon DEF TypeOK, Steps
    <3>2. [lease EXCEPT !.state = "Assigned"] \in QueueLease
      BY Zenon DEF TypeOK, QueueLease, LeaseState
    <3> QED
      BY <2>22, <3>1, <3>2 DEF ConfirmLost, Goto, TypeOK, Others
  <2>23. ASSUME NEW o \in Owners, Abandon(o) PROVE TypeOK'
    BY <2>23, IdleType DEF Abandon, TypeOK, Others
  <2> QED
    BY <2>1, <2>2, <2>3, <2>4, <2>5, <2>6, <2>7, <2>8, <2>9, <2>10, <2>11, <2>12, <2>13, <2>14,
       <2>15, <2>16, <2>17, <2>18, <2>19, <2>20, <2>21, <2>22, <2>23 DEF Next
<1> QED
  BY <1>1, <1>2, PTL DEF Spec

-----------------------------------------------------------------------------
\* The authority and the storage agree on what an epoch is: the storage moves
\* with the authority, or by a fence_epoch that hits its target exactly.
Tight == Plane = "bound" \/ (Plane = "durable" /\ Exact)

\* The epochs a node stamps its writes with, or is about to.
Held == {"acquired", "fencing", "looping", "fenced"}
Claims(o, e) == e \in stamps[o] \/ (task[o].step \in Held /\ e = task[o].epoch)

OwnerNamed == lease.state = "Unassigned" <=> lease.owner = NoOwner
ClaimsCurrent ==
    \A o \in Owners : \A e \in 0..MaxEpoch : Claims(o, e) =>
        e <= lease.epoch /\ (e = lease.epoch => lease.owner \in {o, NoOwner})
ClaimsDistinct ==
    \A o, p \in Owners : \A e \in 0..MaxEpoch : Claims(o, e) /\ Claims(p, e) => o = p
FencesExact ==
    \A o \in Owners :
        /\ task[o].step # "advancing"
        /\ task[o].step = "fenced" => task[o].fence = task[o].epoch /\ task[o].epoch <= storage
        /\ session[o].fence = session[o].lease
        /\ \A e \in stamps[o] : e <= storage
ServedFenced == Serving => lease.epoch <= storage
BoundEqual == Plane = "bound" => storage = lease.epoch /\ \A o \in Owners : task[o].step # "looping"
LastStamped == last.epoch <= storage /\ (last.owner \in Owners => last.epoch \in stamps[last.owner])

TightInv ==
    /\ OwnerNamed /\ ClaimsCurrent /\ ClaimsDistinct /\ FencesExact
    /\ ServedFenced /\ BoundEqual /\ LastStamped /\ stale = {}

LEMMA TightInit == ASSUME Init PROVE TightInv
<1>1. /\ lease = Unassigned(0) /\ storage = 0 /\ stale = {} /\ last = [epoch |-> 0, owner |-> NoOwner]
      /\ \A o \in Owners : task[o] = Idle /\ session[o] = NoSession /\ stamps[o] = {}
  BY DEF Init
<1>2. \A o \in Owners, e \in 0..MaxEpoch : ~Claims(o, e)
  BY <1>1 DEF Claims, Held, Idle
<1> QED
  BY <1>1, <1>2, OwnershipAssumption DEF TightInv, OwnerNamed, ClaimsCurrent, ClaimsDistinct, FencesExact,
     ServedFenced, Serving, BoundEqual, LastStamped, Unassigned, Idle, NoSession

\* Steps that grant nothing: no epoch gets a new claimant, and the authority
\* record keeps its epoch and at most loses its owner.
Grantless ==
    /\ lease'.epoch = lease.epoch /\ lease'.owner \in {lease.owner, NoOwner}
    /\ \A o \in Owners, e \in 0..MaxEpoch : Claims(o, e)' => Claims(o, e)

LEMMA GrantlessStep ==
    ASSUME TightInv, Grantless
    PROVE  ClaimsCurrent' /\ ClaimsDistinct'
BY DEF TightInv, Grantless, ClaimsCurrent, ClaimsDistinct

\* Steps of one acquisition that leave everything else alone.
LEMMA TaskStep ==
    ASSUME TypeOK, TightInv, NEW o \in Owners, NEW t \in Task,
           task' = [task EXCEPT ![o] = t],
           UNCHANGED <<lease, storage, stamps, stale, last>>,
           \A p \in Owners : session'[p].fence = session'[p].lease,
           t.step \in Held => task[o].step \in Held /\ t.epoch = task[o].epoch,
           t.step # "advancing",
           t.step = "fenced" => t.fence = t.epoch /\ t.epoch <= storage,
           Plane = "bound" => t.step # "looping"
    PROVE  TightInv'
<1>1. task'[o] = t /\ \A p \in Owners : p # o => task'[p] = task[p]
  BY DEF TypeOK
<1>2. Grantless
  BY <1>1 DEF Grantless, Claims
<1>3. FencesExact'
  BY <1>1 DEF TightInv, FencesExact
<1>4. BoundEqual'
  BY <1>1 DEF TightInv, BoundEqual
<1> QED
  BY <1>2, <1>3, <1>4, GrantlessStep DEF TightInv, OwnerNamed, ServedFenced, Serving, LastStamped

\* Steps of the authority that change neither the epochs nor what nodes do.
LEMMA LeaseStep ==
    ASSUME TypeOK, TightInv, UNCHANGED <<task, storage, stamps, stale, last>>,
           \A p \in Owners : session'[p].fence = session'[p].lease,
           lease'.epoch = lease.epoch, lease'.owner = lease.owner,
           lease'.state = lease.state \/ (lease.state = "Assigned" /\ lease'.state = "Draining")
    PROVE  TightInv'
<1>1. Grantless
  BY DEF Grantless, Claims
<1>2. FencesExact' /\ LastStamped'
  BY DEF TightInv, FencesExact, LastStamped
<1>3. OwnerNamed' /\ ServedFenced'
  BY DEF TightInv, OwnerNamed, ServedFenced, Serving
<1> QED
  BY <1>1, <1>2, <1>3, GrantlessStep DEF TightInv, BoundEqual

LEMMA SessionsExact ==
    ASSUME TypeOK, TightInv, NEW o \in Owners,
           session' = session \/ session' = [session EXCEPT ![o] = NoSession]
    PROVE  \A p \in Owners : session'[p].fence = session'[p].lease
<1>1. \A p \in Owners : session[p].fence = session[p].lease
  BY DEF TightInv, FencesExact
<1>2. session' = session \/ \A p \in Owners : session'[p] = IF p = o THEN NoSession ELSE session[p]
  BY DEF TypeOK
<1> QED
  BY <1>1, <1>2 DEF NoSession

\* A release leaves the record alone or unassigns it, at its epoch.
LEMMA ReleaseShape ==
    ASSUME NEW o \in Owners, NEW e, TryRelease(o, e)
    PROVE  lease' = lease \/ lease' = Unassigned(lease.epoch)
BY DEF TryRelease, Released

\* An acquisition: the node re-affirms the epoch that is its own already, or
\* gets one that nobody has had.
LEMMA AcquireStep ==
    ASSUME Tight, TypeOK, TypeOK', TightInv, NEW o \in Owners, Acquire(o)
    PROVE  TightInv'
<1> DEFINE t == task[o]
           new == Acquired(lease, o, t.at)
<1>1. CASE AcquireRejected(lease, o, t.at) /\ task' = [task EXCEPT ![o] = Idle]
           /\ UNCHANGED <<lease, storage>>
  <2>1. \A p \in Owners : session'[p].fence = session'[p].lease
    BY SessionsExact DEF Acquire
  <2>2. UNCHANGED <<lease, storage, stamps, stale, last>>
    BY <1>1 DEF Acquire, Others
  <2> QED
    BY <1>1, <2>1, <2>2, TaskStep, IdleType, Zenon DEF Idle, Held
<1>2. CASE /\ lease' = new
           /\ storage' = (IF Plane = "bound" THEN new.epoch ELSE storage)
           /\ task'[o].step = "acquired" /\ task'[o].epoch = new.epoch
           /\ \A p \in Owners : p # o => task'[p] = task[p]
  <2>0. UNCHANGED <<session, stamps, stale, last>>
    BY DEF Acquire, Others
  <2>1. /\ lease.epoch \in Nat /\ storage \in Nat
        /\ \A p \in Owners : stamps[p] \subseteq 0..MaxEpoch /\ task[p].epoch \in 0..MaxEpoch
    BY DEF TypeOK, QueueLease, Task
  <2>2. new.owner = o /\ new.state # "Unassigned" /\ o # NoOwner
    BY OwnershipAssumption DEF Acquired
  <2>3. \/ new.epoch = lease.epoch + 1
        \/ new.epoch = lease.epoch /\ lease.owner = o /\ Serving
    BY <2>2 DEF Acquired, Reaffirms, Serving, TightInv, OwnerNamed, TypeOK, QueueLease, LeaseState
  <2>4. storage <= storage' /\ (Plane = "bound" => storage' = new.epoch)
    BY <1>2, <2>1, <2>3 DEF TightInv, BoundEqual
  <2>5. \A p \in Owners, e \in 0..MaxEpoch : Claims(p, e)' => Claims(p, e) \/ (p = o /\ e = new.epoch)
    BY <1>2, <2>0 DEF Claims
  <2>6. \A p \in Owners, e \in 0..MaxEpoch : Claims(p, e) =>
          e <= lease.epoch /\ (e = lease.epoch => lease.owner \in {p, NoOwner})
    BY DEF TightInv, ClaimsCurrent
  <2>7. new.epoch \in Nat /\ lease'.epoch = new.epoch /\ lease'.owner = o
    BY <1>2, <2>1, <2>2, <2>3
  <2> HIDE DEF new
  <2>8. ClaimsCurrent'
    <3> SUFFICES ASSUME NEW p \in Owners, NEW e \in 0..MaxEpoch, Claims(p, e)'
                 PROVE  e <= new.epoch /\ (e = new.epoch => p = o)
      BY <2>7 DEF ClaimsCurrent
    <3> QED
      BY <2>1, <2>2, <2>3, <2>5, <2>6, <2>7
  <2>9. ClaimsDistinct'
    <3> SUFFICES ASSUME NEW p \in Owners, NEW q \in Owners, NEW e \in 0..MaxEpoch,
                        Claims(p, e)', Claims(q, e)'
                 PROVE  p = q
      BY DEF ClaimsDistinct
    <3>1. Claims(p, e) /\ Claims(q, e) => p = q
      BY DEF TightInv, ClaimsDistinct
    <3> QED
      BY <2>1, <2>2, <2>3, <2>5, <2>6, <2>7, <3>1
  <2>10. FencesExact'
    <3> SUFFICES ASSUME NEW p \in Owners
                 PROVE  /\ task'[p].step # "advancing"
                        /\ task'[p].step = "fenced" => /\ task'[p].fence = task'[p].epoch
                                                       /\ task'[p].epoch <= storage'
                        /\ session'[p].fence = session'[p].lease
                        /\ \A e \in stamps'[p] : e <= storage'
      BY DEF FencesExact
    <3>1. storage' \in Nat
      BY DEF TypeOK
    <3>2. \A e \in stamps[p] : e <= storage
      BY DEF TightInv, FencesExact
    <3>3. \A e \in stamps'[p] : e <= storage'
      BY <2>0, <2>1, <2>4, <3>1, <3>2
    <3>4. CASE p = o
      BY <1>2, <2>0, <3>3, <3>4 DEF TightInv, FencesExact
    <3>5. CASE p # o
      BY <1>2, <2>0, <2>1, <2>4, <3>1, <3>3, <3>5 DEF TightInv, FencesExact
    <3> QED
      BY <3>4, <3>5
  <2>11. ServedFenced'
    <3>1. CASE Plane = "bound"
      BY <2>4, <2>7, <3>1 DEF ServedFenced
    <3>2. CASE Plane = "durable" /\ new.epoch = lease.epoch + 1
      <4>1. ~Reaffirms(lease, o)
        BY <2>1, <3>2 DEF new, Acquired
      <4>2. lease'.state = "PendingFence"
        BY <1>2, <3>2, <4>1 DEF new, Acquired
      <4> QED
        BY <4>2 DEF ServedFenced, Serving
    <3>3. CASE Plane = "durable" /\ new.epoch = lease.epoch /\ Serving
      BY <1>2, <2>7, <3>3 DEF TightInv, ServedFenced
    <3> QED
      BY <2>3, <3>1, <3>2, <3>3 DEF Tight
  <2>12. BoundEqual'
    BY <1>2, <2>4, <2>7 DEF TightInv, BoundEqual
  <2>13. OwnerNamed'
    BY <1>2, <2>2 DEF OwnerNamed
  <2>14. LastStamped'
    <3>1. last.epoch \in Nat /\ storage' \in Nat
      BY DEF TypeOK
    <3> QED
      BY <2>0, <2>1, <2>4, <3>1 DEF TightInv, LastStamped
  <2> QED
    BY <2>0, <2>8, <2>9, <2>10, <2>11, <2>12, <2>13, <2>14 DEF TightInv
<1>3. ASSUME ~AcquireRejected(lease, o, t.at), lease' = new,
             storage' = (IF Plane = "bound" THEN new.epoch ELSE storage),
             task' = [task EXCEPT ![o] =
                        [t EXCEPT !.step = "acquired", !.epoch = new.epoch,
                                  !.pending = new.state = "PendingFence",
                                  !.same = SameSession(t.prior, o, new.epoch),
                                  !.prior = Unassigned(0)]]
      PROVE  TightInv'
  <2>1. t \in Task
    BY DEF TypeOK
  <2> HIDE DEF new
  <2>2. task'[o].step = "acquired" /\ task'[o].epoch = new.epoch
    BY <1>3, <2>1 DEF TypeOK, Task
  <2>3. \A p \in Owners : p # o => task'[p] = task[p]
    BY <1>3 DEF TypeOK
  <2> QED
    BY <1>2, <1>3, <2>2, <2>3
<1> QED
  BY <1>1, <1>3 DEF Acquire

LEMMA TightStep ==
    ASSUME Tight, TypeOK, TypeOK', TightInv, [Next]_vars
    PROVE  TightInv'
<1>0. ~Ephemeral /\ stale = {}
  BY DEF Tight, Ephemeral, TightInv
<1>1. \A p \in Owners : session[p].fence = session[p].lease
  BY DEF TightInv, FencesExact
<1>2. \A p \in Owners : task[p] \in Task /\ task[p].epoch \in 0..MaxEpoch
  BY DEF TypeOK, Task
<1>3. lease.epoch \in Nat /\ storage \in Nat
  BY DEF TypeOK, QueueLease
<1>5. CASE Tick \/ UNCHANGED vars \/ \E o \in Owners : StartRenewal(o)
  <2>1. UNCHANGED <<lease, storage, task, session, stamps, stale, last>>
    BY <1>5 DEF Tick, vars, StartRenewal
  <2>2. \A p \in Owners : session'[p].fence = session'[p].lease
    BY <1>1, <2>1
  <2> QED
    BY <2>1, <2>2, LeaseStep
<1>6. CASE BeginDrain
  <2>1. lease' = [lease EXCEPT !.state = "Draining"] /\ lease.state = "Assigned"
    BY <1>6 DEF BeginDrain
  <2>2. UNCHANGED <<task, storage, stamps, stale, last, session>>
    BY <1>6 DEF BeginDrain, Others
  <2>3. lease'.epoch = lease.epoch /\ lease'.owner = lease.owner /\ lease'.state = "Draining"
    BY <2>1 DEF TypeOK, QueueLease
  <2>4. \A p \in Owners : session'[p].fence = session'[p].lease
    BY <1>1, <2>2
  <2> QED
    BY <2>1, <2>2, <2>3, <2>4, LeaseStep
<1>7. CASE StaleWrite \/ Restart
  BY <1>0, <1>7 DEF StaleWrite, Restart
<1>8. ASSUME NEW o \in Owners, Sample(o) PROVE TightInv'
  <2> DEFINE t == [Idle EXCEPT !.step = "sampled", !.at = now]
  <2>0. now \in Nat
    BY DEF TypeOK
  <2>1. t \in Task /\ t.step = "sampled"
    BY <2>0, IdleType, Zenon DEF Task, Steps, Idle
  <2>2. task' = [task EXCEPT ![o] = t] /\ UNCHANGED <<lease, storage, stamps, stale, last, session>>
    BY <1>8 DEF Sample, Others
  <2> HIDE DEF t
  <2> QED
    BY <1>1, <2>1, <2>2, TaskStep, Zenon DEF Held
<1>9. ASSUME NEW o \in Owners, NEW s \in Steps \ Held, s # "advancing", Goto(o, s),
             UNCHANGED <<lease, storage, stamps, stale, last, session>>
      PROVE  TightInv'
  <2> DEFINE t == [task[o] EXCEPT !.step = s]
  <2>1. t \in Task /\ t.step = s
    BY <1>2 DEF Task
  <2>2. task' = [task EXCEPT ![o] = t]
    BY <1>9 DEF Goto
  <2> HIDE DEF t
  <2> QED
    BY <1>1, <1>9, <2>1, <2>2, TaskStep, Zenon DEF Held
<1>10. ASSUME NEW o \in Owners, task' = [task EXCEPT ![o] = Idle],
              UNCHANGED <<lease, storage, stamps, stale, last>>,
              session' = session \/ session' = [session EXCEPT ![o] = NoSession]
       PROVE  TightInv'
  <2>1. Idle.step = "idle"
    BY DEF Idle
  <2> QED
    BY <1>10, <2>1, TaskStep, SessionsExact, IdleType, Zenon DEF Held
<1>11. ASSUME NEW o \in Owners, Resolve(o) PROVE TightInv'
  <2>1. UNCHANGED <<lease, storage, stamps, stale, last, session>>
    BY <1>11 DEF Resolve, Others
  <2>2. {"resolved", "ready"} \subseteq Steps \ Held
    BY DEF Steps, Held
  <2> QED
    BY <1>9, <1>10, <1>11, <2>1, <2>2 DEF Resolve
<1>12. ASSUME NEW o \in Owners, ReadPrior(o) PROVE TightInv'
  <2> DEFINE t == [task[o] EXCEPT !.step = "ready", !.prior = lease]
  <2>1. lease \in QueueLease
    BY DEF TypeOK
  <2>2. t \in Task /\ t.step = "ready"
    BY <1>2, <2>1, Zenon DEF Task, Steps
  <2>3. task' = [task EXCEPT ![o] = t] /\ UNCHANGED <<lease, storage, stamps, stale, last, session>>
    BY <1>12, Zenon DEF ReadPrior, Others
  <2> HIDE DEF t
  <2> QED
    BY <1>1, <2>2, <2>3, TaskStep, Zenon DEF Held
<1>13. ASSUME NEW o \in Owners, NEW s \in {"fencing", "looping", "fenced", "failed"},
              task[o].step \in Held,
              task' = [task EXCEPT ![o].step = s, ![o].fence = storage],
              UNCHANGED <<lease, storage, stamps, stale, last, session>>,
              s = "fenced" => storage = task[o].epoch,
              s = "looping" => storage < task[o].epoch
       PROVE  TightInv'
  <2> DEFINE t == [task[o] EXCEPT !.step = s, !.fence = storage]
  <2>1. storage \in 0..MaxEpoch
    BY DEF TypeOK
  <2>2. t \in Task /\ t.step = s /\ t.fence = storage /\ t.epoch = task[o].epoch
    BY <1>2, <2>1, Zenon DEF Task, Steps
  <2>3. task' = [task EXCEPT ![o] = t]
    BY <1>13, Zenon
  <2>4. Claims(o, task[o].epoch)
    BY <1>13 DEF Claims
  <2>5. task[o].epoch <= lease.epoch
    BY <1>2, <2>4 DEF TightInv, ClaimsCurrent
  <2>6. Plane = "bound" => s # "looping"
    BY <1>2, <1>3, <1>13, <2>5 DEF TightInv, BoundEqual
  <2> HIDE DEF t
  <2>7. \A p \in Owners : session'[p].fence = session'[p].lease
    BY <1>1, <1>13
  <2>8. t.step # "advancing" /\ (t.step = "fenced" => t.fence = t.epoch /\ t.epoch <= storage)
    BY <1>3, <1>13, <2>2
  <2>9. t.step \in Held => task[o].step \in Held /\ t.epoch = task[o].epoch
    BY <1>13, <2>2, Zenon
  <2> QED
    BY <1>13, <2>2, <2>3, <2>6, <2>7, <2>8, <2>9, TaskStep, Zenon
<1>14. ASSUME NEW o \in Owners, ReadEpoch(o) PROVE TightInv'
  <2> DEFINE s == Established(task[o], storage)
  <2>1. s \in {"fencing", "failed"}
    BY <1>0, <1>2, <1>3 DEF Established
  <2>2. UNCHANGED <<lease, storage, stamps, stale, last, session>>
    BY <1>14 DEF ReadEpoch, Others
  <2>3. task[o].step \in Held /\ task' = [task EXCEPT ![o].step = s, ![o].fence = storage]
    BY <1>14 DEF ReadEpoch, Held
  <2> HIDE DEF s
  <2> QED
    BY <1>13, <2>1, <2>2, <2>3, Zenon
<1>15. ASSUME NEW o \in Owners, FenceEpoch(o) PROVE TightInv'
  <2> DEFINE s == Compared(storage, task[o].epoch)
  <2>1. /\ s \in {"looping", "fenced", "failed"}
        /\ s = "fenced" => storage = task[o].epoch
        /\ s = "looping" => storage < task[o].epoch
    BY <1>2, <1>3 DEF Compared
  <2>2. UNCHANGED <<lease, storage, stamps, stale, last, session>>
    BY <1>15 DEF FenceEpoch, Others
  <2>3. task[o].step \in Held /\ task' = [task EXCEPT ![o].step = s, ![o].fence = storage]
    BY <1>15 DEF FenceEpoch, Held
  <2> HIDE DEF s
  <2> QED
    BY <1>13, <2>1, <2>2, <2>3, Zenon
<1>16. ASSUME NEW o \in Owners, FenceAdvance(o) PROVE TightInv'
  <2> DEFINE s == IF ~Exact /\ storage + 1 > task[o].epoch THEN "fenced"
                  ELSE Compared(storage + 1, task[o].epoch)
  <2>0. Plane # "bound" /\ Exact
    BY <1>16 DEF FenceAdvance, TightInv, BoundEqual, Tight
  <2>1. /\ s \in {"looping", "fenced", "failed"}
        /\ s = "fenced" => storage + 1 = task[o].epoch
    BY <1>2, <1>3, <2>0 DEF Compared
  <2>2. UNCHANGED <<lease, stamps, stale, last, session>> /\ storage' = storage + 1
    BY <1>16 DEF FenceAdvance, Others
  <2>3. task[o].step \in Held /\ task' = [task EXCEPT ![o].step = s, ![o].fence = storage + 1]
    BY <1>16 DEF FenceAdvance, Held
  <2> HIDE DEF s
  <2>4. /\ task'[o].step = s /\ task'[o].epoch = task[o].epoch /\ task'[o].fence = storage + 1
        /\ \A p \in Owners : p # o => task'[p] = task[p]
    BY <1>2, <2>3 DEF TypeOK, Task
  <2>5. Grantless
    BY <2>2, <2>3, <2>4, Zenon DEF Grantless, Claims
  <2>6. FencesExact'
    <3> SUFFICES ASSUME NEW p \in Owners
                 PROVE  /\ task'[p].step # "advancing"
                        /\ task'[p].step = "fenced" => /\ task'[p].fence = task'[p].epoch
                                                       /\ task'[p].epoch <= storage'
                        /\ session'[p].fence = session'[p].lease
                        /\ \A e \in stamps'[p] : e <= storage'
      BY DEF FencesExact
    <3>1. stamps[p] \subseteq 0..MaxEpoch
      BY DEF TypeOK
    <3>2. \A e \in stamps'[p] : e <= storage'
      BY <1>3, <2>2, <3>1 DEF TightInv, FencesExact
    <3>3. CASE p = o
      BY <1>1, <1>2, <1>3, <2>1, <2>2, <2>4, <3>2, <3>3
    <3>4. CASE p # o
      BY <1>1, <1>2, <1>3, <2>2, <2>4, <3>2, <3>4 DEF TightInv, FencesExact
    <3> QED
      BY <3>3, <3>4
  <2>7. OwnerNamed' /\ ServedFenced' /\ BoundEqual'
    BY <1>3, <2>0, <2>2 DEF TightInv, OwnerNamed, ServedFenced, Serving, BoundEqual
  <2>8. LastStamped'
    <3>1. last.epoch \in Nat
      BY DEF TypeOK
    <3> QED
      BY <1>3, <2>2, <3>1 DEF TightInv, LastStamped
  <2> QED
    BY <2>2, <2>5, <2>6, <2>7, <2>8, GrantlessStep DEF TightInv
<1>17. ASSUME NEW o \in Owners, Advance(o) PROVE TightInv'
  BY <1>17 DEF Advance, TightInv, FencesExact
<1>18. ASSUME NEW o \in Owners, StorageFails(o) PROVE TightInv'
  <2>1. UNCHANGED <<lease, storage, stamps, stale, last, session>>
    BY <1>18 DEF StorageFails, Others
  <2>2. "failed" \in Steps \ Held
    BY DEF Steps, Held
  <2> QED
    BY <1>9, <1>18, <2>1, <2>2 DEF StorageFails
<1>19. ASSUME NEW o \in Owners, Confirm(o) PROVE TightInv'
  <2> DEFINE t == task[o]
  <2>0. t.step = "fenced" /\ UNCHANGED <<storage, stale, last>>
    BY <1>19 DEF Confirm
  <2>1. CASE Goto(o, "failed") /\ UNCHANGED <<lease, session, stamps>>
    <3>1. "failed" \in Steps \ Held
      BY DEF Steps, Held
    <3> QED
      BY <1>9, <2>0, <2>1, <3>1
  <2>2. CASE /\ t.pending => CanConfirm(lease, o, t.epoch, t.at)
             /\ lease' = IF t.pending THEN [lease EXCEPT !.state = "Assigned"] ELSE lease
             /\ session' = [session EXCEPT ![o] = [lease |-> t.epoch, fence |-> t.fence]]
             /\ stamps' = [stamps EXCEPT ![o] = @ \cup {t.fence}]
             /\ task' = [task EXCEPT ![o] = Idle]
    <3>1. t.fence = t.epoch /\ t.epoch <= storage /\ t.step \in Held
      BY <2>0 DEF TightInv, FencesExact, Held
    <3>2. lease'.epoch = lease.epoch /\ lease'.owner = lease.owner
      BY <2>2 DEF TypeOK, QueueLease
    <3>3. /\ task'[o].step = "idle" /\ \A p \in Owners : p # o => task'[p] = task[p]
          /\ stamps'[o] = stamps[o] \cup {t.epoch} /\ \A p \in Owners : p # o => stamps'[p] = stamps[p]
          /\ \A p \in Owners : session'[p].fence = session'[p].lease
      BY <1>1, <2>2, <3>1 DEF TypeOK, Idle
    <3>4. Grantless
      BY <3>1, <3>2, <3>3 DEF Grantless, Claims, Held
    <3>5. FencesExact'
      BY <2>0, <3>1, <3>3 DEF TightInv, FencesExact
    <3>6. BoundEqual' /\ LastStamped'
      BY <2>0, <3>2, <3>3 DEF TightInv, BoundEqual, LastStamped
    <3>7. CASE t.pending
      <4>1. /\ lease'.state = "Assigned" /\ lease.epoch = t.epoch
            /\ lease.state \in {"PendingFence", "Assigned"}
        BY <2>2, <3>7 DEF CanConfirm, Holds, TypeOK, QueueLease
      <4>2. OwnerNamed' /\ ServedFenced'
        BY <2>0, <3>1, <3>2, <4>1 DEF TightInv, OwnerNamed, ServedFenced
      <4> QED
        BY <2>0, <3>4, <3>5, <3>6, <4>2, GrantlessStep DEF TightInv
    <3>8. CASE ~t.pending
      <4>1. OwnerNamed' /\ ServedFenced'
        BY <2>0, <2>2, <3>8 DEF TightInv, OwnerNamed, ServedFenced, Serving
      <4> QED
        BY <2>0, <3>4, <3>5, <3>6, <4>1, GrantlessStep DEF TightInv
    <3> QED
      BY <3>7, <3>8
  <2> QED
    BY <1>19, <2>1, <2>2 DEF Confirm
<1>20. ASSUME NEW o \in Owners, NEW e, TryRelease(o, e),
              task' = task \/ task' = [task EXCEPT ![o] = Idle],
              session' = session \/ session' = [session EXCEPT ![o] = NoSession],
              UNCHANGED <<storage, stamps, stale, last>>
       PROVE  TightInv'
  <2>1. lease' = lease \/ lease' = Unassigned(lease.epoch)
    BY <1>20, ReleaseShape
  <2>2. /\ lease'.epoch = lease.epoch /\ lease'.owner \in {lease.owner, NoOwner}
        /\ OwnerNamed' /\ (Serving' => Serving)
    BY <2>1 DEF Unassigned, TightInv, OwnerNamed, Serving
  <2>3. \A p \in Owners : task'[p] = task[p] \/ task'[p] = Idle
    BY <1>20 DEF TypeOK
  <2>4. \A p \in Owners : session'[p].fence = session'[p].lease
    BY <1>20, SessionsExact
  <2>5. Idle.step = "idle"
    BY DEF Idle
  <2>6. Grantless
    BY <1>20, <2>2, <2>3, <2>5 DEF Grantless, Claims, Held
  <2>7. FencesExact'
    BY <1>20, <2>3, <2>4, <2>5 DEF TightInv, FencesExact
  <2>8. ServedFenced' /\ BoundEqual' /\ LastStamped'
    BY <1>20, <2>2, <2>3, <2>5 DEF TightInv, ServedFenced, BoundEqual, LastStamped
  <2> QED
    BY <1>20, <2>2, <2>6, <2>7, <2>8, GrantlessStep DEF TightInv
<1>21. ASSUME NEW o \in Owners, Compensate(o) \/ Release(o) PROVE TightInv'
  BY <1>20, <1>21 DEF Compensate, Release, Others
<1>22. ASSUME NEW o \in Owners, Renew(o) PROVE TightInv'
  <2>1. UNCHANGED <<task, storage, stamps, stale, last>>
    BY <1>22 DEF Renew
  <2>2. session' = session \/ session' = [session EXCEPT ![o] = NoSession]
    BY <1>22 DEF Renew
  <2>3. lease'.epoch = lease.epoch /\ lease'.owner = lease.owner /\ lease'.state = lease.state
    BY <1>22 DEF Renew, Renewed, TypeOK, QueueLease
  <2>4. \A p \in Owners : session'[p].fence = session'[p].lease
    BY <2>2, SessionsExact
  <2> QED
    BY <2>1, <2>3, <2>4, LeaseStep
<1>23. ASSUME NEW o \in Owners, Write(o) PROVE TightInv'
  <2>1. PICK e \in stamps[o] :
          \/ e = storage /\ last' = [epoch |-> e, owner |-> o] /\ UNCHANGED session
          \/ session' = [session EXCEPT ![o] = NoSession] /\ UNCHANGED last
    BY <1>23 DEF Write
  <2>2. UNCHANGED <<lease, storage, task, stamps, stale>>
    BY <1>23 DEF Write
  <2>3. \A p \in Owners : session'[p].fence = session'[p].lease
    BY <2>1, SessionsExact
  <2>4. LastStamped'
    BY <1>3, <2>1, <2>2 DEF TightInv, LastStamped
  <2>5. FencesExact' /\ Grantless
    BY <2>2, <2>3 DEF TightInv, FencesExact, Grantless, Claims
  <2> QED
    BY <2>2, <2>4, <2>5, GrantlessStep, Zenon DEF TightInv, OwnerNamed, ServedFenced, Serving, BoundEqual
<1>24. ASSUME NEW o \in Owners, Crash(o) \/ Abandon(o) PROVE TightInv'
  BY <1>10, <1>24 DEF Crash, Abandon, Others
<1>25. ASSUME NEW o \in Owners, ConfirmLost(o) PROVE TightInv'
  <2>1. /\ task[o].step = "fenced" /\ CanConfirm(lease, o, task[o].epoch, task[o].at)
        /\ lease' = [lease EXCEPT !.state = "Assigned"]
        /\ UNCHANGED <<storage, stamps, stale, last, session>>
    BY <1>25 DEF ConfirmLost, Others
  <2>2. task[o].epoch <= storage
    BY <2>1 DEF TightInv, FencesExact
  <2>3. /\ lease'.epoch = lease.epoch /\ lease'.owner = lease.owner /\ lease.epoch = task[o].epoch
        /\ lease.state \in {"PendingFence", "Assigned"} /\ lease'.state = "Assigned"
    BY <2>1 DEF CanConfirm, Holds, TypeOK, QueueLease
  <2>4. task'[o].step = "failed" /\ \A p \in Owners : p # o => task'[p] = task[p]
    BY <1>1, <1>25 DEF ConfirmLost, Goto, TypeOK
  <2>5. Grantless
    BY <2>1, <2>3, <2>4 DEF Grantless, Claims, Held
  <2>6. FencesExact'
    BY <2>1, <2>4 DEF TightInv, FencesExact
  <2>7. BoundEqual' /\ LastStamped'
    BY <2>1, <2>3, <2>4 DEF TightInv, BoundEqual, LastStamped
  <2>8. OwnerNamed' /\ ServedFenced'
    BY <2>1, <2>2, <2>3 DEF TightInv, OwnerNamed, ServedFenced
  <2> QED
    BY <2>1, <2>5, <2>6, <2>7, <2>8, GrantlessStep DEF TightInv
<1> QED
  BY <1>5, <1>6, <1>7, <1>8, <1>11, <1>12, <1>14, <1>15, <1>16, <1>17, <1>18, <1>19, <1>21, <1>22,
     <1>23, <1>24, <1>25, AcquireStep DEF Next

\* The inductive invariant behind the theorems below.
LEMMA TightAlways == ASSUME Tight PROVE Spec => []TightInv
<1>1. Init => TightInv
  BY TightInit
<1>2. TypeOK /\ TypeOK' /\ TightInv /\ [Next]_vars => TightInv'
  BY TightStep
<1> QED
  BY <1>1, <1>2, TypeCorrect, PTL DEF Spec

\* No two nodes ever hold sessions with the same fence epoch, when acquisition
\* binds the storage epoch or fence_epoch hits its target exactly.
THEOREM StampsDistinct == ASSUME Tight PROVE Spec => []DistinctStamps
<1>1. TypeOK /\ TightInv => DistinctStamps
  <2> SUFFICES ASSUME TypeOK, TightInv, NEW o \in Owners, NEW p \in Owners, o # p,
                      NEW e \in stamps[o], e \in stamps[p]
               PROVE  FALSE
    BY DEF DistinctStamps
  <2>1. e \in 0..MaxEpoch /\ Claims(o, e) /\ Claims(p, e)
    BY DEF TypeOK, Claims
  <2> QED
    BY <2>1 DEF TightInv, ClaimsDistinct
<1> QED
  BY <1>1, TypeCorrect, TightAlways, PTL

\* Under a serving owner no write of another node is accepted.
THEOREM SupersededAreFenced == ASSUME Tight PROVE Spec => []SupersededFenced
<1>1. TypeOK /\ TightInv => SupersededFenced
  <2> SUFFICES ASSUME TypeOK, TightInv, Serving, NEW o \in Owners \ {lease.owner}, storage \in stamps[o]
               PROVE  FALSE
    BY Zenon DEF SupersededFenced
  <2>1. storage \in 0..MaxEpoch /\ lease.epoch \in Nat /\ Claims(o, storage)
    BY DEF TypeOK, QueueLease, Claims
  <2>2. storage <= lease.epoch /\ (storage = lease.epoch => lease.owner = NoOwner)
    BY <2>1 DEF TightInv, ClaimsCurrent
  <2>3. lease.epoch <= storage /\ lease.owner # NoOwner
    BY DEF TightInv, ServedFenced, OwnerNamed, Serving
  <2> QED
    BY <2>1, <2>2, <2>3
<1> QED
  BY <1>1, TypeCorrect, TightAlways, PTL

\* Accepted writes form runs of one owner, with growing epochs.
THEOREM HandOver == ASSUME Tight PROVE Spec => WritesHandOver
<1> DEFINE A == /\ last'.epoch >= last.epoch
                /\ last.owner \in Owners /\ last'.owner # last.owner => last'.epoch > last.epoch
<1>1. ASSUME TypeOK, TightInv, [Next]_vars PROVE [A]_vars
  <2>1. last.epoch \in Nat /\ storage \in Nat
    BY <1>1 DEF TypeOK
  <2>2. CASE UNCHANGED last
    BY <2>1, <2>2
  <2>3. CASE StaleWrite
    BY <1>1, <2>3 DEF StaleWrite, TightInv
  <2>4. ASSUME NEW o \in Owners, Write(o), last' # last PROVE A
    <3>1. storage \in stamps[o] /\ last' = [epoch |-> storage, owner |-> o]
      BY <2>4 DEF Write
    <3>2. ASSUME last.owner \in Owners, last.epoch = storage PROVE last.owner = o
      <4>1. Claims(o, storage) /\ Claims(last.owner, storage) /\ storage \in 0..MaxEpoch
        BY <1>1, <3>1, <3>2 DEF TightInv, LastStamped, Claims, TypeOK
      <4> QED
        BY <1>1, <3>2, <4>1 DEF TightInv, ClaimsDistinct
    <3>3. last.epoch <= storage
      BY <1>1 DEF TightInv, LastStamped
    <3> QED
      BY <2>1, <3>1, <3>2, <3>3
  <2> QED
    BY <1>1, <2>2, <2>3, <2>4, ZenonT(30) DEF Next, vars, Tick, BeginDrain, Restart, Sample, Resolve, ReadPrior, Acquire,
       ReadEpoch, FenceEpoch, FenceAdvance, Advance, StorageFails, Confirm, ConfirmLost, Compensate, Abandon,
       StartRenewal, Renew, Release, Crash, Others
<1> HIDE DEF A
<1>2. TypeOK /\ TightInv /\ [Next]_vars => [A]_vars
  BY <1>1
<1>3. Spec => [][A]_vars
  BY <1>2, TypeCorrect, TightAlways, PTL DEF Spec
<1> QED
  BY <1>3, Zenon DEF A, WritesHandOver

\* When acquisition binds the storage epoch, the serving owner's session
\* carries it.
THEOREM BoundMatched == ASSUME Plane = "bound" PROVE Spec => []Matched
<1>1. Tight
  BY DEF Tight
<1>2. TightInv => Matched
  BY DEF TightInv, FencesExact, BoundEqual, Matched
<1> QED
  BY <1>1, <1>2, TightAlways, PTL

\* And the storage epoch never moves under a serving owner: the epochs of the
\* authority and of the storage are equal before and after every step.
THEOREM BoundNeverSelfFenced == ASSUME Plane = "bound" PROVE Spec => NeverSelfFenced
<1> DEFINE A == Serving /\ lease'.state # "Unassigned" /\ lease'.epoch = lease.epoch => storage' = storage
<1>1. Tight
  BY DEF Tight
<1>2. TightInv /\ TightInv' => [A]_vars
  BY Zenon DEF TightInv, BoundEqual
<1> HIDE DEF A
<1>3. Spec => [][A]_vars
  BY <1>1, <1>2, TightAlways, PTL DEF Spec
<1> QED
  BY <1>3 DEF A, NeverSelfFenced

-----------------------------------------------------------------------------
(***************************************************************************)
(* A node alone, with any authority.                                         *)
(***************************************************************************)
Alone == \A o, p \in Owners : o = p

\* The steps of an acquisition that has a lease and works on its fence.
Acquiring == {"acquired", "fencing", "looping", "advancing", "fenced"}

\* Whose lease it is has one, and the fence of a serving record has been reached.
LeaseSane ==
    /\ lease.owner \in Owners => lease.state # "Unassigned"
    /\ lease.state # "Unassigned" => 1 <= lease.epoch
    /\ Serving => lease.epoch <= storage

\* There is a session or an acquisition, and what it read of the storage is true;
\* the record is the one that the acquisition read or wrote.
SessionOrTask(o) ==
    /\ task[o].step # "idle" => session[o] = NoSession
    /\ session[o] # NoSession => session[o].fence = storage
PriorTrue(o) ==
    Ephemeral /\ task[o].step = "ready" =>
        /\ task[o].prior.owner = lease.owner /\ task[o].prior.epoch = lease.epoch
        /\ task[o].prior.state = "PendingFence" <=> lease.state = "PendingFence"
LeaseTrue(o) ==
    task[o].step \in Acquiring =>
        /\ lease.owner = o /\ lease.epoch = task[o].epoch
        /\ task[o].pending <=> lease.state = "PendingFence"
        /\ Ephemeral => (task[o].same <=> ~task[o].pending)
FenceTrue(o) ==
    /\ task[o].step \in Acquiring \ {"acquired"} => task[o].fence = storage
    /\ task[o].step = "looping" => storage < task[o].epoch
    /\ task[o].step \in {"advancing", "fenced"} => task[o].epoch <= storage
    /\ task[o].step = "advancing" => task[o].pending

Truthful(o) == SessionOrTask(o) /\ PriorTrue(o) /\ LeaseTrue(o) /\ FenceTrue(o)
AloneInv == LeaseSane /\ \A o \in Owners : Truthful(o)

LEMMA AloneInit == ASSUME Init PROVE AloneInv
<1>1. /\ lease = Unassigned(0) /\ storage = 0
      /\ \A o \in Owners : task[o] = Idle /\ session[o] = NoSession
  BY DEF Init
<1>2. LeaseSane
  BY <1>1, OwnershipAssumption DEF LeaseSane, Serving, Unassigned
<1>3. ASSUME NEW o \in Owners PROVE Truthful(o)
  BY <1>1, <1>3 DEF Truthful, SessionOrTask, PriorTrue, LeaseTrue, FenceTrue, Acquiring, Idle
<1> QED
  BY <1>2, <1>3 DEF AloneInv

\* An acquisition ends, or has not got a lease.
LEMMA AloneUnleased ==
    ASSUME TypeOK, NEW o \in Owners, Truthful(o), LeaseSane', UNCHANGED storage,
           task'[o].step \notin Acquiring \cup {"ready"},
           session'[o] = session[o] \/ session'[o] = NoSession,
           task[o].step # "idle" \/ task'[o].step = "idle" \/ session[o] = NoSession
    PROVE  Truthful(o)'
BY Zenon DEF Truthful, SessionOrTask, PriorTrue, LeaseTrue, FenceTrue, Acquiring

\* The authority keeps the assignment.
LEMMA AloneKept ==
    ASSUME TypeOK, NEW o \in Owners, Truthful(o), UNCHANGED <<storage, task>>,
           session'[o] = session[o] \/ session'[o] = NoSession,
           lease'.owner = lease.owner, lease'.epoch = lease.epoch,
           lease'.state = "PendingFence" <=> lease.state = "PendingFence"
    PROVE  Truthful(o)'
BY DEF Truthful, SessionOrTask, PriorTrue, LeaseTrue, FenceTrue

\* An acquisition reads the storage, or moves it.
LEMMA AloneReads ==
    ASSUME TypeOK, NEW o \in Owners, Truthful(o), UNCHANGED <<lease, session>>,
           task[o].step \in Acquiring, NEW s \in Acquiring \cup {"failed"}, s # "acquired",
           task' = [task EXCEPT ![o].step = s, ![o].fence = storage'],
           s = "looping" => storage' < task[o].epoch,
           s \in {"advancing", "fenced"} => task[o].epoch <= storage',
           s = "advancing" => task[o].pending
    PROVE  Truthful(o)'
<1>1. task[o] \in Task /\ task'[o] = [task[o] EXCEPT !.step = s, !.fence = storage']
  BY DEF TypeOK
<1>2. /\ task'[o].step = s /\ task'[o].fence = storage' /\ task'[o].epoch = task[o].epoch
      /\ task'[o].pending = task[o].pending /\ task'[o].same = task[o].same
  BY <1>1, ZenonT(30) DEF Task
<1>3. s \notin {"idle", "ready"} /\ task[o].step # "idle"
  BY DEF Acquiring
<1>4. session[o] = NoSession
  BY <1>3, Zenon DEF Truthful, SessionOrTask
<1> QED
  BY <1>2, <1>3, <1>4, Zenon DEF Truthful, SessionOrTask, PriorTrue, LeaseTrue, FenceTrue

LEMMA ComparedWhen ==
    ASSUME NEW e \in Nat, NEW target \in Nat
    PROVE  /\ Compared(e, target) \in {"failed", "fenced", "looping"}
           /\ Compared(e, target) = "fenced" => target <= e
           /\ Compared(e, target) = "looping" => e < target
BY DEF Compared

LEMMA AloneStep ==
    ASSUME Alone, TypeOK, TypeOK', AloneInv, [Next]_vars
    PROVE  AloneInv'
<1>1. \A o \in Owners : task[o] \in Task
  BY DEF TypeOK
<1>2. lease \in QueueLease /\ storage \in Nat /\ lease.epoch \in Nat
  BY DEF TypeOK, QueueLease
<1>3. ASSUME NEW o \in Owners, LeaseSane', Truthful(o)' PROVE AloneInv'
  BY <1>3, Zenon DEF Alone, AloneInv
<1>4. CASE UNCHANGED <<lease, storage, task, session>>
  BY <1>4 DEF AloneInv, LeaseSane, Serving, Truthful, SessionOrTask, PriorTrue, LeaseTrue, FenceTrue
<1>5. CASE Tick \/ StaleWrite \/ UNCHANGED vars \/ \E o \in Owners : StartRenewal(o)
  <2>1. UNCHANGED <<lease, storage, task, session>>
    BY <1>5 DEF Tick, StaleWrite, vars, StartRenewal
  <2> QED
    BY <1>4, <2>1
<1>6. CASE BeginDrain
  <2>1. UNCHANGED <<storage, task, session>> /\ lease' = [lease EXCEPT !.state = "Draining"] /\ lease.state = "Assigned"
    BY <1>6 DEF BeginDrain, Others
  <2>2. lease'.owner = lease.owner /\ lease'.epoch = lease.epoch /\ lease'.state = "Draining"
    BY <1>2, <2>1 DEF QueueLease
  <2>3. LeaseSane'
    BY <2>1, <2>2 DEF AloneInv, LeaseSane, Serving
  <2>4. ASSUME NEW o \in Owners PROVE Truthful(o)'
    BY <2>1, <2>2, AloneKept DEF AloneInv
  <2> QED
    BY <2>3, <2>4 DEF AloneInv
<1>7. CASE Restart
  <2>1. lease' = Unassigned(0) /\ storage' = storage /\ \A o \in Owners : task'[o] = Idle /\ session'[o] = NoSession
    BY <1>7 DEF Restart
  <2>2. LeaseSane'
    BY <2>1, OwnershipAssumption, Zenon DEF LeaseSane, Serving, Unassigned
  <2>3. ASSUME NEW o \in Owners PROVE Truthful(o)'
    BY <2>1, <2>3 DEF Truthful, SessionOrTask, PriorTrue, LeaseTrue, FenceTrue, Acquiring, Idle
  <2> QED
    BY <2>2, <2>3 DEF AloneInv
\* The record is kept, and so is what holds of it.
<1>8. ASSUME UNCHANGED <<lease, storage>> PROVE LeaseSane'
  BY <1>8 DEF AloneInv, LeaseSane, Serving
<1>9. ASSUME NEW o \in Owners, task' = [task EXCEPT ![o] = Idle], UNCHANGED storage, LeaseSane',
             session' = session \/ session' = [session EXCEPT ![o] = NoSession]
      PROVE  AloneInv'
  <2>1. task'[o].step = "idle" /\ (session'[o] = session[o] \/ session'[o] = NoSession)
    BY <1>9, Zenon DEF TypeOK, Idle
  <2>2. Truthful(o)'
    BY <1>9, <2>1, AloneUnleased DEF AloneInv, Acquiring
  <2> QED
    BY <1>3, <1>9, <2>2
<1>10. ASSUME NEW o \in Owners, NEW s \in {"resolved", "ready", "failed"}, Goto(o, s), task[o].step # "idle",
              s = "ready" => ~Ephemeral, UNCHANGED <<storage, session>>, LeaseSane'
       PROVE  AloneInv'
  <2>1. task'[o].step = s
    BY <1>1, <1>10, Zenon DEF Goto, TypeOK, Task
  <2>2. Truthful(o)'
    BY <1>10, <2>1 DEF AloneInv, Truthful, SessionOrTask, PriorTrue, LeaseTrue, FenceTrue, Acquiring
  <2> QED
    BY <1>3, <1>10, <2>2
<1>11. ASSUME NEW o \in Owners, Sample(o) PROVE AloneInv'
  <2>1. task'[o].step = "sampled" /\ UNCHANGED <<lease, storage, session>> /\ session[o] = NoSession
    BY <1>11, Zenon DEF Sample, TypeOK, Idle, Others
  <2>2. Truthful(o)'
    BY <1>8, <2>1, AloneUnleased, Zenon DEF AloneInv, Acquiring
  <2> QED
    BY <1>3, <1>8, <2>1, <2>2
<1>12. ASSUME NEW o \in Owners, Resolve(o) PROVE AloneInv'
  <2>1. UNCHANGED <<lease, storage, session>> /\ task[o].step = "sampled"
    BY <1>12 DEF Resolve, Others
  <2> QED
    BY <1>8, <1>9, <1>10, <1>12, <2>1 DEF Resolve
<1>13. ASSUME NEW o \in Owners, ReadPrior(o) PROVE AloneInv'
  <2>1. UNCHANGED <<lease, storage, session>> /\ task[o].step = "resolved"
    BY <1>13 DEF ReadPrior, Others
  <2>2. task'[o] = [task[o] EXCEPT !.step = "ready", !.prior = lease]
    BY <1>13 DEF ReadPrior, TypeOK
  <2>3. task'[o].step = "ready" /\ task'[o].prior = lease
    BY <1>1, <2>2, Zenon DEF Task
  <2>4. Truthful(o)'
    BY <2>1, <2>3 DEF AloneInv, Truthful, SessionOrTask, PriorTrue, LeaseTrue, FenceTrue, Acquiring
  <2> QED
    BY <1>3, <1>8, <2>1, <2>4
<1>14. ASSUME NEW o \in Owners, Acquire(o) PROVE AloneInv'
  <2> DEFINE t == task[o]
             new == Acquired(lease, o, t.at)
  <2>0. UNCHANGED session /\ t.step = "ready" /\ t \in Task
    BY <1>1, <1>14 DEF Acquire
  <2>1. CASE task' = [task EXCEPT ![o] = Idle] /\ UNCHANGED <<lease, storage>>
    BY <1>8, <1>9, <2>0, <2>1, Zenon
  <2>2. CASE /\ lease' = new /\ storage' = IF Plane = "bound" THEN new.epoch ELSE storage
             /\ task' = [task EXCEPT ![o] =
                        [t EXCEPT !.step = "acquired", !.epoch = new.epoch,
                                  !.pending = new.state = "PendingFence",
                                  !.same = SameSession(t.prior, o, new.epoch),
                                  !.prior = Unassigned(0)]]
    <3>1. task'[o] = [t EXCEPT !.step = "acquired", !.epoch = new.epoch,
                                  !.pending = new.state = "PendingFence",
                                  !.same = SameSession(t.prior, o, new.epoch),
                                  !.prior = Unassigned(0)]
      BY <2>2 DEF TypeOK
    <3>2. /\ task'[o].step = "acquired" /\ task'[o].epoch = new.epoch
          /\ task'[o].pending = (new.state = "PendingFence")
          /\ task'[o].same = SameSession(t.prior, o, new.epoch)
      BY <2>0, <3>1, Zenon DEF Task
    <3>3. /\ new.owner = o /\ new.epoch = IF Reaffirms(lease, o) THEN lease.epoch ELSE lease.epoch + 1
          /\ new.state = IF Reaffirms(lease, o) \/ Plane = "bound" THEN "Assigned" ELSE "PendingFence"
      BY DEF Acquired
    <3>4. Reaffirms(lease, o) => lease.owner = o /\ lease.state # "Unassigned" /\ Serving
      BY <1>2 DEF Reaffirms, AloneInv, LeaseSane, Serving, QueueLease, LeaseState
    <3> HIDE DEF new, t
    <3>5. LeaseSane'
      BY <1>2, <2>2, <3>3, <3>4 DEF AloneInv, LeaseSane, Serving
    <3>6. Ephemeral => (SameSession(t.prior, o, new.epoch) <=> Reaffirms(lease, o))
      BY <1>2, <2>0, <3>3 DEF AloneInv, Truthful, PriorTrue, SameSession, Reaffirms, t
    <3>7. session[o] = NoSession
      BY <2>0 DEF AloneInv, Truthful, SessionOrTask, t
    <3>8. Truthful(o)'
      BY <2>0, <2>2, <3>2, <3>3, <3>6, <3>7, ZenonT(30) DEF Truthful, SessionOrTask, PriorTrue, LeaseTrue, FenceTrue, Acquiring, Ephemeral
    <3> QED
      BY <1>3, <3>5, <3>8
  <2> QED
    BY <1>14, <2>1, <2>2 DEF Acquire
<1>15. ASSUME NEW o \in Owners, ReadEpoch(o) PROVE AloneInv'
  <2> DEFINE s == Established(task[o], storage)
  <2>1. /\ UNCHANGED <<lease, storage, session>> /\ task[o].step = "acquired"
        /\ task' = [task EXCEPT ![o].step = s, ![o].fence = storage']
    BY <1>15 DEF ReadEpoch, Others
  <2>2. task[o].epoch \in Nat
    BY <1>1 DEF Task
  <2>3. Ephemeral => (task[o].same <=> ~task[o].pending)
    BY <2>1 DEF AloneInv, Truthful, LeaseTrue, Acquiring
  <2>4. /\ s \in {"fencing", "fenced", "advancing", "failed"}
        /\ s \in {"advancing", "fenced"} => task[o].epoch <= storage
        /\ s = "advancing" => task[o].pending
    BY <1>2, <2>2, <2>3 DEF Established
  <2> HIDE DEF s
  <2>5. Truthful(o)'
    BY <2>1, <2>4, AloneReads, ZenonT(30) DEF AloneInv, Acquiring
  <2> QED
    BY <1>3, <1>8, <2>1, <2>5
<1>16. ASSUME NEW o \in Owners, FenceEpoch(o) PROVE AloneInv'
  <2> DEFINE s == Compared(storage, task[o].epoch)
  <2>1. /\ UNCHANGED <<lease, storage, session>> /\ task[o].step = "fencing"
        /\ task' = [task EXCEPT ![o].step = s, ![o].fence = storage']
    BY <1>16 DEF FenceEpoch, Others
  <2>2. task[o].epoch \in Nat
    BY <1>1 DEF Task
  <2>3. /\ s \in {"failed", "fenced", "looping"}
        /\ s = "fenced" => task[o].epoch <= storage
        /\ s = "looping" => storage < task[o].epoch
    BY <1>2, <2>2, ComparedWhen, Zenon
  <2> HIDE DEF s
  <2>4. Truthful(o)'
    BY <2>1, <2>3, AloneReads, ZenonT(30) DEF AloneInv, Acquiring
  <2> QED
    BY <1>3, <1>8, <2>1, <2>4
<1>17. ASSUME NEW o \in Owners, FenceAdvance(o) \/ Advance(o) PROVE AloneInv'
  <2>1. /\ UNCHANGED <<lease, session>> /\ storage' = storage + 1
        /\ task[o].step \in {"looping", "advancing"}
    BY <1>17 DEF FenceAdvance, Advance, Others
  <2>2. task[o].epoch \in Nat
    BY <1>1 DEF Task
  <2>3. LeaseSane'
    <3>1. lease.epoch <= storage => lease.epoch <= storage'
      BY <1>2, <2>1
    <3> QED
      BY <2>1, <3>1, Zenon DEF AloneInv, LeaseSane, Serving
  <2>4. Truthful(o)'
    <3>1. PICK s \in {"failed", "fenced", "looping"} :
             /\ task' = [task EXCEPT ![o].step = s, ![o].fence = storage']
             /\ s = "fenced" => task[o].epoch <= storage'
             /\ s = "looping" => storage' < task[o].epoch
      <4>1. CASE FenceAdvance(o)
        <5> DEFINE n == storage + 1
                   e == task[o].epoch
                   s == IF ~Exact /\ n > e THEN "fenced" ELSE Compared(n, e)
        <5>1. n \in Nat /\ storage' = n
          BY <1>2, <2>1
        <5>2. task' = [task EXCEPT ![o].step = s, ![o].fence = storage']
          BY <4>1, <5>1 DEF FenceAdvance
        <5>3. n > e => e <= n
          BY <2>2, <5>1
        <5>4. s \in {"failed", "fenced", "looping"} /\ (s = "fenced" => e <= n) /\ (s = "looping" => n < e)
          BY <2>2, <5>1, <5>3, ComparedWhen, Zenon
        <5> HIDE DEF s, n
        <5> QED
          BY <5>1, <5>2, <5>4, Zenon
      <4>2. CASE Advance(o)
        BY <1>2, <2>1, <2>2, <4>2 DEF Advance, AloneInv, Truthful, FenceTrue
      <4> QED
        BY <1>17, <4>1, <4>2
    <3> QED
      BY <2>1, <3>1, AloneReads, ZenonT(30) DEF AloneInv, Acquiring
  <2> QED
    BY <1>3, <2>3, <2>4
<1>18. ASSUME NEW o \in Owners, StorageFails(o) \/ Abandon(o) PROVE AloneInv'
  <2>1. UNCHANGED <<lease, storage, session>>
    BY <1>18 DEF StorageFails, Abandon, Others
  <2> QED
    BY <1>8, <1>9, <1>10, <1>18, <2>1 DEF StorageFails, Abandon
\* Once its fence was reached, the lease of the acquisition may serve.
<1>19. ASSUME NEW o \in Owners, task[o].step = "fenced", UNCHANGED storage,
              lease' = [lease EXCEPT !.state = "Assigned"] \/ UNCHANGED lease
       PROVE  LeaseSane'
  <2>1. lease'.owner = lease.owner /\ lease'.epoch = lease.epoch /\ lease'.state \in {lease.state, "Assigned"}
    BY <1>2, <1>19 DEF QueueLease
  <2>2. lease.owner = o /\ lease.epoch <= storage
    BY <1>19 DEF AloneInv, Truthful, LeaseTrue, FenceTrue, Acquiring
  <2> QED
    BY <1>19, <2>1, <2>2 DEF AloneInv, LeaseSane, Serving
<1>20. ASSUME NEW o \in Owners, Confirm(o) PROVE AloneInv'
  <2>1. UNCHANGED storage /\ task[o].step = "fenced"
    BY <1>20 DEF Confirm
  <2>2. CASE Goto(o, "failed") /\ UNCHANGED <<lease, session>>
    BY <1>8, <1>10, <2>1, <2>2
  <2>3. CASE /\ lease' = IF task[o].pending THEN [lease EXCEPT !.state = "Assigned"] ELSE lease
             /\ session' = [session EXCEPT ![o] = [lease |-> task[o].epoch, fence |-> task[o].fence]]
             /\ task' = [task EXCEPT ![o] = Idle]
    <3>1. LeaseSane'
      BY <1>19, <2>1, <2>3
    <3>2. task'[o].step = "idle" /\ session'[o].fence = task[o].fence
      BY <2>3 DEF TypeOK, Idle
    <3>3. task[o].fence = storage
      BY <2>1 DEF AloneInv, Truthful, FenceTrue, Acquiring
    <3>4. Truthful(o)'
      BY <2>1, <3>2, <3>3 DEF Truthful, SessionOrTask, PriorTrue, LeaseTrue, FenceTrue, Acquiring
    <3> QED
      BY <1>3, <3>1, <3>4
  <2> QED
    BY <1>20, <2>2, <2>3 DEF Confirm
<1>21. ASSUME NEW o \in Owners, ConfirmLost(o) PROVE AloneInv'
  <2>1. UNCHANGED <<storage, session>> /\ task[o].step = "fenced" /\ Goto(o, "failed") /\ lease' = [lease EXCEPT !.state = "Assigned"]
    BY <1>21 DEF ConfirmLost, Others
  <2> QED
    BY <1>10, <1>19, <2>1
\* A release leaves nothing that could be wrong.
<1>22. ASSUME NEW o \in Owners, NEW e, TryRelease(o, e), UNCHANGED storage PROVE LeaseSane'
  <2>1. lease' = lease \/ lease' = Unassigned(lease.epoch)
    BY <1>22, ReleaseShape
  <2> QED
    BY <1>22, <2>1, OwnershipAssumption DEF AloneInv, LeaseSane, Serving, Unassigned
<1>23. ASSUME NEW o \in Owners, Compensate(o) PROVE AloneInv'
  <2>1. UNCHANGED <<storage, session>> /\ TryRelease(o, task[o].epoch) /\ task' = [task EXCEPT ![o] = Idle]
    BY <1>23 DEF Compensate, Others
  <2> QED
    BY <1>9, <1>22, <2>1, Zenon
<1>24. ASSUME NEW o \in Owners, Release(o) PROVE AloneInv'
  <2>1. UNCHANGED <<storage, task>> /\ TryRelease(o, session[o].lease) /\ session[o] # NoSession
    BY <1>24 DEF Release
  <2>2. session'[o] = NoSession
    BY <1>24 DEF Release, TypeOK
  <2>3. task[o].step = "idle" /\ LeaseSane'
    BY <1>22, <2>1 DEF AloneInv, Truthful, SessionOrTask
  <2>4. Truthful(o)'
    BY <2>1, <2>2, <2>3, AloneUnleased DEF AloneInv, Acquiring
  <2> QED
    BY <1>3, <2>3, <2>4
<1>25. ASSUME NEW o \in Owners, Renew(o) PROVE AloneInv'
  <2>1. UNCHANGED <<storage, task>> /\ (lease' = lease \/ lease' = Renewed(lease, renewal[o].at))
    BY <1>25 DEF Renew
  <2>2. lease'.owner = lease.owner /\ lease'.epoch = lease.epoch /\ lease'.state = lease.state
    BY <1>2, <2>1, Zenon DEF Renewed, QueueLease
  <2>3. session'[o] = session[o] \/ session'[o] = NoSession
    BY <1>25, Zenon DEF Renew, TypeOK
  <2>4. LeaseSane'
    BY <2>1, <2>2 DEF AloneInv, LeaseSane, Serving
  <2>5. Truthful(o)'
    BY <2>1, <2>2, <2>3, AloneKept DEF AloneInv
  <2> QED
    BY <1>3, <2>4, <2>5
<1>26. ASSUME NEW o \in Owners, Write(o) PROVE AloneInv'
  <2>1. UNCHANGED <<lease, storage, task>> /\ (session'[o] = session[o] \/ session'[o] = NoSession)
    BY <1>26 DEF Write, TypeOK
  <2>2. Truthful(o)'
    BY <2>1, AloneKept DEF AloneInv
  <2> QED
    BY <1>3, <1>8, <2>1, <2>2, Zenon
<1>27. ASSUME NEW o \in Owners, Crash(o) PROVE AloneInv'
  <2>1. UNCHANGED <<lease, storage>> /\ task' = [task EXCEPT ![o] = Idle] /\ session' = [session EXCEPT ![o] = NoSession]
    BY <1>27 DEF Crash
  <2> QED
    BY <1>8, <1>9, <2>1, Zenon
<1> QED
  BY <1>5, <1>6, <1>7, <1>11, <1>12, <1>13, <1>14, <1>15, <1>16, <1>17, <1>18, <1>20, <1>21, <1>23,
     <1>24, <1>25, <1>26, <1>27 DEF Next

LEMMA AloneAlways == ASSUME Alone PROVE Spec => []AloneInv
<1>1. Init => AloneInv
  BY AloneInit
<1>2. TypeOK /\ TypeOK' /\ AloneInv /\ [Next]_vars => AloneInv'
  BY AloneStep
<1> QED
  BY <1>1, <1>2, TypeCorrect, PTL DEF Spec

\* With any authority, the session of a node that is alone carries the epoch of
\* the storage, through lapses, crashes, lost answers and restarts.
THEOREM AloneMatched == ASSUME Alone PROVE Spec => []Matched
<1>1. AloneInv => Matched
  BY DEF AloneInv, LeaseSane, Truthful, SessionOrTask, Matched, Serving, NoSession
<1> QED
  BY <1>1, AloneAlways, PTL

\* And unless the authority moves the storage epoch itself, which BoundNeverSelfFenced
\* is about, nothing moves it under the node while it serves.
THEOREM AloneNeverSelfFenced == ASSUME Alone, Plane # "bound" PROVE Spec => NeverSelfFenced
<1> DEFINE A == Serving /\ lease'.state # "Unassigned" /\ lease'.epoch = lease.epoch => storage' = storage
<1>1. ASSUME TypeOK, AloneInv, [Next]_vars PROVE A
  <2>1. CASE storage' = storage
    BY <2>1
  <2>2. ASSUME NEW o \in Owners, FenceAdvance(o) \/ Advance(o) PROVE ~Serving
    <3>1. task[o].step \in {"looping", "advancing"} /\ task[o] \in Task
      BY <2>2, <1>1, Zenon DEF FenceAdvance, Advance, TypeOK
    <3>2. storage < lease.epoch \/ lease.state = "PendingFence"
      BY <1>1, <3>1 DEF AloneInv, Truthful, LeaseTrue, FenceTrue, Acquiring
    <3> QED
      BY <1>1, <3>2 DEF AloneInv, LeaseSane, Serving, TypeOK, QueueLease
  <2>3. storage' = storage \/ \E o \in Owners : FenceAdvance(o) \/ Advance(o)
    <3>1. ASSUME NEW o \in Owners,
                 \/ Sample(o) \/ Resolve(o) \/ ReadPrior(o) \/ Acquire(o) \/ ReadEpoch(o) \/ FenceEpoch(o)
                 \/ StorageFails(o) \/ Confirm(o) \/ ConfirmLost(o) \/ Compensate(o) \/ Abandon(o)
                 \/ StartRenewal(o) \/ Renew(o) \/ Release(o) \/ Write(o) \/ Crash(o)
          PROVE  storage' = storage
      BY <3>1 DEF Sample, Resolve, ReadPrior, Acquire, ReadEpoch, FenceEpoch, StorageFails, Confirm,
         ConfirmLost, Compensate, Abandon, StartRenewal, Renew, Release, Write, Crash
    <3>2. CASE Tick \/ BeginDrain \/ StaleWrite \/ Restart \/ UNCHANGED vars
      BY <3>2 DEF Tick, BeginDrain, StaleWrite, Restart, vars
    <3> QED
      BY <1>1, <3>1, <3>2, Zenon DEF Next
  <2> QED
    BY <2>1, <2>2, <2>3
<1>2. TypeOK /\ AloneInv /\ [Next]_vars => [A]_vars
  BY <1>1
<1> HIDE DEF A
<1>3. Spec => [][A]_vars
  BY <1>2, TypeCorrect, AloneAlways, PTL DEF Spec
<1> QED
  BY <1>3 DEF A, NeverSelfFenced

-----------------------------------------------------------------------------
\* What a restart leaves behind is below everything that comes after.
Above(e, old) == \A s \in old : s < e

Recorded(record) == record.owner \in Owners => record.state # "Unassigned"
StaleBelow == \A s \in stale : s <= storage
ServingAbove == Recorded(lease) /\ (Serving => Above(storage, stale))
TaskAbove(t, top, old) ==
    /\ Recorded(t.prior) /\ (t.prior.state \in {"Assigned", "Draining"} => Above(top, old))
    /\ t.same => Above(top, old)
    /\ t.step \in {"fencing", "looping"} => Above(t.epoch, old)
    /\ t.step = "fenced" => Above(t.fence, old) /\ t.fence <= top
StampsAbove == \A o \in Owners : \A e \in stamps[o] : Above(e, stale) /\ e <= storage

RestartInv ==
    StaleBelow /\ ServingAbove /\ StampsAbove /\ \A o \in Owners : TaskAbove(task[o], storage, stale)

LEMMA RestartInit == ASSUME Init PROVE RestartInv
<1>1. /\ lease = Unassigned(0) /\ storage = 0 /\ stale = {}
      /\ \A o \in Owners : task[o] = Idle /\ stamps[o] = {}
  BY DEF Init
<1> QED
  BY <1>1, OwnershipAssumption, SMTT(30) DEF RestartInv, StaleBelow, ServingAbove, Serving, StampsAbove, TaskAbove,
     Recorded, Above, Unassigned, Idle

\* The storage only grows, and the parts of the invariant that speak of other
\* nodes survive that.
LEMMA GrowingStorage ==
    ASSUME TypeOK, TypeOK', RestartInv, stale' = stale, storage <= storage'
    PROVE  /\ StaleBelow'
           /\ Above(storage, stale) => Above(storage', stale)
           /\ \A t \in Task : TaskAbove(t, storage, stale) => TaskAbove(t, storage', stale)
<1>1. storage \in Nat /\ storage' \in Nat /\ \A s \in stale : s \in Nat
  BY DEF TypeOK
<1>2. StaleBelow' /\ (Above(storage, stale) => Above(storage', stale))
  BY <1>1 DEF RestartInv, StaleBelow, Above
<1>3. ASSUME NEW t \in Task, TaskAbove(t, storage, stale) PROVE TaskAbove(t, storage', stale)
  <2>1. t.fence \in Nat
    BY DEF Task
  <2>2. t.fence <= storage => t.fence <= storage'
    BY <1>1, <2>1
  <2> QED
    BY <1>2, <1>3, <2>2 DEF TaskAbove
<1> QED
  BY <1>2, <1>3

\* A step that changes one acquisition and lets the storage grow.
LEMMA RestartTaskStep ==
    ASSUME TypeOK, TypeOK', RestartInv, NEW o \in Owners,
           \A p \in Owners : p # o => task'[p] = task[p],
           UNCHANGED <<stale, stamps>>, storage <= storage',
           ServingAbove', TaskAbove(task'[o], storage', stale)
    PROVE  RestartInv'
<1>1. \A p \in Owners : TaskAbove(task'[p], storage', stale)
  <2> SUFFICES ASSUME NEW p \in Owners, p # o PROVE TaskAbove(task'[p], storage', stale)
    OBVIOUS
  <2>1. task[p] \in Task /\ TaskAbove(task[p], storage, stale) /\ task'[p] = task[p]
    BY Zenon DEF TypeOK, RestartInv
  <2> QED
    BY <2>1, GrowingStorage
<1>2. StampsAbove'
  <2>1. storage \in Nat /\ storage' \in Nat /\ \A p \in Owners : stamps[p] \subseteq 0..MaxEpoch
    BY DEF TypeOK
  <2> QED
    BY <2>1 DEF RestartInv, StampsAbove
<1> QED
  BY <1>1, <1>2, GrowingStorage, Zenon DEF RestartInv

LEMMA RestartStep ==
    ASSUME Plane = "ephemeral", TypeOK, TypeOK', RestartInv, [Next]_vars
    PROVE  RestartInv'
<1>0. Ephemeral /\ Plane # "bound"
  BY DEF Ephemeral
<1>1. /\ storage \in Nat /\ storage' \in Nat /\ stale \subseteq 0..MaxEpoch /\ lease \in QueueLease
      /\ \A p \in Owners : task[p] \in Task /\ stamps[p] \subseteq 0..MaxEpoch
  BY DEF TypeOK
<1>2. \A p \in Owners : task[p].epoch \in 0..MaxEpoch /\ task[p].fence \in 0..MaxEpoch
  BY <1>1 DEF Task
<1>3. /\ \A s \in stale : s <= storage
      /\ \A p \in Owners : TaskAbove(task[p], storage, stale)
      /\ ServingAbove
  BY DEF RestartInv, StaleBelow
<1>4. Above(storage + 1, stale) /\ storage <= storage + 1
  BY <1>1, <1>3 DEF Above
<1>5. ASSUME UNCHANGED <<storage, stale, stamps>>, ServingAbove',
             \A p \in Owners : task'[p] = task[p] \/ task'[p] = Idle
      PROVE  RestartInv'
  <2>1. TaskAbove(Idle, storage, stale)
    BY OwnershipAssumption DEF TaskAbove, Recorded, Idle, Unassigned
  <2>2. \A p \in Owners : TaskAbove(task'[p], storage', stale')
    BY <1>3, <1>5, <2>1
  <2> QED
    BY <1>5, <2>2, Zenon DEF RestartInv, StaleBelow, StampsAbove
<1>6. CASE Tick \/ StaleWrite \/ UNCHANGED vars \/ \E o \in Owners : StartRenewal(o) \/ Write(o) \/ Crash(o) \/ Abandon(o)
  <2>1. UNCHANGED <<lease, storage, stale, stamps>>
    BY <1>6, Zenon DEF Tick, StaleWrite, vars, StartRenewal, Write, Crash, Abandon, Others
  <2>2. \A p \in Owners : task'[p] = task[p] \/ task'[p] = Idle
    BY <1>6 DEF Tick, StaleWrite, vars, StartRenewal, Write, Crash, Abandon, TypeOK
  <2>3. ServingAbove'
    BY <1>3, <2>1 DEF ServingAbove, Serving, Recorded, Above
  <2> QED
    BY <1>5, <2>1, <2>2, <2>3, Zenon
<1>7. CASE BeginDrain \/ \E o \in Owners : Renew(o)
  <2>1. UNCHANGED <<storage, stale, stamps, task>>
    BY <1>7 DEF BeginDrain, Renew, Others
  <2>2. /\ lease'.owner = lease.owner
        /\ lease'.state = lease.state \/ (lease.state = "Assigned" /\ lease'.state = "Draining")
    BY <1>1, <1>7, Zenon DEF BeginDrain, Renew, Renewed, QueueLease
  <2>3. ServingAbove'
    BY <1>3, <2>1, <2>2, Zenon DEF ServingAbove, Serving, Recorded, Above
  <2> QED
    BY <1>5, <2>1, <2>3
<1>8. ASSUME NEW o \in Owners, Compensate(o) \/ Release(o) PROVE RestartInv'
  <2>1. UNCHANGED <<storage, stale, stamps>> /\ \A p \in Owners : task'[p] = task[p] \/ task'[p] = Idle
    BY <1>8, Zenon DEF Compensate, Release, Others, TypeOK
  <2>2. lease' = lease \/ lease' = Unassigned(lease.epoch)
    BY <1>8, ReleaseShape, Zenon DEF Compensate, Release
  <2>3. ServingAbove'
    BY <1>3, <2>1, <2>2, OwnershipAssumption DEF ServingAbove, Serving, Recorded, Above, Unassigned
  <2> QED
    BY <1>5, <2>1, <2>3, Zenon
<1>9. CASE Restart
  <2>1. /\ stale' = stale \cup UNION {stamps[p] : p \in Owners} /\ storage' = storage
        /\ lease' = Unassigned(0)
        /\ \A p \in Owners : task'[p] = Idle /\ stamps'[p] = {}
    BY <1>9 DEF Restart
  <2>2. \A s \in stale' : s \in stale \/ \E p \in Owners : s \in stamps[p]
    BY <2>1, Zenon
  <2>3. StaleBelow'
    BY <1>3, <2>1, <2>2, Zenon DEF StaleBelow, RestartInv, StampsAbove
  <2>4. ServingAbove'
    BY <2>1, OwnershipAssumption DEF ServingAbove, Serving, Recorded, Unassigned
  <2>5. \A p \in Owners : TaskAbove(task'[p], storage', stale')
    <3>1. TaskAbove(Idle, storage', stale')
      BY OwnershipAssumption DEF TaskAbove, Recorded, Unassigned, Idle
    <3> QED
      BY <2>1, <3>1, Zenon
  <2>6. StampsAbove'
    BY <2>1 DEF StampsAbove
  <2> QED
    BY <2>1, <2>3, <2>4, <2>5, <2>6, Zenon DEF RestartInv
<1>10. ASSUME NEW o \in Owners, NEW t \in Task, task' = [task EXCEPT ![o] = t],
              UNCHANGED <<lease, stale, stamps>>, storage <= storage', TaskAbove(t, storage', stale)
       PROVE  RestartInv'
  <2>1. task'[o] = t /\ \A p \in Owners : p # o => task'[p] = task[p]
    BY <1>10, Zenon DEF TypeOK
  <2>2. ServingAbove'
    BY <1>3, <1>10, GrowingStorage, Zenon DEF ServingAbove, Serving, Recorded
  <2>3. TaskAbove(task'[o], storage', stale)
    BY <1>10, <2>1 DEF TaskAbove
  <2> QED
    BY <1>10, <2>1, <2>2, <2>3, RestartTaskStep, Zenon
<1>11. ASSUME NEW o \in Owners, Sample(o) PROVE RestartInv'
  <2> DEFINE t == [Idle EXCEPT !.step = "sampled", !.at = now]
  <2>0. now \in Nat
    BY DEF TypeOK
  <2>1. t \in Task /\ t.step = "sampled" /\ t.same = FALSE /\ t.prior = Unassigned(0)
    BY <2>0, IdleType, Zenon DEF Task, Steps, Idle
  <2>2. UNCHANGED <<lease, stale, stamps, storage>> /\ task' = [task EXCEPT ![o] = t]
    BY <1>11, Zenon DEF Sample, Others
  <2> HIDE DEF t
  <2>3. TaskAbove(t, storage', stale)
    BY <2>1, OwnershipAssumption DEF TaskAbove, Recorded, Unassigned
  <2>4. storage <= storage'
    BY <1>1, <2>2
  <2> QED
    BY <1>10, <2>1, <2>2, <2>3, <2>4, Zenon
<1>12. ASSUME NEW o \in Owners, NEW s \in Steps \ {"fencing", "looping", "fenced"}, Goto(o, s),
              UNCHANGED <<lease, storage, stale, stamps>>
       PROVE  RestartInv'
  <2> DEFINE t == [task[o] EXCEPT !.step = s]
  <2>1. t \in Task /\ t.step = s /\ t.prior = task[o].prior /\ t.same = task[o].same
    BY <1>1, <1>12 DEF Task
  <2>2. task' = [task EXCEPT ![o] = t]
    BY <1>12, Zenon DEF Goto
  <2> HIDE DEF t
  <2>3. TaskAbove(t, storage', stale)
    BY <1>3, <1>12, <2>1 DEF TaskAbove, Recorded, Above
  <2>4. storage <= storage'
    BY <1>1, <1>12
  <2> QED
    BY <1>10, <1>12, <2>1, <2>2, <2>3, <2>4, Zenon
<1>13. ASSUME NEW o \in Owners, Resolve(o) PROVE RestartInv'
  <2>1. UNCHANGED <<lease, storage, stale, stamps>>
    BY <1>13, Zenon DEF Resolve, Others
  <2>2. CASE task' = [task EXCEPT ![o] = Idle]
    <3>1. \A p \in Owners : task'[p] = task[p] \/ task'[p] = Idle
      BY <2>2 DEF TypeOK
    <3>2. ServingAbove'
      BY <1>3, <2>1 DEF ServingAbove, Serving, Recorded, Above
    <3> QED
      BY <1>5, <2>1, <3>1, <3>2, Zenon
  <2>3. CASE Goto(o, "resolved") \/ Goto(o, "ready")
    BY <1>12, <2>1, <2>3 DEF Steps
  <2> QED
    BY <1>13, <2>2, <2>3 DEF Resolve
<1>14. ASSUME NEW o \in Owners, StorageFails(o) PROVE RestartInv'
  <2>1. UNCHANGED <<lease, storage, stale, stamps>> /\ Goto(o, "failed")
    BY <1>14 DEF StorageFails, Others
  <2> QED
    BY <1>12, <2>1, Zenon DEF Steps
<1>15. ASSUME NEW o \in Owners, ReadPrior(o) PROVE RestartInv'
  <2> DEFINE t == [task[o] EXCEPT !.step = "ready", !.prior = lease]
  <2>1. t \in Task /\ t.step = "ready" /\ t.prior = lease /\ t.same = task[o].same
    BY <1>1, Zenon DEF Task, Steps
  <2>2. UNCHANGED <<lease, stale, stamps, storage>> /\ task' = [task EXCEPT ![o] = t]
    BY <1>15, Zenon DEF ReadPrior, Others
  <2> HIDE DEF t
  <2>3. TaskAbove(t, storage', stale)
    BY <1>3, <2>1, <2>2 DEF TaskAbove, ServingAbove, Serving, Recorded, Above
  <2>4. storage <= storage'
    BY <1>1, <2>2
  <2> QED
    BY <1>10, <2>1, <2>2, <2>3, <2>4, Zenon
<1>16. ASSUME NEW o \in Owners, Acquire(o) PROVE RestartInv'
  <2> DEFINE t == task[o]
             new == Acquired(lease, o, t.at)
             after == [t EXCEPT !.step = "acquired", !.epoch = new.epoch,
                                !.pending = new.state = "PendingFence",
                                !.same = SameSession(t.prior, o, new.epoch),
                                !.prior = Unassigned(0)]
  <2>1. UNCHANGED <<storage, stale, stamps>>
    BY <1>0, <1>16 DEF Acquire, Others
  <2>2. CASE task' = [task EXCEPT ![o] = Idle] /\ UNCHANGED lease
    <3>1. \A p \in Owners : task'[p] = task[p] \/ task'[p] = Idle
      BY <2>2 DEF TypeOK
    <3>2. ServingAbove'
      BY <1>3, <2>1, <2>2, Zenon DEF ServingAbove, Serving
    <3> QED
      BY <1>5, <2>1, <3>1, <3>2, Zenon
  <2>3. CASE lease' = new /\ task' = [task EXCEPT ![o] = after]
    <3>1. new.owner = o /\ (new.state = "PendingFence" \/ (new.state = "Assigned" /\ Reaffirms(lease, o)))
      BY <1>0 DEF Acquired
    <3>2. Reaffirms(lease, o) => Serving
      BY <1>1, <1>3 DEF Reaffirms, Serving, ServingAbove, Recorded, QueueLease, LeaseState
    <3> HIDE DEF new
    <3>3. ServingAbove'
      BY <1>3, <2>1, <2>3, <3>1, <3>2 DEF ServingAbove, Serving, Recorded
    <3>4. /\ after.step = "acquired" /\ after.prior = Unassigned(0)
          /\ after.same => SameSession(t.prior, o, new.epoch)
      BY <1>1, Zenon DEF Task
    <3>5. t.prior.state \in LeaseState /\ TaskAbove(t, storage, stale)
      BY <1>1, <1>3, Zenon DEF Task, QueueLease
    <3>6. SameSession(t.prior, o, new.epoch) => Above(storage, stale)
      BY <3>5, Zenon DEF SameSession, TaskAbove, Recorded, LeaseState
    <3> HIDE DEF after
    <3>7. TaskAbove(after, storage, stale)
      <4>1. after.prior.owner \notin Owners /\ after.prior.state = "Unassigned"
        BY <3>4, OwnershipAssumption DEF Unassigned
      <4> QED
        BY <3>4, <3>6, <4>1, Zenon DEF TaskAbove, Recorded
    <3>8. task'[o] = after /\ \A p \in Owners : p # o => task'[p] = task[p]
      BY <2>3 DEF TypeOK
    <3>9. storage <= storage' /\ TaskAbove(task'[o], storage', stale)
      BY <1>1, <2>1, <3>7, <3>8
    <3> QED
      BY <2>1, <3>3, <3>8, <3>9, RestartTaskStep, Zenon
  <2> QED
    BY <1>16, <2>2, <2>3 DEF Acquire
<1>17. ASSUME NEW o \in Owners, NEW s \in Steps, NEW f \in 0..MaxEpoch,
              task' = [task EXCEPT ![o].step = s, ![o].fence = f],
              UNCHANGED <<lease, stale, stamps>>, storage <= storage',
              s \in {"fencing", "looping"} => Above(task[o].epoch, stale),
              s = "fenced" => Above(f, stale) /\ f <= storage'
       PROVE  RestartInv'
  <2> DEFINE t == [task[o] EXCEPT !.step = s, !.fence = f]
  <2>1. t \in Task /\ t.step = s /\ t.fence = f /\ t.epoch = task[o].epoch
        /\ t.prior = task[o].prior /\ t.same = task[o].same
    BY <1>1, <1>17, Zenon DEF Task
  <2>2. task' = [task EXCEPT ![o] = t]
    BY <1>17, Zenon
  <2> HIDE DEF t
  <2>3. TaskAbove(task[o], storage', stale)
    BY <1>1, <1>3, <1>17, GrowingStorage
  <2>4. TaskAbove(t, storage', stale)
    BY <1>17, <2>1, <2>3 DEF TaskAbove
  <2> QED
    BY <1>10, <1>17, <2>1, <2>2, <2>4, Zenon
<1>18. ASSUME NEW o \in Owners, ReadEpoch(o) PROVE RestartInv'
  <2> DEFINE s == Established(task[o], storage)
  <2>1. s \in Steps
    BY <1>1, EstablishedType
  <2>2. s \in {"fencing", "looping"} => storage < task[o].epoch
    BY <1>0, <1>1, <1>2 DEF Established
  <2>3. s = "fenced" => task[o].same
    BY <1>0, <1>1, <1>2 DEF Established
  <2>4. UNCHANGED <<lease, storage, stale, stamps>>
        /\ task' = [task EXCEPT ![o].step = s, ![o].fence = storage]
    BY <1>18 DEF ReadEpoch, Others
  <2> HIDE DEF s
  <2>5. s \in {"fencing", "looping"} => Above(task[o].epoch, stale)
    <3> SUFFICES ASSUME storage < task[o].epoch, NEW x \in stale PROVE x < task[o].epoch
      BY <2>2, Zenon DEF Above
    <3>1. x \in Nat /\ x <= storage /\ task[o].epoch \in Nat
      BY <1>1, <1>2, <1>3
    <3> QED
      BY <1>1, <3>1
  <2>6. s = "fenced" => Above(storage, stale)
    BY <1>3, <2>3 DEF TaskAbove
  <2>7. storage \in 0..MaxEpoch /\ storage <= storage'
    BY <1>1, <2>4 DEF TypeOK
  <2> QED
    BY <1>17, <2>1, <2>4, <2>5, <2>6, <2>7, Zenon
<1>19. ASSUME NEW o \in Owners, FenceEpoch(o) PROVE RestartInv'
  <2> DEFINE s == Compared(storage, task[o].epoch)
  <2>1. s \in Steps /\ (s = "fenced" => storage = task[o].epoch)
    BY <1>1, <1>2, ComparedType DEF Compared
  <2>2. Above(task[o].epoch, stale)
    BY <1>3, <1>19 DEF TaskAbove, FenceEpoch
  <2>3. UNCHANGED <<lease, storage, stale, stamps>>
        /\ task' = [task EXCEPT ![o].step = s, ![o].fence = storage]
    BY <1>19 DEF FenceEpoch, Others
  <2> HIDE DEF s
  <2>4. storage \in 0..MaxEpoch /\ storage <= storage' /\ (s = "fenced" => Above(storage, stale))
    BY <1>1, <2>1, <2>2, <2>3 DEF TypeOK
  <2> QED
    BY <1>17, <2>1, <2>2, <2>3, <2>4, Zenon
<1>20. ASSUME NEW o \in Owners, FenceAdvance(o) PROVE RestartInv'
  <2> DEFINE s == IF ~Exact /\ storage + 1 > task[o].epoch THEN "fenced"
                  ELSE Compared(storage + 1, task[o].epoch)
  <2>1. s \in Steps /\ storage + 1 \in 0..MaxEpoch
    BY <1>1, <1>2, <1>20, ComparedType DEF Steps, FenceAdvance, TypeOK
  <2>2. Above(task[o].epoch, stale)
    BY <1>3, <1>20 DEF TaskAbove, FenceAdvance
  <2>3. UNCHANGED <<lease, stale, stamps>> /\ storage' = storage + 1
        /\ task' = [task EXCEPT ![o].step = s, ![o].fence = storage + 1]
    BY <1>20 DEF FenceAdvance, Others
  <2> HIDE DEF s
  <2>4. storage <= storage' /\ storage + 1 <= storage'
    BY <1>1, <2>3
  <2> QED
    BY <1>4, <1>17, <2>1, <2>2, <2>3, <2>4, Zenon
<1>21. ASSUME NEW o \in Owners, Advance(o) PROVE RestartInv'
  <2>1. UNCHANGED <<lease, stale, stamps>> /\ storage' = storage + 1
        /\ task' = [task EXCEPT ![o].step = "fenced", ![o].fence = storage + 1]
    BY <1>21 DEF Advance, Others
  <2>2. "fenced" \in Steps /\ storage + 1 \in 0..MaxEpoch /\ storage + 1 <= storage' /\ storage <= storage'
    BY <1>1, <1>21, <2>1 DEF Steps, Advance, TypeOK
  <2> QED
    BY <1>4, <1>17, <2>1, <2>2, Zenon
<1>22. ASSUME NEW o \in Owners, Confirm(o) PROVE RestartInv'
  <2> DEFINE t == task[o]
  <2>0. t.step = "fenced" /\ UNCHANGED <<storage, stale>>
    BY <1>22 DEF Confirm
  <2>1. CASE Goto(o, "failed") /\ UNCHANGED <<lease, stamps>>
    BY <1>12, <2>0, <2>1 DEF Steps
  <2>2. CASE /\ t.pending => CanConfirm(lease, o, t.epoch, t.at)
             /\ lease' = IF t.pending THEN [lease EXCEPT !.state = "Assigned"] ELSE lease
             /\ stamps' = [stamps EXCEPT ![o] = @ \cup {t.fence}]
             /\ task' = [task EXCEPT ![o] = Idle]
    <3>1. Above(t.fence, stale) /\ t.fence <= storage /\ t.fence \in Nat
      BY <1>2, <1>3, <2>0 DEF TaskAbove
    <3>2. Above(storage, stale)
      BY <1>1, <3>1 DEF Above
    <3>3. ServingAbove'
      BY <1>1, <1>3, <2>0, <2>2, <3>2 DEF ServingAbove, Serving, Recorded, QueueLease
    <3>4. StampsAbove'
      BY <2>0, <2>2, <3>1, Zenon DEF RestartInv, StampsAbove, TypeOK
    <3>5. TaskAbove(Idle, storage, stale)
      BY OwnershipAssumption DEF TaskAbove, Recorded, Idle, Unassigned
    <3>6. \A p \in Owners : TaskAbove(task'[p], storage, stale)
      BY <1>3, <2>2, <3>5 DEF TypeOK
    <3> QED
      BY <2>0, <3>3, <3>4, <3>6, Zenon DEF RestartInv, StaleBelow
  <2> QED
    BY <1>22, <2>1, <2>2 DEF Confirm
<1>23. ASSUME NEW o \in Owners PROVE ~ConfirmLost(o)
  BY <1>0 DEF ConfirmLost
<1> QED
  BY <1>6, <1>7, <1>8, <1>9, <1>11, <1>13, <1>14, <1>15, <1>16, <1>18, <1>19, <1>20, <1>21, <1>22, <1>23
     DEF Next

\* After a restart of an ephemeral plane no session shares its fence epoch with
\* one from before, with any number of nodes in the process.
THEOREM RestartIsFenced == ASSUME Plane = "ephemeral" PROVE Spec => []RestartFenced
<1>1. Init => RestartInv
  BY RestartInit
<1>2. TypeOK /\ TypeOK' /\ RestartInv /\ [Next]_vars => RestartInv'
  BY RestartStep
<1>3. TypeOK /\ RestartInv => RestartFenced
  <2> SUFFICES ASSUME TypeOK, RestartInv, NEW o \in Owners, NEW e \in stamps[o], e \in stale
               PROVE  FALSE
    BY DEF RestartFenced
  <2>1. e \in Nat /\ e < e
    BY DEF TypeOK, RestartInv, StampsAbove, Above
  <2> QED
    BY <2>1
<1> QED
  BY <1>1, <1>2, <1>3, TypeCorrect, PTL DEF Spec

=============================================================================
