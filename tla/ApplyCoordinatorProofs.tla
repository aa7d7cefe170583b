----------------------- MODULE ApplyCoordinatorProofs -----------------------
(***************************************************************************)
(* Proofs about ApplyCoordinator for any number of commits, queues, workers  *)
(* and waits, and any number of faults, restarts and operator actions.       *)
(***************************************************************************)
EXTENDS ApplyCoordinator, TLAPS

Steps == Active \cup {"off", "halted", "recheck"}
OperatorSteps ==
    {"idle", "drop", "dropped", "deleted", "replayed", "seeded", "reset", "kick", "failed"}

\* The types the proofs need.
Types ==
    /\ epoch \in [Queues -> Nat]
    /\ tail \in [Queues -> Position]
    /\ cursor \in [Queues -> Position]
    /\ commit \in [Commits -> {"idle", "reserved", "appended", "kick", "ended"}]
    /\ pos \in [Commits -> Position]
    /\ entry \in [Commits -> {"none", "Reserved", "Ready"}]
    /\ mark \in [Queues -> Position]
    /\ poisoned \subseteq Queues
    /\ running \in BOOLEAN
    /\ step \in [Workers -> Steps]
    /\ gen \in [Workers -> SUBSET Commits]
    /\ ok \in [Workers -> BOOLEAN]
    /\ operator \in OperatorSteps
    /\ left \subseteq Queues

-----------------------------------------------------------------------------
\* A kick starts one task that was off, or changes nothing.
LEMMA KickStarts ==
    ASSUME Types, KickWorker
    PROVE  /\ UNCHANGED task
           /\ \/ UNCHANGED <<running, step>>
              \/ /\ ~running /\ running' = TRUE
                 /\ \E w \in Workers : step[w] = "off" /\ step' = [step EXCEPT ![w] = "top"]
<1>1. CASE UNCHANGED <<running, worker>>
  BY <1>1 DEF worker
<1>2. CASE ~UNCHANGED <<running, worker>>
  <2>1. PICK w \in Workers : step[w] = "off" BY <1>2 DEF KickWorker
  <2> DEFINE v == CHOOSE x \in Workers : step[x] = "off"
  <2>2. v \in Workers /\ step[v] = "off" BY <2>1
  <2>3. step' = [step EXCEPT ![v] = "top"] /\ ~running /\ running' = TRUE /\ UNCHANGED task
    BY <1>2 DEF KickWorker
  <2> HIDE DEF v
  <2> QED BY <2>2, <2>3, Zenon
<1> QED BY <1>1, <1>2, Zenon

\* A kick keeps the types.
LEMMA KickTypes ==
    ASSUME Types, KickWorker
    PROVE  /\ step' \in [Workers -> Steps] /\ running' \in BOOLEAN
           /\ gen' \in [Workers -> SUBSET Commits] /\ ok' \in [Workers -> BOOLEAN]
BY KickStarts, Zenon DEF Types, Steps, Active, task

\* The log gives positions.
LEMMA PositionedTypes ==
    ASSUME Types, NEW c \in Commits, Positioned(c)
    PROVE  tail' \in [Queues -> Position] /\ pos' \in [Commits -> Position]
<1> DEFINE s == QueueOf[c]
           p == [seq |-> tail[s].seq + 1, epoch |-> epoch[s]]
<1>1. s \in Queues BY ApplyAssumption
<1>2. tail[s] \in Position /\ epoch[s] \in Nat BY <1>1, Zenon DEF Types
<1>3. p \in Position BY <1>2 DEF Position
<1>4. tail' = [tail EXCEPT ![s] = p] /\ pos' = [pos EXCEPT ![c] = p] BY Zenon DEF Positioned
<1> HIDE DEF s, p
<1> QED BY <1>1, <1>3, <1>4 DEF Types

\* The projection moves its cursor to a position.
LEMMA AppliedTypes ==
    ASSUME Types, NEW last \in Commits, Apply(last)
    PROVE  cursor' \in [Queues -> Position]
<1> DEFINE s == QueueOf[last]
           p == IF pos[last].seq > cursor[s].seq THEN pos[last] ELSE cursor[s]
<1>1. s \in Queues BY ApplyAssumption
<1>2. p \in Position BY <1>1 DEF Types
<1>3. cursor' = [cursor EXCEPT ![s] = p] BY Zenon DEF Apply
<1> HIDE DEF s, p
<1> QED BY <1>1, <1>2, <1>3, Zenon DEF Types

\* What Next can do keeps the types.
LEMMA TypesStep ==
    ASSUME Types, [Next]_vars
    PROVE  Types'
<1> USE ApplyAssumption
<1>1. ASSUME NEW c \in Commits, Reserve(c) PROVE Types'
  BY <1>1, Zenon DEF Types, Reserve, log, worker, task, op
<1>2. ASSUME NEW c \in Commits, Append(c) PROVE Types'
  <2>1. Positioned(c) BY <1>2, Zenon DEF Append
  <2> QED BY <1>2, <2>1, PositionedTypes, Zenon DEF Types, Append, state, worker, task, op
<1>3. ASSUME NEW c \in Commits, AppendRejected(c) PROVE Types'
  BY <1>3 DEF Types, AppendRejected, log, worker, task, op
<1>4. ASSUME NEW c \in Commits, AppendAmbiguous(c) PROVE Types'
  <2>1. tail' \in [Queues -> Position] /\ pos' \in [Commits -> Position]
    BY <1>4, PositionedTypes DEF Types, AppendAmbiguous
  <2> QED BY <1>4, <2>1, Zenon DEF Types, AppendAmbiguous, worker, task, op
<1>5. ASSUME NEW c \in Commits, Enqueue(c) PROVE Types'
  BY <1>5 DEF Types, Enqueue, log, worker, task, op
<1>6. ASSUME NEW c \in Commits, KickAfter(c) PROVE Types'
  <2>1. KickWorker BY <1>6, Zenon DEF KickAfter
  <2> QED BY <1>6, <2>1, KickTypes, Zenon DEF Types, KickAfter, log, state, op
<1>7. ASSUME NEW s \in Queues, NewEpoch(s) PROVE Types'
  BY <1>7 DEF Types, NewEpoch, commits, state, worker, task, op
<1>8. ASSUME NEW w \in Workers, Top(w) \/ Stop(w) \/ ResumeOrReturn(w) \/ WindowEnds(w) PROVE Types'
  <2>1. step' \in [Workers -> Steps] /\ running' \in BOOLEAN
    BY <1>8, Zenon DEF Types, Top, Stop, ResumeOrReturn, WindowEnds, Goto, Return, Steps, Active
  <2>2. UNCHANGED <<log, cursor, commits, state, gen, ok, op>>
    BY <1>8 DEF Top, Stop, ResumeOrReturn, WindowEnds, Return, task
  <2> QED BY <2>1, <2>2, Zenon DEF Types, log, commits, state, op
<1>9. ASSUME NEW w \in Workers, Select(w) PROVE Types'
  <2>1. PICK plan \in [Heads -> UNION {Generations(h) : h \in Heads}] : Select(w)!2!(plan)
    BY <1>9, Zenon DEF Select
  <2>2. \A h \in Heads : plan[h] \subseteq Commits
    BY <2>1 DEF Generations, Ready, Entries
  <2>3. step' \in [Workers -> Steps] /\ gen' \in [Workers -> SUBSET Commits]
    BY <2>1, <2>2, Zenon DEF Types, Goto, Steps, Active
  <2> QED BY <1>9, <2>3, Zenon DEF Types, Select, log, commits, state, op
<1>10. ASSUME NEW w \in Workers, ApplyLive(w) PROVE Types'
  <2>1. PICK last \in Commits : ApplyLive(w)!2!(last) BY <1>10, Zenon DEF ApplyLive
  <2>2. step' \in [Workers -> Steps]
    BY <1>10, Zenon DEF Types, ApplyLive, Goto, Steps, Active
  <2>3. cursor' \in [Queues -> Position]
    BY <2>1, AppliedTypes DEF Types
  <2>4. ok' \in [Workers -> BOOLEAN]
    BY <2>1, Zenon DEF Types
  <2> QED BY <1>10, <2>2, <2>3, <2>4 DEF Types, ApplyLive, log, commits, state, op
<1>11. ASSUME NEW w \in Workers, Settle(w) PROVE Types'
  <2>1. PICK last \in Commits : Settle(w)!2!(last) BY <1>11, Zenon DEF Settle
  <2>2. step' \in [Workers -> Steps] /\ gen' \in [Workers -> SUBSET Commits] /\ ok' \in [Workers -> BOOLEAN]
    BY <1>11, Zenon DEF Types, Settle, Goto, Steps, Active
  <2>3. entry' \in [Commits -> {"none", "Reserved", "Ready"}]
    BY <2>1 DEF Types, SettleApplied, SettleChanged, SettleFailed, Remove
  <2>4. mark' \in [Queues -> Position]
    BY <2>1 DEF Types, SettleApplied, SettleChanged, SettleFailed
  <2>5. poisoned' \subseteq Queues
    BY <2>1 DEF Types, SettleApplied, SettleChanged, SettleFailed
  <2> QED BY <1>11, <2>2, <2>3, <2>4, <2>5, Zenon DEF Types, Settle, log, commits, op
<1>12. ASSUME NEW q \in Waiters, Wait(q) \/ BeginWait(q) \/ GiveUp(q) PROVE Types'
  BY <1>12, Zenon DEF Types, Wait, Look, Await, BeginWait, GiveUp, log, commits, state, worker, task, op
<1>13. CASE Pause \/ Resume \/ RebuildFails
  BY <1>13 DEF Types, Pause, Resume, RebuildFails, OperatorSteps, log, commits, state, worker, task
<1>14. CASE Delete
  BY <1>14, Zenon DEF Types, Delete, OperatorSteps, Position, None, log, commits, state, worker, task
<1>15. ASSUME NEW s \in Queues, DropQueued(s) \/ Replay(s) \/ Seed(s) \/ ResetRecovered(s) PROVE Types'
  <2>1. operator' \in OperatorSteps /\ left' \subseteq Queues
    BY <1>15 DEF Types, DropQueued, Replay, Seed, ResetRecovered, Visit, OperatorSteps
  <2>2. None \in Position BY Zenon DEF None, Position
  <2>3. mark' \in [Queues -> Position]
    BY <1>15, <2>2 DEF Types, DropQueued, Replay, Seed, ResetRecovered, ResetQueue, state
  <2>4. cursor' \in [Queues -> Position]
    BY <1>15 DEF Types, DropQueued, Replay, Seed, ResetRecovered
  <2>5. entry' \in [Commits -> {"none", "Reserved", "Ready"}] /\ poisoned' \subseteq Queues
    BY <1>15, SMTT(30) DEF Types, DropQueued, Replay, Seed, ResetRecovered, ResetQueue, state
  <2> QED BY <1>15, <2>1, <2>3, <2>4, <2>5, Zenon
          DEF Types, DropQueued, Replay, Seed, ResetRecovered, log, commits, worker, task
<1>16. CASE KickAfterResume
  <2>1. KickWorker BY <1>16, Zenon DEF KickAfterResume
  <2> QED BY <1>16, <2>1, KickTypes DEF Types, KickAfterResume, OperatorSteps, log, commits, state
<1>17. CASE Reopen
  BY <1>17, Zenon DEF Types, Reopen, Steps, OperatorSteps, log
<1>18. CASE UNCHANGED vars
  BY <1>18 DEF Types, vars, log, commits, state, worker, task, op
<1> QED
  BY <1>1, <1>2, <1>3, <1>4, <1>5, <1>6, <1>7, <1>8, <1>9, <1>10, <1>11, <1>12, <1>13, <1>14, <1>15, <1>16, <1>17, <1>18, Zenon
  DEF Next, Progress, Publish, Work, Operate

\* Every queue is new or recovered at the start.
LEMMA InitTypes == Init => Types
<1> SUFFICES ASSUME Init PROVE Types OBVIOUS
<1>1. None \in Position /\ [seq |-> 1, epoch |-> 1] \in Position BY Zenon DEF None, Position
<1>2. tail \in [Queues -> Position] /\ cursor = tail /\ mark = tail BY <1>1, Zenon DEF Init
<1>3. pos \in [Commits -> Position] BY <1>1, Zenon DEF Init
<1> QED BY <1>2, <1>3, Zenon DEF Init, Types, Steps, OperatorSteps

-----------------------------------------------------------------------------
(***************************************************************************)
(* One worker.                                                             *)
(***************************************************************************)
\* An active task that stays active.
LEMMA StaysActive ==
    ASSUME Types, OneApply, UNCHANGED running,
           NEW w \in Workers, step[w] \in Active,
           NEW next \in Active, step' = [step EXCEPT ![w] = next]
    PROVE  OneApply'
<1>1. \A v \in Workers : step'[v] \in Active <=> step[v] \in Active BY DEF Types
<1> QED BY <1>1, Zenon DEF OneApply

\* A task that starts while no other is active.
LEMMA Starts ==
    ASSUME Types, OneApply, ~running, running' = TRUE,
           NEW w \in Workers, step' = [step EXCEPT ![w] = "top"]
    PROVE  OneApply'
<1>1. \A v \in Workers : step'[v] \in Active <=> v = w BY DEF Types, OneApply, Active
<1>2. \A v, x \in Workers : step'[v] \in Active /\ step'[x] \in Active => v = x BY <1>1
<1>3. running' <=> \E v \in Workers : step'[v] \in Active BY <1>1, Zenon
<1> QED BY <1>2, <1>3, Zenon DEF OneApply

\* The task that was active stops.
LEMMA Stops ==
    ASSUME Types, OneApply, running' = FALSE,
           NEW w \in Workers, step[w] \in Active,
           NEW next, next \notin Active, step' = [step EXCEPT ![w] = next]
    PROVE  OneApply'
<1>1. \A v \in Workers : step'[v] \notin Active BY DEF Types, OneApply
<1> QED BY <1>1, Zenon DEF OneApply

\* A kick starts no second task.
LEMMA KickOnce ==
    ASSUME Types, OneApply, KickWorker
    PROVE  OneApply'
<1>1. CASE UNCHANGED <<running, step>> BY <1>1 DEF OneApply
<1>2. CASE ~UNCHANGED <<running, step>>
  <2>1. PICK w \in Workers : step' = [step EXCEPT ![w] = "top"] BY <1>2, KickStarts, Zenon
  <2>2. ~running /\ running' = TRUE BY <1>2, KickStarts, Zenon
  <2> QED BY <2>1, <2>2, Starts, Zenon
<1> QED BY <1>1, <1>2, Zenon

\* No step gives worker_running a second owner, or leaves it set without one.
LEMMA OneApplyStep ==
    ASSUME Types, OneApply, [Next]_vars
    PROVE  OneApply'
<1>1. CASE UNCHANGED <<running, step>> BY <1>1 DEF OneApply
<1>2. ASSUME NEW w \in Workers, Top(w) \/ Select(w) \/ WindowEnds(w) \/ ApplyLive(w) \/ Settle(w)
      PROVE  OneApply'
  <2>1. step[w] \in Active /\ UNCHANGED running
    BY <1>2, Zenon DEF Top, Select, WindowEnds, ApplyLive, Settle, Active
  <2>2. \E next \in Active : step' = [step EXCEPT ![w] = next]
    <3>1. CASE Top(w)
      <4>1. CASE paused BY <3>1, <4>1, Zenon DEF Top, Goto, Active
      <4>2. CASE ~paused BY <3>1, <4>2 DEF Top, Goto, Active
      <4> QED BY <4>1, <4>2, Zenon
    <3>2. CASE Select(w)
      <4>1. \/ Goto(w, "apply")
            \/ \E held : Goto(w, IF held = {} THEN "idle" ELSE "window")
        BY <3>2, Zenon DEF Select
      <4> QED BY <4>1, Zenon DEF Goto, Active
    <3>3. CASE WindowEnds(w) BY <3>3, Zenon DEF WindowEnds, Goto, Active
    <3>4. CASE ApplyLive(w) BY <3>4, Zenon DEF ApplyLive, Goto, Active
    <3>5. CASE Settle(w) BY <3>5 DEF Settle, Goto, Active
    <3> QED BY <1>2, <3>1, <3>2, <3>3, <3>4, <3>5, Zenon
  <2> QED BY <2>1, <2>2, StaysActive, Zenon
<1>3. ASSUME NEW w \in Workers, Stop(w) PROVE OneApply'
  <2>1. step[w] \in Active /\ running' = FALSE BY <1>3, Zenon DEF Stop, Active
  <2> DEFINE next == IF step[w] = "halt" THEN "halted" ELSE "recheck"
  <2>2. next \notin Active BY Zenon DEF Active
  <2>3. step' = [step EXCEPT ![w] = next] BY <1>3 DEF Stop, Goto
  <2> HIDE DEF next
  <2> QED BY <2>1, <2>2, <2>3, Stops, Zenon
<1>4. ASSUME NEW w \in Workers, ResumeOrReturn(w) PROVE OneApply'
  <2>1. CASE ~running /\ running' = TRUE /\ Goto(w, "top")
    BY <2>1, Starts, Zenon DEF Goto
  <2>2. CASE Return(w) /\ UNCHANGED running
    <3>1. step[w] \notin Active BY <1>4, Zenon DEF ResumeOrReturn, Active
    <3>2. step' = [step EXCEPT ![w] = "off"] BY <2>2, Zenon DEF Return, Goto
    <3>3. \A v \in Workers : step'[v] \in Active <=> step[v] \in Active
      BY <3>1, <3>2, Zenon DEF Types, Active
    <3> QED BY <2>2, <3>3, Zenon DEF OneApply
  <2> QED BY <1>4, <2>1, <2>2, Zenon DEF ResumeOrReturn
<1>5. ASSUME NEW c \in Commits, KickAfter(c) PROVE OneApply'
  BY <1>5, KickOnce, Zenon DEF KickAfter
<1>6. CASE KickAfterResume
  BY <1>6, KickOnce DEF KickAfterResume
<1>7. CASE Reopen
  BY <1>7, Zenon DEF Reopen, OneApply, Active
<1>8. ASSUME NEW c \in Commits, Reserve(c) \/ Append(c) \/ AppendRejected(c) \/ AppendAmbiguous(c) \/ Enqueue(c)
      PROVE  OneApply'
  BY <1>8, <1>1, Zenon DEF Reserve, Append, AppendRejected, AppendAmbiguous, Enqueue, worker
<1>9. ASSUME NEW s \in Queues, NewEpoch(s) \/ DropQueued(s) \/ Replay(s) \/ Seed(s) \/ ResetRecovered(s)
      PROVE  OneApply'
  BY <1>9, <1>1, Zenon DEF NewEpoch, DropQueued, Replay, Seed, ResetRecovered, worker
<1>10. ASSUME NEW q \in Waiters, Wait(q) \/ BeginWait(q) \/ GiveUp(q) PROVE OneApply'
  BY <1>10, <1>1, Zenon DEF Wait, Look, Await, BeginWait, GiveUp, worker
<1>11. CASE Pause \/ Delete \/ Resume \/ RebuildFails \/ UNCHANGED vars
  BY <1>11, <1>1, Zenon DEF Pause, Delete, Resume, RebuildFails, vars, worker
<1> QED
  BY <1>2, <1>3, <1>4, <1>5, <1>6, <1>7, <1>8, <1>9, <1>10, <1>11, Zenon DEF Next, Progress, Publish, Work, Operate

\* At most one task applies, however many tasks, commits, pauses and restarts there are:
\* kick's exchange of worker_running and the worker's second look.
THEOREM SingleWorker == Spec => []OneApply
<1>1. Init => Types /\ OneApply
  BY InitTypes DEF Init, OneApply, Active
<1>2. Types /\ OneApply /\ [Next]_vars => Types' /\ OneApply'
  BY TypesStep, OneApplyStep
<1> QED BY <1>1, <1>2, PTL DEF Spec

-----------------------------------------------------------------------------
(***************************************************************************)
(* The invariant behind the high water.                                     *)
(***************************************************************************)
\* A batch is Ready only after its append, and no position is beyond the log.
Published ==
    \A c \in Commits :
        /\ entry[c] = "Ready" => commit[c] \in {"kick", "ended"}
        /\ commit[c] \in {"idle", "reserved"} => pos[c] = None
        /\ pos[c].seq <= tail[QueueOf[c]].seq

\* A worker has batches of one queue, which it has applied when ok says so.
Selected ==
    \A w \in Workers :
        /\ ok[w] => step[w] = "settle"
        /\ step[w] \in {"apply", "settle"} =>
              \A c, d \in gen[w] :
                  /\ commit[c] \in {"kick", "ended"}
                  /\ QueueOf[c] = QueueOf[d]
                  /\ ok[w] => pos[c].seq <= cursor[QueueOf[c]].seq

Busy == operator \notin {"idle", "failed"}

\* While the operator's call is under way nothing is committed, nothing is applied
\* and nothing could be.
Quiet ==
    /\ Busy => \A c \in Commits : commit[c] \in {"idle", "ended"}
    /\ Busy => \A w \in Workers : step[w] \notin {"apply", "settle"}
    /\ operator = "drop" => Runnable = {} /\ \A c \in Commits : QueueOf[c] \notin left => entry[c] = "none"
    /\ Busy /\ operator # "drop" => \A c \in Commits : entry[c] = "none"

\* How far a rebuild is.
Recovering ==
    /\ operator = "drop" => \A s \in Queues \ left : mark[s] = None
    /\ operator = "dropped" => \A s \in Queues : mark[s] = None /\ (s \notin left => cursor[s] = tail[s])
    /\ operator \in {"replayed", "seeded", "reset", "kick"} => \A s \in Queues : cursor[s] = tail[s]

Inv == Published /\ Selected /\ Quiet /\ Recovering /\ HighWaterApplied /\ NothingForgotten

\* Every commit has a queue.
LEMMA QueueOfCommit == \A c \in Commits : QueueOf[c] \in Queues
BY ApplyAssumption, Zenon

\* Runnable looks at the entries, the high water, the poison and the positions.
LEMMA RunnableSame ==
    ASSUME UNCHANGED <<entry, pos, mark, poisoned>>
    PROVE  Runnable' = Runnable
BY Zenon DEF Runnable, ReadyFollowsHighWater, Ready, Entries

\* A reset of one queue makes nothing runnable.
LEMMA RunnableReset ==
    ASSUME Types, UNCHANGED pos, NEW s \in Queues, NEW p \in Position, ResetQueue(s, p), Runnable = {}
    PROVE  Runnable' = {}
<1> SUFFICES ASSUME NEW c \in Runnable' PROVE FALSE BY Zenon
<1>1. c \in Commits /\ entry'[c] = "Ready" BY Zenon DEF Runnable
<1>2. QueueOf[c] # s /\ QueueOf[c] \in Queues /\ entry[c] = "Ready"
  BY <1>1, ApplyAssumption, Zenon DEF ResetQueue
<1>3. mark'[QueueOf[c]] = mark[QueueOf[c]] BY <1>2 DEF Types, ResetQueue
<1>4. Ready(QueueOf[c])' = Ready(QueueOf[c]) BY <1>2, Zenon DEF Ready, Entries, ResetQueue
<1>5. ReadyFollowsHighWater(c)
  <2>1. ReadyFollowsHighWater(c)' BY Zenon DEF Runnable
  <2> QED BY <2>1, <1>3, <1>4, Zenon DEF ReadyFollowsHighWater
<1>6. QueueOf[c] \notin poisoned BY <1>2 DEF Runnable, ResetQueue
<1> QED BY <1>1, <1>2, <1>5, <1>6, Zenon DEF Runnable

\* A task that moves outside apply and settle.
LEMMA InvMoves ==
    ASSUME Types, Inv, UNCHANGED <<tail, cursor, commits, entry, mark, poisoned, gen, ok, op>>,
           \A w \in Workers : step[w] \in {"apply", "settle"} \/ step'[w] \in {"apply", "settle"} => step'[w] = step[w]
    PROVE  Inv'
<1> USE DEF commits, op
<1>1. Published' BY Zenon DEF Inv, Published
<1>2. Selected' BY DEF Inv, Selected, Types
<1>3. Quiet'
  <2>1. Runnable' = Runnable BY RunnableSame, Zenon
  <2> QED BY <2>1, Zenon DEF Inv, Quiet, Busy
<1>4. Recovering' BY Zenon DEF Inv, Recovering
<1>5. HighWaterApplied' BY Zenon DEF Inv, HighWaterApplied
<1>6. NothingForgotten' BY DEF Inv, NothingForgotten, At
<1> QED BY <1>1, <1>2, <1>3, <1>4, <1>5, <1>6, Zenon DEF Inv

-----------------------------------------------------------------------------
(***************************************************************************)
(* All steps keep the invariant Inv, and with it what the high water and the*)
(* queue of entries promise.                                               *)
(***************************************************************************)

\* What workers have applied stays so when nothing of it moves.
LEMMA SelectedSame ==
    ASSUME Inv, UNCHANGED <<gen, ok, commit, pos, cursor>>,
           \A w \in Workers : step[w] \in {"apply", "settle"} \/ step'[w] \in {"apply", "settle"} => step'[w] = step[w]
    PROVE  Selected'
<1> SUFFICES ASSUME NEW w \in Workers
             PROVE  /\ ok[w] => step'[w] = "settle"
                    /\ step'[w] \in {"apply", "settle"} =>
                          \A a, b \in gen[w] :
                              /\ commit[a] \in {"kick", "ended"}
                              /\ QueueOf[a] = QueueOf[b]
                              /\ ok[w] => pos[a].seq <= cursor[QueueOf[a]].seq
  BY DEF Selected
<1>1. Selected
  BY Zenon DEF Inv
<1>2. CASE step'[w] = step[w]
  BY <1>1, <1>2, Zenon DEF Selected
<1>3. CASE ~(step[w] \in {"apply", "settle"} \/ step'[w] \in {"apply", "settle"})
  BY <1>1, <1>3, Zenon DEF Selected
<1> QED
  BY <1>2, <1>3, Zenon

\* A commit that moves has no batch at a worker.
LEMMA SelectedKept ==
    ASSUME Types, Selected, NEW c \in Commits, UNCHANGED <<step, gen, ok, cursor>>,
           \A d \in Commits \ {c} : commit'[d] = commit[d] /\ pos'[d] = pos[d],
           commit[c] \in {"kick", "ended"} => commit'[c] \in {"kick", "ended"} /\ pos'[c] = pos[c]
    PROVE  Selected'
<1> SUFFICES ASSUME NEW w \in Workers
             PROVE  /\ ok[w] => step[w] = "settle"
                    /\ step[w] \in {"apply", "settle"} =>
                          \A a, b \in gen[w] :
                              /\ commit'[a] \in {"kick", "ended"}
                              /\ QueueOf[a] = QueueOf[b]
                              /\ ok[w] => pos'[a].seq <= cursor[QueueOf[a]].seq
  BY DEF Selected
<1>1. ok[w] => step[w] = "settle" BY DEF Selected
<1>2. ASSUME step[w] \in {"apply", "settle"}, NEW a \in gen[w], NEW b \in gen[w]
      PROVE  /\ commit'[a] \in {"kick", "ended"}
             /\ QueueOf[a] = QueueOf[b]
             /\ ok[w] => pos'[a].seq <= cursor[QueueOf[a]].seq
  <2>1. /\ commit[a] \in {"kick", "ended"} /\ QueueOf[a] = QueueOf[b]
        /\ ok[w] => pos[a].seq <= cursor[QueueOf[a]].seq
    BY <1>2, Zenon DEF Selected
  <2>2. a \in Commits BY <1>2, Zenon DEF Types
  <2>3. commit'[a] \in {"kick", "ended"} /\ pos'[a] = pos[a] BY <2>1, <2>2
  <2> QED BY <2>1, <2>3, Zenon
<1> QED BY <1>1, <1>2, Zenon

\* The steps of a commit.
LEMMA InvCommit ==
    ASSUME Types, Inv, Quiesced, NEW c \in Commits, Reserve(c) \/ Publish(c)
    PROVE  Inv'
<1> DEFINE s == QueueOf[c]
<1>0. s \in Queues BY QueueOfCommit
<1>1. CASE Reserve(c)
  <2>1. ~Busy BY <1>1, Zenon DEF Reserve, Open, Busy
  <2>2. UNCHANGED <<tail, cursor, pos, mark, poisoned, step, gen, ok, operator, left>>
    BY <1>1, Zenon DEF Reserve, log, worker, task, op
  <2>3. /\ commit[c] = "idle"
        /\ commit' = [commit EXCEPT ![c] = "reserved"] /\ entry' = [entry EXCEPT ![c] = "Reserved"]
    BY <1>1, Zenon DEF Reserve
  <2>4. Published' BY <2>2, <2>3, Zenon DEF Inv, Published, Types
  <2>5. Selected'
    <3>1. \A d \in Commits \ {c} : commit'[d] = commit[d] BY <2>3, Zenon DEF Types
    <3> QED BY <2>2, <2>3, <3>1, SelectedKept, Zenon DEF Inv
  <2>6. Quiet' BY <2>1, <2>2, Zenon DEF Quiet, Busy
  <2>7. Recovering' BY <2>2, Zenon DEF Inv, Recovering
  <2>8. HighWaterApplied' BY <2>2, Zenon DEF Inv, HighWaterApplied
  <2>9. NothingForgotten' BY <2>2, <2>3, Zenon DEF Inv, NothingForgotten, Types, At
  <2> QED BY <2>4, <2>5, <2>6, <2>7, <2>8, <2>9, Zenon DEF Inv
<1>2. CASE Append(c) \/ AppendAmbiguous(c) \/ AppendRejected(c)
  <2>1. commit[c] = "reserved" BY <1>2, Zenon DEF Append, AppendAmbiguous, AppendRejected
  <2>2. ~Busy BY <2>1, Zenon DEF Inv, Quiet
  <2>3. UNCHANGED <<cursor, mark, step, gen, ok, operator, left>>
    BY <1>2 DEF Append, AppendAmbiguous, AppendRejected, log, state, worker, task, op
  <2>4. \/ UNCHANGED <<tail, pos>>
        \/ /\ \A d \in Commits \ {c} : pos'[d] = pos[d]
           /\ \A q \in Queues \ {s} : tail'[q] = tail[q]
           /\ pos'[c].seq = tail[s].seq + 1 /\ tail'[s].seq = tail[s].seq + 1
    <3>1. ASSUME Positioned(c) PROVE <2>4!2 BY <1>0, <3>1, Zenon DEF Positioned, Types
    <3> QED BY <1>2, <3>1, Zenon DEF Append, AppendAmbiguous, AppendRejected, log
  <2>5. \A q \in Queues : tail[q].seq \in Nat /\ tail'[q].seq \in Nat /\ tail[q].seq <= tail'[q].seq
    <3>1. \A q \in Queues : tail[q].seq \in Nat BY Zenon DEF Types, Position
    <3>2. \A n \in Nat : n <= n /\ n + 1 \in Nat /\ n <= n + 1 OBVIOUS
    <3> QED BY <2>4, <3>1, <3>2, Zenon
  <2>6. /\ \A d \in Commits \ {c} : commit'[d] = commit[d] /\ entry'[d] = entry[d]
        /\ commit'[c] \in {"appended", "kick", "ended"}
        /\ entry'[c] # "none" => entry'[c] = entry[c]
    BY <1>2, Zenon DEF Append, AppendAmbiguous, AppendRejected, state, Types
  <2>7. \A d \in Commits : pos[d].seq \in Nat BY DEF Types, Position
  <2>8. entry[c] # "Ready" BY <2>1, Zenon DEF Inv, Published
  <2>9. Published'
    <3> SUFFICES ASSUME NEW d \in Commits
                 PROVE  /\ entry'[d] = "Ready" => commit'[d] \in {"kick", "ended"}
                        /\ commit'[d] \in {"idle", "reserved"} => pos'[d] = None
                        /\ pos'[d].seq <= tail'[QueueOf[d]].seq
      BY Zenon DEF Published
    <3>1. QueueOf[d] \in Queues BY QueueOfCommit
    <3>2. pos[d].seq <= tail[QueueOf[d]].seq BY Zenon DEF Inv, Published
    <3>3. pos'[d].seq <= tail'[QueueOf[d]].seq
      BY <2>4, <2>5, <2>7, <3>1, <3>2
    <3>4. CASE d = c BY <2>6, <2>8, <3>3, <3>4
    <3>5. CASE d # c BY <2>4, <2>6, <3>3, <3>5, Zenon DEF Inv, Published
    <3> QED BY <3>4, <3>5, Zenon
  <2>10. Selected'
    <3>1. \A d \in Commits \ {c} : pos'[d] = pos[d] BY <2>4, Zenon
    <3> QED BY <2>1, <2>3, <2>6, <3>1, SelectedKept, Zenon DEF Inv
  <2>11. Quiet' BY <2>2, <2>3, Zenon DEF Quiet, Busy
  <2>12. Recovering' BY <2>2, <2>3, Zenon DEF Recovering, Busy
  <2>13. HighWaterApplied'
    <3>1. \A q \in Queues : cursor[q].seq \in Nat BY DEF Types, Position
    <3> QED BY <2>3, <2>5, <3>1 DEF Inv, HighWaterApplied
  <2>14. NothingForgotten'
    <3>1. poisoned \subseteq poisoned' BY <1>2, Zenon DEF Append, AppendAmbiguous, AppendRejected, state
    <3>2. commit'[c] \in {"kick", "ended"} => s \in poisoned' \/ pos'[c] = None
      <4>1. pos[c] = None BY <2>1, Zenon DEF Inv, Published
      <4> QED BY <1>2, <2>1, <4>1 DEF Append, AppendAmbiguous, AppendRejected, Types, log
    <3> SUFFICES ASSUME NEW d \in Commits, pos'[d] # None, commit'[d] \in {"kick", "ended"}, At("idle")'
                 PROVE  \/ pos'[d].seq <= cursor'[QueueOf[d]].seq
                        \/ entry'[d] = "Ready"
                        \/ QueueOf[d] \in poisoned'
      BY DEF NothingForgotten
    <3>3. CASE d = c BY <3>2, <3>3, Zenon
    <3>4. CASE d # c BY <2>3, <2>4, <2>6, <3>1, <3>4, Zenon DEF Inv, NothingForgotten, At
    <3> QED BY <3>3, <3>4, Zenon
  <2> QED BY <2>9, <2>10, <2>11, <2>12, <2>13, <2>14, Zenon DEF Inv
<1>3. CASE Enqueue(c)
  <2>1. commit[c] = "appended" BY <1>3, Zenon DEF Enqueue
  <2>2. ~Busy BY <2>1 DEF Inv, Quiet
  <2>3. UNCHANGED <<tail, cursor, pos, mark, step, gen, ok, operator, left>>
    BY <1>3, Zenon DEF Enqueue, log, worker, task, op
  <2>4. /\ \A d \in Commits \ {c} : commit'[d] = commit[d] /\ entry'[d] = entry[d]
        /\ commit'[c] \in {"kick", "ended"}
        /\ entry'[c] = "Ready" \/ s \in poisoned'
        /\ poisoned \subseteq poisoned'
    BY <1>3 DEF Enqueue, Types
  <2>5. Published' BY <2>3, <2>4, Zenon DEF Inv, Published
  <2>6. Selected' BY <2>1, <2>3, <2>4, SelectedKept, Zenon DEF Inv
  <2>7. Quiet' BY <2>2, <2>3, Zenon DEF Quiet, Busy
  <2>8. Recovering' BY <2>3, Zenon DEF Inv, Recovering
  <2>9. HighWaterApplied' BY <2>3, Zenon DEF Inv, HighWaterApplied
  <2>10. NothingForgotten' BY <2>3, <2>4, Zenon DEF Inv, NothingForgotten, At
  <2> QED BY <2>5, <2>6, <2>7, <2>8, <2>9, <2>10 DEF Inv
<1>4. CASE KickAfter(c)
  <2>1. commit[c] = "kick" /\ commit' = [commit EXCEPT ![c] = "ended"] BY <1>4, Zenon DEF KickAfter
  <2>2. ~Busy BY <2>1, Zenon DEF Inv, Quiet
  <2>3. UNCHANGED <<tail, cursor, pos, entry, mark, poisoned, operator, left>>
    BY <1>4, Zenon DEF KickAfter, log, state, op
  <2>4. KickWorker BY <1>4, Zenon DEF KickAfter
  <2>5. UNCHANGED <<gen, ok>> BY <2>4, KickStarts, Zenon DEF task
  <2>6. \A w \in Workers : step[w] \in {"apply", "settle"} \/ step'[w] \in {"apply", "settle"} => step'[w] = step[w]
    BY <2>4, KickStarts, Zenon DEF Types
  <2>7. Published' BY <2>1, <2>3, Zenon DEF Inv, Published, Types
  <2>8. Selected'
    <3>1. \A w \in Workers : \A d \in gen[w] : d \in Commits BY DEF Types
    <3> QED BY <2>1, <2>3, <2>5, <2>6, <3>1, SMTT(30) DEF Inv, Selected, Types
  <2>9. Quiet' BY <2>2, <2>3, Zenon DEF Quiet, Busy
  <2>10. Recovering' BY <2>3, Zenon DEF Inv, Recovering
  <2>11. HighWaterApplied' BY <2>3, Zenon DEF Inv, HighWaterApplied
  <2>12. NothingForgotten' BY <2>1, <2>3, Zenon DEF Inv, NothingForgotten, Types, At
  <2> QED BY <2>7, <2>8, <2>9, <2>10, <2>11, <2>12 DEF Inv
<1> QED BY <1>1, <1>2, <1>3, <1>4, Zenon DEF Publish

\* The steps of a worker.
LEMMA InvWork ==
    ASSUME Types, Inv, NEW w \in Workers, Work(w)
    PROVE  Inv'
<1>1. CASE Top(w) \/ Stop(w) \/ ResumeOrReturn(w) \/ WindowEnds(w)
  <2>1. UNCHANGED <<tail, cursor, commits, entry, mark, poisoned, gen, ok, op>>
    BY <1>1, Zenon DEF Top, Stop, ResumeOrReturn, WindowEnds, Return, log, state, task
  <2>2. /\ step[w] \notin {"apply", "settle"} /\ step'[w] \notin {"apply", "settle"}
        /\ \A v \in Workers \ {w} : step'[v] = step[v]
    BY <1>1 DEF Top, Stop, ResumeOrReturn, WindowEnds, Return, Goto, Types
  <2> QED BY <2>1, <2>2, InvMoves, Zenon
<1>2. CASE Select(w)
  <2>1. PICK plan \in [Heads -> UNION {Generations(h) : h \in Heads}] : Select(w)!2!(plan)
    BY <1>2, Zenon DEF Select
  <2>2. UNCHANGED <<tail, cursor, commits, entry, mark, poisoned, ok, op>> /\ step[w] = "select"
    BY <1>2, Zenon DEF Select, log, state
  <2>3. CASE step'[w] # "apply"
    <3>1. UNCHANGED gen BY <2>1, <2>3, Zenon DEF Goto, Types
    <3>2. step'[w] # "settle" BY <2>1, Zenon DEF Goto, Types
    <3>3. \A v \in Workers \ {w} : step'[v] = step[v] BY <2>1 DEF Goto, Types
    <3> QED BY <2>2, <2>3, <3>1, <3>2, <3>3, InvMoves, Zenon
  <2>4. CASE step'[w] = "apply"
    <3>1. PICK h \in Heads : /\ step' = [step EXCEPT ![w] = "apply"]
                             /\ gen' = [gen EXCEPT ![w] = plan[h]]
                             /\ plan[h] \in Generations(h)
      BY <2>1, <2>4 DEF Goto, Types
    <3>2. \A c \in plan[h] : c \in Commits /\ entry[c] = "Ready" /\ QueueOf[c] = QueueOf[h]
      BY <3>1, Zenon DEF Generations, Ready, Entries
    <3>3. h \in Runnable BY Zenon DEF Heads
    <3>4. ~Busy
      BY <3>3, Zenon DEF Inv, Quiet, Busy, Runnable
    <3>5. Published' BY <2>2, Zenon DEF Inv, Published, commits
    <3>6. Selected'
      <4>1. ~ok[w] BY <2>2, Zenon DEF Inv, Selected
      <4>2. \A c \in plan[h] : commit[c] \in {"kick", "ended"} BY <3>2, Zenon DEF Inv, Published
      <4> QED BY <2>2, <3>1, <3>2, <4>1, <4>2, SMTT(30) DEF Inv, Selected, Types, commits
    <3>7. Quiet' BY <2>2, <3>4, Zenon DEF Quiet, Busy, op
    <3>8. Recovering' BY <2>2, Zenon DEF Inv, Recovering, op
    <3>9. HighWaterApplied' BY <2>2, Zenon DEF Inv, HighWaterApplied
    <3>10. NothingForgotten' BY <2>2, Zenon DEF Inv, NothingForgotten, At, commits, op
    <3> QED BY <3>5, <3>6, <3>7, <3>8, <3>9, <3>10, Zenon DEF Inv
  <2> QED BY <2>3, <2>4, Zenon
<1>3. CASE ApplyLive(w)
  <2>1. PICK last \in Commits : ApplyLive(w)!2!(last) BY <1>3, Zenon DEF ApplyLive
  <2>2. /\ UNCHANGED <<tail, commit, pos, entry, mark, poisoned, gen, operator, left>>
        /\ step[w] = "apply" /\ step' = [step EXCEPT ![w] = "settle"]
    BY <1>3, Zenon DEF ApplyLive, Goto, log, commits, state, op
  <2>3. ~Busy BY <2>2, Zenon DEF Inv, Quiet
  <2> DEFINE s == QueueOf[last]
  <2>4. s \in Queues /\ last \in gen[w] BY <2>1, QueueOfCommit, Zenon DEF Last
  <2>5. /\ \A q \in Queues : tail[q].seq \in Nat /\ cursor[q].seq \in Nat /\ mark[q].seq \in Nat
        /\ \A c \in Commits : pos[c].seq \in Nat
    BY Zenon DEF Types, Position
  <2>6. /\ \A q \in Queues \ {s} : cursor'[q] = cursor[q]
        /\ \/ cursor'[s] = cursor[s]
           \/ cursor'[s] = pos[last] /\ pos[last].seq > cursor[s].seq
    BY <2>1, <2>4, Zenon DEF Apply, Types
  <2>7. \A q \in Queues : cursor[q].seq <= cursor'[q].seq /\ cursor'[q].seq <= tail[q].seq
    <3>1. pos[last].seq <= tail[s].seq BY Zenon DEF Inv, Published
    <3>2. \A q \in Queues : cursor[q].seq <= tail[q].seq BY Zenon DEF Inv, HighWaterApplied
    <3> TAKE q \in Queues
    <3>3. CASE cursor'[q] = cursor[q] BY <2>5, <3>2, <3>3
    <3>4. CASE q = s /\ cursor'[q] = pos[last] /\ pos[last].seq > cursor[q].seq BY <2>5, <3>1, <3>4
    <3> QED BY <2>6, <3>3, <3>4, Zenon
  <2>8. \A q \in Queues : cursor'[q].seq \in Nat BY <2>5, <2>6, Zenon
  <2>9. Published' BY <2>2, Zenon DEF Inv, Published
  <2>10. Selected'
    <3>1. \A v \in Workers \ {w} : ok'[v] = ok[v] /\ step'[v] = step[v] BY <2>1, <2>2, Zenon DEF Types
    <3>2. step'[w] = "settle" BY <2>2, Zenon DEF Types
    <3>3. \A v \in Workers : \A c \in gen[v] : c \in Commits /\ QueueOf[c] \in Queues BY QueueOfCommit, Zenon DEF Types
    <3>4. ~ok[w] BY <2>2, Zenon DEF Inv, Selected
    <3>5. ok'[w] => \A c \in gen[w] : pos[c].seq <= cursor'[QueueOf[c]].seq
      <4> SUFFICES ASSUME ok'[w], NEW c \in gen[w] PROVE pos[c].seq <= cursor'[QueueOf[c]].seq BY Zenon
      <4>1. Apply(last) BY <2>1, <3>4, Zenon
      <4>2. pos[last].seq <= cursor'[s].seq
        <5> DEFINE p == pos[last].seq
                   q == cursor[s].seq
        <5>1. \/ p > q /\ cursor'[s] = pos[last]
              \/ ~(p > q) /\ cursor'[s] = cursor[s]
          BY <2>4, <4>1, Zenon DEF Apply, Types
        <5>2. p \in Nat /\ q \in Nat BY <2>4, <2>5, Zenon
        <5>3. \/ p > q /\ cursor'[s].seq = p
              \/ ~(p > q) /\ cursor'[s].seq = q
          BY <5>1, Zenon
        <5> HIDE DEF p, q
        <5>4. p <= cursor'[s].seq BY <5>2, <5>3
        <5> QED BY <5>4, Zenon DEF p
      <4>3. pos[c].seq <= pos[last].seq BY <2>1, Zenon DEF Last
      <4>4. QueueOf[c] = s BY <2>2, <2>4, Zenon DEF Inv, Selected
      <4> QED BY <2>4, <2>5, <2>8, <3>3, <4>2, <4>3, <4>4, SMTT(30)
    <3>6. \A v \in Workers \ {w} : ok[v] /\ step[v] = "settle" => \A c \in gen[v] : pos[c].seq <= cursor'[QueueOf[c]].seq
      <4> SUFFICES ASSUME NEW v \in Workers \ {w}, ok[v], step[v] = "settle", NEW c \in gen[v]
                   PROVE  pos[c].seq <= cursor'[QueueOf[c]].seq
        BY Zenon
      <4>1. pos[c].seq <= cursor[QueueOf[c]].seq BY Zenon DEF Inv, Selected
      <4> QED BY <2>5, <2>7, <2>8, <3>3, <4>1, SMTT(30)
    <3> QED BY <2>2, <3>1, <3>2, <3>3, <3>5, <3>6, SMTT(30) DEF Inv, Selected
  <2>11. Quiet' BY <2>2, <2>3, Zenon DEF Quiet, Busy
  <2>12. Recovering' BY <2>2, <2>3, Zenon DEF Recovering, Busy
  <2>13. HighWaterApplied' BY <2>2, <2>5, <2>7, <2>8, SMTT(30) DEF Inv, HighWaterApplied
  <2>14. NothingForgotten'
    <3>1. \A c \in Commits : pos[c].seq <= cursor[QueueOf[c]].seq => pos[c].seq <= cursor'[QueueOf[c]].seq
      BY QueueOfCommit, <2>5, <2>7, <2>8, SMTT(30)
    <3> QED BY <2>2, <3>1, Zenon DEF Inv, NothingForgotten, At
  <2> QED BY <2>9, <2>10, <2>11, <2>12, <2>13, <2>14, Zenon DEF Inv
<1>4. CASE Settle(w)
  <2>1. PICK last \in Commits : Settle(w)!2!(last) BY <1>4 DEF Settle
  <2>2. /\ UNCHANGED <<tail, cursor, commit, pos, operator, left>>
        /\ step[w] = "settle" /\ step' = [step EXCEPT ![w] = "top"]
        /\ gen' = [gen EXCEPT ![w] = {}] /\ ok' = [ok EXCEPT ![w] = FALSE]
    BY <1>4, Zenon DEF Settle, Goto, log, commits, op
  <2>3. ~Busy BY <2>2, Zenon DEF Inv, Quiet
  <2>4. last \in gen[w] /\ QueueOf[last] \in Queues BY <2>1, QueueOfCommit, Zenon DEF Last
  <2>5. \A c \in Commits : entry'[c] = entry[c] \/ (entry'[c] = "none" /\ c \in gen[w] /\ ok[w])
    BY <2>1, Zenon DEF SettleApplied, SettleChanged, SettleFailed, Remove
  <2>6. \A q \in Queues : mark'[q] = mark[q] \/ (q = QueueOf[last] /\ mark'[q] = pos[last] /\ ok[w])
    BY <2>1 DEF SettleApplied, SettleChanged, SettleFailed, Types
  <2>7. poisoned \subseteq poisoned'
    BY <2>1, Zenon DEF SettleApplied, SettleChanged, SettleFailed
  <2>8. ok[w] => \A c \in gen[w] : pos[c].seq <= cursor[QueueOf[c]].seq
    BY <2>2, Zenon DEF Inv, Selected
  <2>9. Published' BY <2>2, <2>5, Zenon DEF Inv, Published
  <2>10. Selected' BY <2>2, SMTT(30) DEF Inv, Selected, Types
  <2>11. Quiet' BY <2>2, <2>3, Zenon DEF Quiet, Busy
  <2>12. Recovering' BY <2>2, <2>3, Zenon DEF Recovering, Busy
  <2>13. HighWaterApplied' BY <2>2, <2>4, <2>6, <2>8, Zenon DEF Inv, HighWaterApplied
  <2>14. NothingForgotten' BY <2>2, <2>5, <2>7, <2>8, Zenon DEF Inv, NothingForgotten, At
  <2> QED BY <2>9, <2>10, <2>11, <2>12, <2>13, <2>14, Zenon DEF Inv
<1> QED BY <1>1, <1>2, <1>3, <1>4, Zenon DEF Work

\* The steps of the operator.
LEMMA InvOperate ==
    ASSUME Types, Inv, Quiesced, Pause \/ Operate \/ RebuildFails
    PROVE  Inv'
<1>0. /\ \A q \in Queues : tail[q].seq \in Nat /\ cursor[q].seq \in Nat /\ mark[q].seq \in Nat
      /\ None \in Position /\ None.seq = 0
  BY DEF Types, Position, None
<1>1. CASE Pause
  <2>1. UNCHANGED <<tail, cursor, commit, pos, entry, mark, poisoned, step, gen, ok>>
    BY <1>1, Zenon DEF Pause, log, commits, state, worker, task
  <2>2. operator' = "drop" /\ left' = Queues /\ Drained BY <1>1, Zenon DEF Pause
  <2>3. Published' BY <2>1, Zenon DEF Inv, Published
  <2>4. Selected' BY <2>1, SelectedSame, Zenon
  <2>5. Quiet'
    <3>1. Runnable' = {} BY <2>1, <2>2, RunnableSame DEF Drained
    <3> QED BY <2>1, <2>2, <3>1, QueueOfCommit, Zenon DEF Drained, Quiet
  <2>6. Recovering' BY <2>2, Zenon DEF Recovering
  <2>7. HighWaterApplied' BY <2>1, Zenon DEF Inv, HighWaterApplied
  <2>8. NothingForgotten' BY <2>2, Zenon DEF NothingForgotten, At
  <2> QED BY <2>3, <2>4, <2>5, <2>6, <2>7, <2>8, Zenon DEF Inv
<1>2. ASSUME NEW s \in Queues, DropQueued(s) PROVE Inv'
  <2>1. /\ UNCHANGED <<tail, cursor, commit, pos, step, gen, ok>>
        /\ operator = "drop" /\ ResetQueue(s, None) /\ Visit(s, "dropped", Queues)
    BY <1>2, Zenon DEF DropQueued, At, log, commits, worker, task
  <2>2. /\ \A c \in Commits : entry'[c] = IF QueueOf[c] = s THEN "none" ELSE entry[c]
        /\ \A q \in Queues : mark'[q] = IF q = s THEN None ELSE mark[q]
    BY <2>1, Zenon DEF ResetQueue, Types
  <2>3. \/ operator' = "drop" /\ left' = left \ {s}
        \/ operator' = "dropped" /\ left' = Queues /\ left = {s}
    BY <2>1 DEF Visit
  <2>4. Published' BY <2>1, <2>2, Zenon DEF Inv, Published
  <2>5. Selected' BY <2>1, SelectedSame, Zenon
  <2>6. Quiet'
    <3>1. Runnable' = {} BY <1>0, <2>1, RunnableReset, Zenon DEF Inv, Quiet
    <3>2. Busy BY <2>1, Zenon DEF Busy
    <3> QED BY <2>1, <2>2, <2>3, <3>1, <3>2, Zenon DEF Inv, Quiet, Busy
  <2>7. Recovering' BY <2>1, <2>2, <2>3, Zenon DEF Inv, Recovering
  <2>8. HighWaterApplied'
    <3> SUFFICES ASSUME NEW q \in Queues PROVE mark'[q].seq <= cursor'[q].seq /\ cursor'[q].seq <= tail'[q].seq
      BY Zenon DEF HighWaterApplied
    <3>1. cursor'[q] = cursor[q] /\ tail'[q] = tail[q] BY <2>1, Zenon
    <3>2. mark[q].seq <= cursor[q].seq /\ cursor[q].seq <= tail[q].seq BY DEF Inv, HighWaterApplied
    <3>3. mark'[q] = None \/ mark'[q] = mark[q] BY <2>2, Zenon
    <3>4. \A n \in Nat : 0 <= n OBVIOUS
    <3> QED BY <1>0, <3>1, <3>2, <3>3, <3>4, Zenon
  <2>9. NothingForgotten' BY <2>3, Zenon DEF NothingForgotten, At
  <2> QED BY <2>4, <2>5, <2>6, <2>7, <2>8, <2>9, Zenon DEF Inv
<1>3. CASE Delete
  <2>1. /\ UNCHANGED <<tail, commit, pos, entry, mark, poisoned, step, gen, ok>>
        /\ operator = "dropped" /\ operator' = "deleted" /\ cursor' = [q \in Queues |-> None]
    BY <1>3, Zenon DEF Delete, At, log, commits, state, worker, task
  <2>2. Published' BY <2>1, Zenon DEF Inv, Published
  <2>3. Selected' BY <2>1, Zenon DEF Inv, Selected, Quiet, Busy
  <2>4. Quiet' BY <2>1, Zenon DEF Inv, Quiet, Busy
  <2>5. Recovering' BY <2>1, Zenon DEF Recovering
  <2>6. HighWaterApplied' BY <1>0, <2>1, SMTT(30) DEF Inv, Recovering, HighWaterApplied
  <2>7. NothingForgotten' BY <2>1, Zenon DEF NothingForgotten, At
  <2> QED BY <2>2, <2>3, <2>4, <2>5, <2>6, <2>7, Zenon DEF Inv
<1>4. ASSUME NEW s \in Queues, Replay(s) PROVE Inv'
  <2>1. /\ UNCHANGED <<tail, commit, pos, entry, mark, poisoned, step, gen, ok>>
        /\ operator = "dropped" /\ Visit(s, "replayed", Queues) /\ cursor' = [cursor EXCEPT ![s] = tail[s]]
    BY <1>4, Zenon DEF Replay, At, log, commits, state, worker, task
  <2>2. \A q \in Queues : cursor'[q] = IF q = s THEN tail[q] ELSE cursor[q] BY <2>1, Zenon DEF Types
  <2>3. \/ operator' = "dropped" /\ left' = left \ {s}
        \/ operator' = "replayed" /\ left = {s}
    BY <2>1 DEF Visit
  <2>4. Published' BY <2>1, Zenon DEF Inv, Published
  <2>5. Selected' BY <2>1, Zenon DEF Inv, Selected, Quiet, Busy
  <2>6. Quiet' BY <2>1, <2>3, Zenon DEF Inv, Quiet, Busy
  <2>7. Recovering' BY <2>1, <2>2, <2>3, Zenon DEF Inv, Recovering
  <2>8. HighWaterApplied'
    <3> SUFFICES ASSUME NEW q \in Queues PROVE mark'[q].seq <= cursor'[q].seq /\ cursor'[q].seq <= tail'[q].seq
      BY DEF HighWaterApplied
    <3>1. mark'[q] = mark[q] /\ tail'[q] = tail[q] BY <2>1, Zenon
    <3>2. mark[q].seq <= cursor[q].seq /\ cursor[q].seq <= tail[q].seq BY DEF Inv, HighWaterApplied
    <3>3. cursor'[q] = tail[q] \/ cursor'[q] = cursor[q] BY <2>2
    <3> QED BY <1>0, <3>1, <3>2, <3>3
  <2>9. NothingForgotten' BY <2>3, Zenon DEF NothingForgotten, At
  <2> QED BY <2>4, <2>5, <2>6, <2>7, <2>8, <2>9 DEF Inv
<1>5. ASSUME NEW s \in Queues, Seed(s) \/ ResetRecovered(s) PROVE Inv'
  <2>1. /\ UNCHANGED <<tail, cursor, commit, pos, step, gen, ok>>
        /\ operator \in {"replayed", "seeded"}
    BY <1>5, Zenon DEF Seed, ResetRecovered, At, log, commits, worker, task
  <2>2. operator' \in {"replayed", "seeded", "reset"} BY <1>5, <2>1, Zenon DEF Seed, ResetRecovered, Visit, At
  <2>3. \A c \in Commits : entry'[c] = "none"
    <3>1. \A c \in Commits : entry[c] = "none" BY <2>1, Zenon DEF Inv, Quiet, Busy
    <3> QED BY <1>5, <3>1, Zenon DEF Seed, ResetRecovered, ResetQueue
  <2>4. \A q \in Queues : mark'[q] = mark[q] \/ mark'[q] = cursor[q]
    BY <1>5, ZenonT(30) DEF Seed, ResetRecovered, ResetQueue, Types
  <2>5. Published' BY <2>1, <2>3, Zenon DEF Inv, Published
  <2>6. Selected' BY <2>1, SelectedSame, Zenon
  <2>7. Quiet' BY <2>1, <2>2, <2>3, Zenon DEF Inv, Quiet, Busy
  <2>8. Recovering' BY <2>1, <2>2, Zenon DEF Inv, Recovering
  <2>9. HighWaterApplied' BY <1>0, <2>1, <2>4, SMTT(30) DEF Inv, HighWaterApplied
  <2>10. NothingForgotten' BY <2>2, Zenon DEF NothingForgotten, At
  <2> QED BY <2>5, <2>6, <2>7, <2>8, <2>9, <2>10 DEF Inv
<1>6. CASE Resume \/ RebuildFails
  <2>1. UNCHANGED <<tail, cursor, commit, pos, entry, mark, poisoned, step, gen, ok>>
    BY <1>6 DEF Resume, RebuildFails, log, commits, state, worker, task
  <2>2. (operator = "reset" /\ operator' = "kick") \/ operator' = "failed"
    BY <1>6, Zenon DEF Resume, RebuildFails, At
  <2>3. Published' BY <2>1, Zenon DEF Inv, Published
  <2>4. Selected' BY <2>1, SelectedSame, Zenon
  <2>5. Quiet' BY <2>1, <2>2, Zenon DEF Inv, Quiet, Busy
  <2>6. Recovering' BY <2>1, <2>2, Zenon DEF Inv, Recovering
  <2>7. HighWaterApplied' BY <2>1 DEF Inv, HighWaterApplied
  <2>8. NothingForgotten' BY <2>2, Zenon DEF NothingForgotten, At
  <2> QED BY <2>3, <2>4, <2>5, <2>6, <2>7, <2>8 DEF Inv
<1>7. CASE KickAfterResume
  <2>1. /\ UNCHANGED <<tail, cursor, commit, pos, entry, mark, poisoned>>
        /\ operator = "kick" /\ operator' = "idle" /\ KickWorker
    BY <1>7, Zenon DEF KickAfterResume, At, log, commits, state
  <2>2. UNCHANGED <<gen, ok>> BY <2>1, KickStarts DEF task
  <2>3. \A w \in Workers : step[w] \in {"apply", "settle"} \/ step'[w] \in {"apply", "settle"} => step'[w] = step[w]
    BY <2>1, KickStarts, Zenon DEF Types
  <2>4. Published' BY <2>1, Zenon DEF Inv, Published
  <2>5. Selected' BY <2>1, <2>2, <2>3, SelectedSame, Zenon
  <2>6. Quiet' BY <2>1, Zenon DEF Quiet, Busy
  <2>7. Recovering' BY <2>1 DEF Recovering
  <2>8. HighWaterApplied' BY <2>1, Zenon DEF Inv, HighWaterApplied
  <2>9. NothingForgotten'
    <3>1. \A c \in Commits : pos[c].seq <= cursor[QueueOf[c]].seq BY <2>1, QueueOfCommit, Zenon DEF Inv, Published, Recovering
    <3> QED BY <2>1, <3>1, Zenon DEF NothingForgotten
  <2> QED BY <2>4, <2>5, <2>6, <2>7, <2>8, <2>9 DEF Inv
<1> QED BY <1>1, <1>2, <1>3, <1>4, <1>5, <1>6, <1>7, Zenon DEF Operate

\* What Next can do keeps the invariant, when the operator acts without traffic.
LEMMA InvStep ==
    ASSUME Types, Inv, Quiesced, [Next]_vars
    PROVE  Inv'
<1>1. ASSUME NEW c \in Commits, Reserve(c) \/ Publish(c) PROVE Inv' BY <1>1, InvCommit, Zenon
<1>2. ASSUME NEW w \in Workers, Work(w) PROVE Inv' BY <1>2, InvWork, Zenon
<1>3. CASE Pause \/ Operate \/ RebuildFails BY <1>3, InvOperate
<1>4. CASE UNCHANGED <<tail, cursor, commits, entry, mark, poisoned, worker, op>>
  BY <1>4, InvMoves, Zenon DEF worker, task
<1>5. ASSUME NEW q \in Waiters, Wait(q) \/ BeginWait(q) \/ GiveUp(q) PROVE Inv'
  BY <1>4, <1>5, Zenon DEF Wait, Look, Await, BeginWait, GiveUp, log, state
<1>6. ASSUME NEW s \in Queues, NewEpoch(s) PROVE Inv'
  BY <1>4, <1>6, Zenon DEF NewEpoch, state
<1>7. CASE UNCHANGED vars
  BY <1>4, <1>7 DEF vars, log, state
<1>8. CASE Reopen
  <2>1. /\ UNCHANGED <<tail, pos>> /\ cursor' = tail /\ mark' = tail /\ operator' = "idle"
        /\ \A c \in Commits : commit'[c] = IF commit[c] = "idle" THEN "idle" ELSE "ended"
        /\ \A c \in Commits : entry'[c] = "none"
        /\ \A w \in Workers : step'[w] = "off" /\ ok'[w] = FALSE
    BY <1>8 DEF Reopen, log
  <2>2. \A q \in Queues : tail[q].seq \in Nat BY Zenon DEF Types, Position
  <2>3. Published' BY <2>1, Zenon DEF Inv, Published
  <2>4. Selected' BY <2>1, Zenon DEF Selected
  <2>5. Quiet' BY <2>1, Zenon DEF Quiet, Busy
  <2>6. Recovering' BY <2>1, Zenon DEF Recovering
  <2>7. HighWaterApplied' BY <2>1, <2>2 DEF HighWaterApplied
  <2>8. NothingForgotten' BY <2>1 DEF Inv, Published, NothingForgotten
  <2> QED BY <2>3, <2>4, <2>5, <2>6, <2>7, <2>8, Zenon DEF Inv
<1> QED BY <1>1, <1>2, <1>3, <1>5, <1>6, <1>7, <1>8, Zenon DEF Next, Progress

\* The invariant holds at the start.
LEMMA InitInv == Init => Inv
<1> SUFFICES ASSUME Init PROVE Inv OBVIOUS
<1>1. tail \in [Queues -> Position] BY InitTypes, Zenon DEF Types
<1>2. \A q \in Queues : tail[q].seq \in Nat BY <1>1, Zenon DEF Position
<1>3. Published BY <1>2, QueueOfCommit, SMTT(30) DEF Init, Published, None
<1>4. Selected BY Zenon DEF Init, Selected
<1>5. Quiet BY Zenon DEF Init, Quiet, Busy
<1>6. Recovering BY Zenon DEF Init, Recovering
<1>7. HighWaterApplied BY <1>2, SMTT(30) DEF Init, HighWaterApplied
<1>8. NothingForgotten BY DEF Init, NothingForgotten
<1> QED BY <1>3, <1>4, <1>5, <1>6, <1>7, <1>8, Zenon DEF Inv

\* What answers a coverage wait is in the projection, through errors, retries,
\* restarts, deletion and rebuild, if the operator acts without traffic.
THEOREM CoverageHonest ==
    ASSUME Quiesced
    PROVE  Spec => []HighWaterApplied
<1>1. Init => Types /\ Inv BY InitTypes, InitInv, Zenon
<1>2. Types /\ Inv /\ [Next]_vars => Types' /\ Inv' BY TypesStep, InvStep, Zenon
<1>3. Inv => HighWaterApplied BY Zenon DEF Inv
<1> QED BY <1>1, <1>2, <1>3, PTL DEF Spec

\* A published command is applied, waits or has a poisoned queue, through ambiguous
\* appends, errors, restarts, deletion and rebuild, if the operator acts without traffic.
THEOREM PublishedKept ==
    ASSUME Quiesced
    PROVE  Spec => []NothingForgotten
<1>1. Init => Types /\ Inv BY InitTypes, InitInv
<1>2. Types /\ Inv /\ [Next]_vars => Types' /\ Inv' BY TypesStep, InvStep
<1>3. Inv => NothingForgotten BY DEF Inv
<1> QED BY <1>1, <1>2, <1>3, PTL DEF Spec

-----------------------------------------------------------------------------
(***************************************************************************)
(* The order in which batches reach the projection.                          *)
(***************************************************************************)
\* Positions have an epoch of the log, which is never zero.
Stamped ==
    /\ \A s \in Queues : epoch[s] >= 1
    /\ \A c \in Commits : commit[c] = "appended" \/ entry[c] = "Ready" => pos[c].epoch >= 1

\* What next_coalesced_generation takes within the epoch of the high water begins
\* right behind it, and each batch follows one before it.
LEMMA RunFollows ==
    ASSUME Types, Inv, Stamped, NEW h \in Heads, NEW batches \in Generations(h),
           \A c \in batches : mark[QueueOf[c]].epoch = pos[c].epoch
    PROVE  /\ batches \subseteq Commits /\ \A c \in batches : QueueOf[c] = QueueOf[h]
           /\ \A c \in batches : \/ pos[c].seq = mark[QueueOf[h]].seq + 1
                                 \/ \E b \in batches : pos[b].seq + 1 = pos[c].seq
<1>1. h \in Commits /\ entry[h] = "Ready" /\ ReadyFollowsHighWater(h)
  BY Zenon DEF Heads, Runnable
<1>2. batches \subseteq Ready(QueueOf[h]) /\ Coalesced(h, batches)
  BY Zenon DEF Generations
<1>3. \A c \in batches : c \in Commits /\ QueueOf[c] = QueueOf[h]
  BY <1>2, Zenon DEF Ready, Entries
<1>4. h \in batches
  BY <1>2, Zenon DEF Coalesced
<1>5. pos[h].seq = mark[QueueOf[h]].seq + 1
  <2>1. mark[QueueOf[h]].epoch = pos[h].epoch /\ pos[h].epoch >= 1
    BY <1>1, <1>4, Zenon DEF Stamped
  <2>2. None.epoch = 0
    BY Zenon DEF None
  <2>3. mark[QueueOf[h]] # None
    BY <2>1, <2>2, SMTT(30)
  <2>4. Follows(mark[QueueOf[h]], pos[h])
    BY <1>1, <2>3, Zenon DEF ReadyFollowsHighWater
  <2> QED
    BY <2>1, <2>4, Zenon DEF Follows
<1>6. ASSUME NEW c \in batches, c # h
      PROVE  \E b \in batches : pos[b].seq + 1 = pos[c].seq
  <2>1. PICK b \in batches : Follows(pos[b], pos[c])
    BY <1>2, <1>6, Zenon DEF Coalesced
  <2>2. pos[b].epoch = pos[c].epoch
    <3>1. QueueOf[b] = QueueOf[c]
      BY <1>3, Zenon
    <3> QED
      BY <3>1, Zenon
  <2> QED
    BY <2>1, <2>2, Zenon DEF Follows
<1> QED
  BY <1>3, <1>5, <1>6, Zenon

\* A generation that is taken within one epoch continues what the projection has.
LEMMA RunOrdered ==
    ASSUME Types, Inv, Stamped, NEW h \in Heads, NEW batches \in Generations(h),
           \A c \in batches : mark[QueueOf[c]].epoch = pos[c].epoch
    PROVE  ~Gap(batches)
<1>1. /\ batches \subseteq Commits /\ \A c \in batches : QueueOf[c] = QueueOf[h]
      /\ \A c \in batches : \/ pos[c].seq = mark[QueueOf[h]].seq + 1
                            \/ \E b \in batches : pos[b].seq + 1 = pos[c].seq
  BY RunFollows, Zenon
<1>2. QueueOf[h] \in Queues
  BY QueueOfCommit, Zenon DEF Heads, Runnable
<1>3. /\ mark[QueueOf[h]].seq \in Nat /\ cursor[QueueOf[h]].seq \in Nat
      /\ mark[QueueOf[h]].seq <= cursor[QueueOf[h]].seq
  BY <1>2 DEF Types, Position, Inv, HighWaterApplied
<1>4. ASSUME NEW c \in batches, pos[c].seq > cursor[QueueOf[c]].seq + 1
      PROVE  \E b \in batches : pos[b].seq + 1 = pos[c].seq
  <2>1. QueueOf[c] = QueueOf[h]
    BY <1>1, Zenon
  <2>2. pos[c].seq # mark[QueueOf[h]].seq + 1
    BY <1>3, <1>4, <2>1
  <2> QED
    BY <1>1, <2>2, Zenon
<1> QED
  BY <1>4, Zenon DEF Gap

\* Nobody touches what a worker has selected before it was applied.
LEMMA SelectionKept ==
    ASSUME Types, Inv, OneApply, Quiesced, [Next]_vars,
           NEW w \in Workers, step[w] = "apply", step'[w] = "apply"
    PROVE  /\ gen'[w] = gen[w] /\ UNCHANGED <<mark, cursor>>
           /\ \A c \in gen[w] : pos'[c] = pos[c]
<1> DEFINE Goal == /\ gen'[w] = gen[w] /\ UNCHANGED <<mark, cursor>>
                   /\ \A c \in gen[w] : pos'[c] = pos[c]
<1>1. ~Busy
  BY DEF Inv, Quiet
<1>2. \A v \in Workers : step[v] \in {"apply", "settle"} => v = w
  BY Zenon DEF OneApply, Active
<1>3. gen[w] \subseteq Commits /\ \A c \in gen[w] : commit[c] \in {"kick", "ended"}
  <2>1. gen[w] \subseteq Commits
    BY DEF Types
  <2>2. \A c \in gen[w] : commit[c] \in {"kick", "ended"}
    BY Zenon DEF Inv, Selected
  <2> QED
    BY <2>1, <2>2, Zenon
<1>4. CASE UNCHANGED <<gen, mark, cursor, pos>>
  BY <1>4, Zenon
<1>5. ASSUME NEW c \in Commits, Append(c) \/ AppendAmbiguous(c) PROVE Goal
  <2>1. UNCHANGED <<gen, mark, cursor>> /\ commit[c] = "reserved"
    BY <1>5, Zenon DEF Append, AppendAmbiguous, state, worker, task
  <2>2. \A d \in Commits \ {c} : pos'[d] = pos[d]
    <3>1. CASE UNCHANGED pos
      BY <3>1, Zenon
    <3>2. CASE Positioned(c)
      BY <3>2, Zenon DEF Positioned, Types
    <3> QED
      BY <1>5, <3>1, <3>2, Zenon DEF Append, AppendAmbiguous
  <2>3. c \notin gen[w]
    BY <1>3, <2>1, Zenon
  <2> QED
    BY <1>3, <2>1, <2>2, <2>3, Zenon
<1>6. ASSUME NEW c \in Commits, Reserve(c) \/ AppendRejected(c) \/ Enqueue(c) PROVE Goal
  BY <1>4, <1>6, Zenon DEF Reserve, AppendRejected, Enqueue, worker, task
<1>7. ASSUME KickWorker PROVE UNCHANGED gen
  BY <1>7, KickStarts, Zenon DEF task
<1>8. ASSUME NEW c \in Commits, KickAfter(c) PROVE Goal
  BY <1>4, <1>7, <1>8, Zenon DEF KickAfter, state
<1>9. ASSUME NEW v \in Workers, Top(v) \/ Stop(v) \/ ResumeOrReturn(v) \/ WindowEnds(v) PROVE Goal
  BY <1>4, <1>9, Zenon DEF Top, Stop, ResumeOrReturn, Return, WindowEnds, commits, state, task
<1>10. ASSUME NEW v \in Workers, Select(v) PROVE Goal
  <2>1. v # w /\ UNCHANGED <<mark, cursor, pos>>
    BY <1>10 DEF Select, commits, state
  <2>2. \E b : gen' = [gen EXCEPT ![v] = b] \/ UNCHANGED gen
    BY <1>10, Zenon DEF Select
  <2>3. gen'[w] = gen[w]
    BY <2>1, <2>2, Zenon DEF Types
  <2> QED
    BY <2>1, <2>3, Zenon
<1>11. ASSUME NEW v \in Workers, ApplyLive(v) \/ Settle(v) PROVE FALSE
  <2>1. step[v] \in {"apply", "settle"} /\ step' \in {[step EXCEPT ![v] = "settle"], [step EXCEPT ![v] = "top"]}
    BY <1>11, Zenon DEF ApplyLive, Settle, Goto
  <2>2. v = w
    BY <1>2, <2>1, Zenon
  <2> QED
    BY <2>1, <2>2 DEF Types
<1>12. ASSUME NEW q \in Waiters, Wait(q) \/ BeginWait(q) \/ GiveUp(q) PROVE Goal
  BY <1>4, <1>12, Zenon DEF Wait, Look, Await, BeginWait, GiveUp, commits, state, worker, task
<1>13. ASSUME NEW s \in Queues, NewEpoch(s) PROVE Goal
  BY <1>4, <1>13, Zenon DEF NewEpoch, commits, state, worker, task
<1>14. ASSUME Pause \/ RebuildFails \/ UNCHANGED vars PROVE Goal
  BY <1>4, <1>14, Zenon DEF Pause, RebuildFails, vars, commits, state, worker, task
<1>15. ASSUME Operate PROVE Goal
  <2>1. operator \in {"drop", "dropped", "replayed", "seeded", "reset", "kick"}
    BY <1>15, Zenon DEF Operate, DropQueued, Replay, Seed, ResetRecovered, Delete, Resume, KickAfterResume, At
  <2> QED
    BY <1>1, <2>1, Zenon DEF Busy
<1>16. ASSUME Reopen PROVE Goal
  BY <1>16 DEF Reopen
<1> HIDE DEF Goal
<1>17. ASSUME NEW c \in Commits, Reserve(c) \/ Publish(c) PROVE Goal
  BY <1>5, <1>6, <1>8, <1>17, Zenon DEF Publish
<1>18. ASSUME NEW v \in Workers, Work(v) PROVE Goal
  BY <1>9, <1>10, <1>11, <1>18, Zenon DEF Work
<1>19. ASSUME Next PROVE Goal
  BY <1>12, <1>13, <1>14, <1>15, <1>16, <1>17, <1>18, <1>19, Zenon DEF Next, Progress
<1>20. Goal
  BY <1>14, <1>19, Zenon
<1> QED
  BY <1>20, Zenon DEF Goal

\* The order is kept by every step.
LEMMA OrderStep ==
    ASSUME Types, Inv, OneApply, Stamped, Quiesced, NoGapWithinEpoch, [Next]_vars
    PROVE  NoGapWithinEpoch'
<1> SUFFICES ASSUME NEW w \in Workers, step'[w] = "apply",
                    \A c \in gen'[w] : mark'[QueueOf[c]].epoch = pos'[c].epoch
             PROVE  Ordered(w)'
  BY Zenon DEF NoGapWithinEpoch
<1>1. CASE step[w] = "apply"
  <2>1. /\ gen'[w] = gen[w] /\ mark' = mark /\ cursor' = cursor
        /\ \A c \in gen[w] : pos'[c] = pos[c]
    BY <1>1, SelectionKept, Zenon
  <2>2. \A c \in gen[w] : mark[QueueOf[c]].epoch = pos[c].epoch
    BY <2>1
  <2>3. Ordered(w)
    BY <1>1, <2>2, Zenon DEF NoGapWithinEpoch
  <2> QED
    BY <2>1, <2>3 DEF Ordered, Gap
<1>2. CASE step[w] # "apply"
  <2>1. Select(w)
    <3>1. ASSUME KickWorker PROVE FALSE
      BY <1>2, <3>1, KickStarts, Zenon DEF Types
    <3>2. ASSUME NEW v \in Workers, v # w, Work(v) PROVE FALSE
      <4>1. \E place : step' = [step EXCEPT ![v] = place]
        BY <3>2, Zenon DEF Work, Top, Stop, ResumeOrReturn, Return, Select, WindowEnds, ApplyLive, Settle, Goto
      <4> QED
        BY <1>2, <3>2, <4>1, Zenon DEF Types
    <3>3. ASSUME Top(w) \/ Stop(w) \/ ResumeOrReturn(w) \/ WindowEnds(w) \/ ApplyLive(w) \/ Settle(w)
          PROVE  FALSE
      <4>1. \E place : place # "apply" /\ step' = [step EXCEPT ![w] = place]
        BY <3>3, Zenon DEF Top, Stop, ResumeOrReturn, Return, WindowEnds, ApplyLive, Settle, Goto
      <4> QED
        BY <4>1, Zenon DEF Types
    <3>4. ASSUME UNCHANGED step PROVE FALSE
      BY <1>2, <3>4, Zenon
    <3>5. ASSUME NEW c \in Commits, Reserve(c) \/ Publish(c) PROVE FALSE
      BY <3>1, <3>4, <3>5, Zenon
         DEF Reserve, Publish, Append, AppendRejected, AppendAmbiguous, Enqueue, KickAfter, worker
    <3>6. ASSUME NEW q \in Waiters, Wait(q) \/ BeginWait(q) \/ GiveUp(q) PROVE FALSE
      BY <3>4, <3>6, Zenon DEF Wait, Look, Await, BeginWait, GiveUp, worker
    <3>7. ASSUME NEW s \in Queues, NewEpoch(s) PROVE FALSE
      BY <3>4, <3>7, Zenon DEF NewEpoch, worker
    <3>8. ASSUME Pause \/ RebuildFails \/ UNCHANGED vars \/ Operate PROVE FALSE
      BY <3>1, <3>4, <3>8, Zenon
         DEF Pause, RebuildFails, vars, Operate, DropQueued, Replay, Seed, ResetRecovered, Delete, Resume,
             KickAfterResume, worker
    <3>9. ASSUME Reopen PROVE FALSE
      BY <3>9, Zenon DEF Reopen
    <3> QED
      BY <3>2, <3>3, <3>5, <3>6, <3>7, <3>8, <3>9, Zenon DEF Next, Progress, Work
  <2>2. mark' = mark /\ cursor' = cursor /\ pos' = pos
    BY <2>1, Zenon DEF Select, state, commits
  <2>3. PICK h \in Heads : gen'[w] \in Generations(h)
    <3>1. PICK plan \in [Heads -> UNION {Generations(h) : h \in Heads}] : Select(w)!2!(plan)
      BY <2>1, Zenon DEF Select
    <3>2. \E h \in Heads : gen' = [gen EXCEPT ![w] = plan[h]] /\ plan[h] \in Generations(h)
      BY <3>1, Zenon DEF Goto, Types
    <3> QED
      BY <3>2, Zenon DEF Types
  <2>4. \A c \in gen'[w] : mark[QueueOf[c]].epoch = pos[c].epoch
    BY <2>2, Zenon
  <2>5. ~Gap(gen'[w])
    BY <2>3, <2>4, RunOrdered, Zenon
  <2> QED
    BY <2>2, <2>5, Zenon DEF Ordered, Gap
<1> QED
  BY <1>1, <1>2, Zenon

\* Every step gives new positions the epoch of the log.
LEMMA StampedStep ==
    ASSUME Types, Inv, Stamped, [Next]_vars
    PROVE  Stamped'
<1>1. CASE /\ UNCHANGED <<epoch, pos>>
           /\ \A c \in Commits : commit'[c] = "appended" \/ entry'[c] = "Ready" => commit[c] = "appended" \/ entry[c] = "Ready"
  BY <1>1, Zenon DEF Stamped
<1>2. CASE UNCHANGED <<epoch, commits, entry>>
  BY <1>2, Zenon DEF Stamped, commits
<1>3. ASSUME NEW c \in Commits, Append(c) \/ AppendAmbiguous(c) PROVE Stamped'
  <2>1. /\ epoch' = epoch /\ commit[c] = "reserved" /\ entry' = entry
        /\ \A d \in Commits \ {c} : commit'[d] = commit[d]
        /\ commit'[c] = "appended" => Positioned(c)
    BY <1>3, Zenon DEF Append, AppendAmbiguous, Types, state
  <2>2. \A d \in Commits \ {c} : pos'[d] = pos[d]
    <3>1. CASE UNCHANGED pos
      BY <3>1, Zenon
    <3>2. CASE Positioned(c)
      BY <3>2 DEF Positioned, Types
    <3> QED
      BY <1>3, <3>1, <3>2, Zenon DEF Append, AppendAmbiguous
  <2>3. entry'[c] # "Ready"
    BY <2>1, Zenon DEF Inv, Published
  <2>4. commit'[c] = "appended" => pos'[c].epoch = epoch[QueueOf[c]]
    <3>1. Positioned(c) => \E p : p.epoch = epoch[QueueOf[c]] /\ pos' = [pos EXCEPT ![c] = p]
      BY Zenon DEF Positioned
    <3>2. pos \in [Commits -> Position]
      BY Zenon DEF Types
    <3> QED
      BY <2>1, <3>1, <3>2, Zenon
  <2>5. \A d \in Commits : commit'[d] = "appended" \/ entry'[d] = "Ready" => pos'[d].epoch >= 1
    BY <2>1, <2>2, <2>3, <2>4, QueueOfCommit, Zenon DEF Stamped
  <2> QED
    BY <2>1, <2>5, Zenon DEF Stamped
<1>4. ASSUME NEW c \in Commits, Reserve(c) \/ AppendRejected(c) PROVE Stamped'
  <2>1. UNCHANGED <<epoch, pos>>
    BY <1>4, Zenon DEF Reserve, AppendRejected, log
  <2>2. \A d \in Commits : commit'[d] = "appended" \/ entry'[d] = "Ready" => commit[d] = "appended" \/ entry[d] = "Ready"
    BY <1>4 DEF Reserve, AppendRejected, Types
  <2> QED
    BY <1>1, <2>1, <2>2, Zenon
<1>5. ASSUME NEW c \in Commits, Enqueue(c) \/ KickAfter(c) PROVE Stamped'
  <2>1. UNCHANGED <<epoch, pos>>
    BY <1>5, Zenon DEF Enqueue, KickAfter, log
  <2>2. \A d \in Commits : commit'[d] = "appended" \/ entry'[d] = "Ready" => commit[d] = "appended" \/ entry[d] = "Ready"
    BY <1>5 DEF Enqueue, KickAfter, Types, state
  <2> QED
    BY <1>1, <2>1, <2>2, Zenon
<1>6. ASSUME NEW c \in Commits, Reserve(c) \/ Publish(c) PROVE Stamped'
  BY <1>3, <1>4, <1>5, <1>6, Zenon DEF Publish
<1>7. ASSUME NEW w \in Workers, Work(w) PROVE Stamped'
  <2>1. CASE Settle(w)
    <3>1. UNCHANGED <<epoch, pos, commit>>
      BY <2>1, Zenon DEF Settle, log, commits
    <3>2. \A c \in Commits : entry'[c] = entry[c] \/ entry'[c] = "none"
      BY <2>1, Zenon DEF Settle, SettleApplied, SettleChanged, SettleFailed, Remove
    <3> QED
      BY <1>1, <3>1, <3>2, Zenon
  <2> QED
    BY <1>2, <1>7, <2>1, Zenon
       DEF Work, Top, Stop, ResumeOrReturn, Select, WindowEnds, ApplyLive, log, state
<1>8. ASSUME NEW q \in Waiters, Wait(q) \/ BeginWait(q) \/ GiveUp(q) PROVE Stamped'
  BY <1>2, <1>8, Zenon DEF Wait, Look, Await, BeginWait, GiveUp, log, state
<1>9. ASSUME NEW s \in Queues, NewEpoch(s) PROVE Stamped'
  <2>1. UNCHANGED <<commit, pos, entry>> /\ epoch' = [epoch EXCEPT ![s] = @ + 1]
    BY <1>9, Zenon DEF NewEpoch, commits, state
  <2>2. \A q \in Queues : epoch'[q] >= 1
    BY <2>1 DEF Stamped, Types
  <2> QED
    BY <2>1, <2>2, Zenon DEF Stamped
<1>10. CASE Pause \/ RebuildFails \/ UNCHANGED vars
  BY <1>2, <1>10, Zenon DEF Pause, RebuildFails, vars, log, state
<1>11. CASE Operate
  <2>1. UNCHANGED <<epoch, pos, commit>>
    BY <1>11, Zenon
       DEF Operate, DropQueued, Replay, Seed, ResetRecovered, Delete, Resume, KickAfterResume, log, commits
  <2>2. \A c \in Commits : entry'[c] = entry[c] \/ entry'[c] = "none"
    <3>1. ASSUME UNCHANGED entry PROVE \A c \in Commits : entry'[c] = entry[c]
      BY <3>1, Zenon
    <3>2. ASSUME NEW s, NEW p, ResetQueue(s, p) PROVE \A c \in Commits : entry'[c] = entry[c] \/ entry'[c] = "none"
      BY <3>2 DEF ResetQueue
    <3> QED
      BY <1>11, <3>1, <3>2, Zenon
         DEF Operate, DropQueued, Replay, Seed, ResetRecovered, Delete, Resume, KickAfterResume, state
  <2> QED
    BY <1>1, <2>1, <2>2, Zenon
<1>12. CASE Reopen
  <2>1. UNCHANGED <<epoch, pos>> /\ \A c \in Commits : commit'[c] # "appended" /\ entry'[c] # "Ready"
    BY <1>12 DEF Reopen, log
  <2> QED
    BY <1>1, <2>1, Zenon
<1>13. ASSUME Next PROVE Stamped'
  BY <1>6, <1>7, <1>8, <1>9, <1>10, <1>11, <1>12, <1>13, Zenon DEF Next, Progress
<1> QED
  BY <1>10, <1>13, Zenon

\* Within an epoch the worker hands batches to the projection in the order of the
\* log, none left out, whatever the order in which commits publish them: the gap
\* that a slower commit leaves holds the later ones back.
THEOREM AppliedInOrder ==
    ASSUME Quiesced
    PROVE  Spec => []NoGapWithinEpoch
<1>1. Init => Types /\ Inv
  BY InitTypes, InitInv
<1>2. Init => Stamped
  BY SMTT(30) DEF Init, Stamped
<1>3. Init => OneApply /\ NoGapWithinEpoch
  BY Zenon DEF Init, OneApply, Active, NoGapWithinEpoch
<1>4. Types /\ Inv /\ OneApply /\ [Next]_vars => Types' /\ Inv' /\ OneApply'
  BY TypesStep, InvStep, OneApplyStep, Zenon
<1>5. Types /\ Inv /\ OneApply /\ Stamped /\ NoGapWithinEpoch /\ [Next]_vars => Stamped' /\ NoGapWithinEpoch'
  BY StampedStep, OrderStep
<1> QED
  BY <1>1, <1>2, <1>3, <1>4, <1>5, PTL DEF Spec

=============================================================================
