-------------------------- MODULE ApplyCoordinator --------------------------
(***************************************************************************)
(* AsyncProjectionApplyCoordinator of fireweed-objectlog: a commit reserves  *)
(* a place in the apply queue, appends to the log, publishes its batch and   *)
(* kicks the worker, which hands contiguous batches to the projection.  With *)
(* it the commits that use it, the projection's cursor, the waits for         *)
(* coverage, and the operator's delete and rebuild                          *)
(* (fireweed/src/turso_compose.rs).                                         *)
(*                                                                         *)
(* A batch has one position.  Every critical section of the state mutex, and *)
(* every access to the atomics worker_running and paused, is one step.        *)
(***************************************************************************)
EXTENDS Integers, FiniteSets

CONSTANTS
    Commits,      \* the commits of a run, each with one batch
    Queues,
    QueueOf,      \* the queue of a commit
    Kind,         \* "claim", "complete" or "other"
    Workers,      \* tasks that run_worker can have at one time
    Waiters,      \* callers of wait_for_catch_up and wait_until_covers
    Covering,     \* those of wait_until_covers
    WaitQueue,    \* the queue they wait for
    DepthMax,     \* apply_queue_depth_max, and with batches of one command the other debts
    RetryThreshold,
    MaxTrouble,   \* bound on faults, new epochs, restarts and operator actions together
    Quiesced      \* the operator acts on a handle without traffic

ASSUME ApplyAssumption ==
    /\ DepthMax \in Nat /\ RetryThreshold \in Nat /\ MaxTrouble \in Nat
    /\ QueueOf \in [Commits -> Queues] /\ WaitQueue \in [Waiters -> Queues]
    /\ Kind \in [Commits -> {"claim", "complete", "other"}]
    /\ Covering \subseteq Waiters /\ Quiesced \in BOOLEAN

VARIABLES
    \* the log, the projection and the commits
    epoch,        \* the epoch of the log, per queue
    tail,         \* the position of the last command in the log
    cursor,       \* the position of the last command applied, in the projection's transaction
    commit,       \* where each commit is
    pos,          \* the position of its batch
    \* CoordinatorState
    entry,        \* its ApplyEntry: "none", "Reserved" or "Ready"
    id,           \* the id of its reservation; entries are in the order of their ids
    mark,         \* applied_high_water
    poisoned,     \* the queues with a poison_reason
    retries,
    \* atomics and tasks
    paused, running,
    step,         \* where each worker task is
    gen,          \* the batches it has selected, and whether they were applied
    ok,
    open, over,   \* the first batches that it holds back, and those whose window is over
    heard,        \* tasks that were notified since they armed
    waiter, target,
    operator,     \* where the operator's call is, and the queues it still has to visit
    left,
    trouble

log == <<epoch, tail>>
state == <<entry, id, mark, poisoned, retries>>
commits == <<commit, pos>>
waits == <<waiter, target>>
task == <<gen, ok, open, over>>
worker == <<step, task>>
op == <<operator, left>>
vars == <<log, cursor, commits, state, paused, running, worker, heard, waits, op, trouble>>

Position == [seq : Nat, epoch : Nat]
None == [seq |-> 0, epoch |-> 0]

\* Queues are new, or were recovered with one command in log and projection.
Init ==
    /\ epoch = [s \in Queues |-> 1]
    /\ tail \in [Queues -> {None, [seq |-> 1, epoch |-> 1]}]
    /\ cursor = tail /\ mark = tail
    /\ commit = [c \in Commits |-> "idle"] /\ pos = [c \in Commits |-> None]
    /\ entry = [c \in Commits |-> "none"] /\ id = [c \in Commits |-> 0]
    /\ poisoned = {} /\ retries = [s \in Queues |-> 0]
    /\ paused = FALSE /\ running = FALSE
    /\ step = [w \in Workers |-> "off"] /\ gen = [w \in Workers |-> {}] /\ ok = [w \in Workers |-> FALSE]
    /\ open = [w \in Workers |-> {}] /\ over = [w \in Workers |-> {}] /\ heard = {}
    /\ waiter = [q \in Waiters |-> "idle"] /\ target = [q \in Waiters |-> None]
    /\ operator = "idle" /\ left = {} /\ trouble = 0

-----------------------------------------------------------------------------
(***************************************************************************)
(* Positions and entries.                                                  *)
(***************************************************************************)
Precedes(p, q) == p.epoch < q.epoch \/ (p.epoch = q.epoch /\ p.seq < q.seq)

Follows(p, q) == Precedes(p, q) /\ (p.epoch # q.epoch \/ p.seq + 1 = q.seq)

Covers(have, p) == have # None /\ ~Precedes(have, p)

Entries(s) == {c \in Commits : QueueOf[c] = s /\ entry[c] # "none"}
Ready(s) == {c \in Entries(s) : entry[c] = "Ready"}

\* Defect: a gap behind the high water is not looked at.
ReadyFollowsLoosely(c) ==
    LET s == QueueOf[c] IN
    \/ mark[s] = None /\ \A d \in Ready(s) : ~Precedes(pos[d], pos[c])
    \/ mark[s] # None /\ Precedes(mark[s], pos[c])

ReadyFollowsHighWater(c) ==
    LET s == QueueOf[c] IN
    \/ mark[s] = None /\ \A d \in Ready(s) : ~Precedes(pos[d], pos[c])
    \/ mark[s] # None /\ Follows(mark[s], pos[c])

Runnable == {c \in Commits : entry[c] = "Ready" /\ QueueOf[c] \notin poisoned /\ ReadyFollowsHighWater(c)}

\* The batch that next_runnable would take of each queue.
Heads == {c \in Runnable : \A d \in Runnable : QueueOf[d] = QueueOf[c] => ~Precedes(pos[d], pos[c])}

\* The queue of c comes before the queue of d in admission order.
Earlier(c, d) ==
    \E x \in Runnable : QueueOf[x] = QueueOf[c] /\ \A y \in Runnable : QueueOf[y] = QueueOf[d] => id[x] <= id[y]

ReservedBetween(c, d) ==
    \E r \in Entries(QueueOf[c]) :
        /\ entry[r] = "Reserved"
        /\ (id[c] < id[r] /\ id[r] < id[d]) \/ (id[d] < id[r] /\ id[r] < id[c])

\* next_coalesced_generation: a head and a run of Ready batches behind it.  The
\* caps on requests, items and bytes may end the run anywhere.
Coalesced(first, batches) ==
    /\ first \in batches
    /\ \A c \in batches \ {first} :
          /\ ~ReservedBetween(first, c)
          /\ \A d \in Ready(QueueOf[first]) \ {first} : Precedes(pos[d], pos[c]) => d \in batches
          /\ \E b \in batches :
                /\ Follows(pos[b], pos[c])
                /\ \A d \in batches : ~(Precedes(pos[b], pos[d]) /\ Precedes(pos[d], pos[c]))

Generations(first) == {batches \in SUBSET Ready(QueueOf[first]) : Coalesced(first, batches)}

ClaimWithoutComplete(batches) ==
    (\E c \in batches : Kind[c] = "claim") /\ ~\E c \in batches : Kind[c] = "complete"

CoverageWaiter(s) == \E q \in Covering : WaitQueue[q] = s /\ waiter[q] \in {"look", "looked", "sleep"}

\* Defect: a wait is armed by its await.
ListeningAsleep ==
    {w \in Workers : step[w] = "window"} \cup {q \in Waiters : waiter[q] = "sleep"}

\* notify_waiters reaches the tasks that have armed.
Listening ==
    {w \in Workers : step[w] = "window"} \cup {q \in Waiters : waiter[q] \in {"looked", "sleep"}}

Notify == heard' = heard \cup Listening

-----------------------------------------------------------------------------
(***************************************************************************)
(* Commits: commit_replayable with reserve, the append and enqueue_reserved. *)
(***************************************************************************)
NextId == 1 + Cardinality({c \in Commits : id[c] # 0})

\* A handle that is being deleted or rebuilt has no traffic.
Open == Quiesced => operator \in {"idle", "failed"}

\* reserve.  A refusal, for poison or for debt, changes nothing.
Reserve(c) ==
    /\ commit[c] = "idle" /\ Open
    /\ QueueOf[c] \notin poisoned
    /\ Cardinality(Entries(QueueOf[c])) < DepthMax
    /\ commit' = [commit EXCEPT ![c] = "reserved"]
    /\ entry' = [entry EXCEPT ![c] = "Reserved"]
    /\ id' = [id EXCEPT ![c] = NextId]
    /\ Notify
    /\ UNCHANGED <<log, cursor, pos, mark, poisoned, retries, paused, running, worker, waits, op, trouble>>

\* The log gives the command the next position of its queue.
Positioned(c) ==
    LET s == QueueOf[c]
        p == [seq |-> tail[s].seq + 1, epoch |-> epoch[s]]
    IN tail' = [tail EXCEPT ![s] = p] /\ pos' = [pos EXCEPT ![c] = p]

Append(c) ==
    /\ commit[c] = "reserved"
    /\ Positioned(c)
    /\ commit' = [commit EXCEPT ![c] = "appended"]
    /\ UNCHANGED <<epoch, cursor, state, paused, running, worker, heard, waits, op, trouble>>

\* BeforePosition or HeadRejected: the reservation is cancelled.
AppendRejected(c) ==
    /\ commit[c] = "reserved" /\ trouble < MaxTrouble
    /\ commit' = [commit EXCEPT ![c] = "kick"]
    /\ entry' = [entry EXCEPT ![c] = "none"]
    /\ trouble' = trouble + 1
    /\ Notify
    /\ UNCHANGED <<log, cursor, pos, id, mark, poisoned, retries, paused, running, worker, waits, op>>

\* Defect: an append without an answer is taken for one that failed.
AppendAmbiguousCancels(c) ==
    /\ commit[c] = "reserved" /\ trouble < MaxTrouble
    /\ Positioned(c) \/ UNCHANGED <<tail, pos>>
    /\ commit' = [commit EXCEPT ![c] = "kick"]
    /\ entry' = [entry EXCEPT ![c] = "none"]
    /\ trouble' = trouble + 1
    /\ Notify
    /\ UNCHANGED <<epoch, cursor, id, mark, poisoned, retries, paused, running, worker, waits, op>>

\* PostPositionAmbiguous: the queue is poisoned and the reservation stays.
AppendAmbiguous(c) ==
    /\ commit[c] = "reserved" /\ trouble < MaxTrouble
    /\ Positioned(c) \/ UNCHANGED <<tail, pos>>
    /\ commit' = [commit EXCEPT ![c] = "ended"]
    /\ poisoned' = poisoned \cup {QueueOf[c]}
    /\ trouble' = trouble + 1
    /\ Notify
    /\ UNCHANGED <<epoch, cursor, entry, id, mark, retries, paused, running, worker, waits, op>>

\* transfer_followers_and_recharge (of no followers) and enqueue_reserved.
Enqueue(c) ==
    /\ commit[c] = "appended"
    /\ \/ /\ entry[c] = "Reserved"
          /\ entry' = [entry EXCEPT ![c] = "Ready"]
          /\ commit' = [commit EXCEPT ![c] = "kick"]
          /\ UNCHANGED poisoned
       \/ /\ entry[c] # "Reserved"
          /\ poisoned' = poisoned \cup {QueueOf[c]}
          /\ commit' = [commit EXCEPT ![c] = "ended"]
          /\ UNCHANGED entry
    /\ Notify
    /\ UNCHANGED <<log, cursor, pos, id, mark, retries, paused, running, worker, waits, op, trouble>>

\* Defect: the worker is started without a look at worker_running.
KickAlways ==
    \/ /\ ~paused
       /\ \E w \in Workers : step[w] = "off"
       /\ step' = [step EXCEPT ![CHOOSE w \in Workers : step[w] = "off"] = "top"]
       /\ running' = TRUE /\ UNCHANGED task
    \/ paused /\ UNCHANGED <<running, worker>>

\* kick: a compare-and-exchange of worker_running, and a new task.
KickWorker ==
    \/ /\ ~paused /\ ~running
       /\ \E w \in Workers : step[w] = "off"
       /\ step' = [step EXCEPT ![CHOOSE w \in Workers : step[w] = "off"] = "top"]
       /\ running' = TRUE /\ UNCHANGED task
    \/ (paused \/ running) /\ UNCHANGED <<running, worker>>

KickAfter(c) ==
    /\ commit[c] = "kick"
    /\ commit' = [commit EXCEPT ![c] = "ended"]
    /\ KickWorker
    /\ UNCHANGED <<log, cursor, pos, state, paused, heard, waits, op, trouble>>

Publish(c) == Append(c) \/ AppendRejected(c) \/ AppendAmbiguous(c) \/ Enqueue(c) \/ KickAfter(c)

\* Another owner, or the same one again, fences the log with a new epoch.
NewEpoch(s) ==
    /\ trouble < MaxTrouble
    /\ epoch' = [epoch EXCEPT ![s] = @ + 1]
    /\ trouble' = trouble + 1
    /\ UNCHANGED <<tail, cursor, commits, state, paused, running, worker, heard, waits, op>>

-----------------------------------------------------------------------------
(***************************************************************************)
(* run_worker.                                                             *)
(***************************************************************************)
Goto(w, next) == step' = [step EXCEPT ![w] = next]
Return(w) ==
    /\ Goto(w, "off")
    /\ open' = [open EXCEPT ![w] = {}] /\ over' = [over EXCEPT ![w] = {}]
    /\ UNCHANGED <<gen, ok>>

Top(w) ==
    /\ step[w] = "top"
    /\ Goto(w, IF paused THEN "halt" ELSE "select")
    /\ UNCHANGED <<log, cursor, commits, state, paused, running, task, heard, waits, op, trouble>>

\* worker_running is given up, because of a pause or for want of work.
Stop(w) ==
    /\ step[w] \in {"halt", "idle"}
    /\ running' = FALSE
    /\ Goto(w, IF step[w] = "halt" THEN "halted" ELSE "recheck")
    /\ UNCHANGED <<log, cursor, commits, state, paused, task, heard, waits, op, trouble>>

\* Defect: the worker returns without a second look.
ResumeOrReturnBlind(w) ==
    /\ step[w] \in {"halted", "recheck"}
    /\ Return(w) /\ UNCHANGED running
    /\ UNCHANGED <<log, cursor, commits, state, paused, heard, waits, op, trouble>>

\* The second look: work, or a resume, that came before worker_running was given
\* up found it taken.
ResumeOrReturn(w) ==
    LET again == ~paused /\ ~running /\ (step[w] = "recheck" => Runnable # {}) IN
    /\ step[w] \in {"halted", "recheck"}
    /\ \/ again /\ running' = TRUE /\ Goto(w, "top") /\ UNCHANGED task
       \/ ~again /\ Return(w) /\ UNCHANGED running
    /\ UNCHANGED <<log, cursor, commits, state, paused, heard, waits, op, trouble>>

\* A claim waits for its completion, unless its window is over or a read waits.
Held(w, first, batches) ==
    ClaimWithoutComplete(batches) /\ first \notin over[w] /\ ~CoverageWaiter(QueueOf[first])

\* Under the state mutex: the first queue whose generation need not wait, or the
\* windows of all, or nothing.
Select(w) ==
    /\ step[w] = "select"
    /\ \E plan \in [Heads -> UNION {Generations(h) : h \in Heads}] :
          /\ \A h \in Heads : plan[h] \in Generations(h)
          /\ LET held == {h \in Heads : Held(w, h, plan[h])}
                 still == {c \in over[w] : entry[c] # "none"}
             IN \/ \E h \in Heads \ held :
                     /\ \A g \in Heads \ held : Earlier(h, g)
                     /\ Goto(w, "apply")
                     /\ gen' = [gen EXCEPT ![w] = plan[h]]
                     /\ open' = [open EXCEPT ![w] = {}] /\ over' = [over EXCEPT ![w] = still \ {h}]
                \/ /\ held = Heads
                   /\ Goto(w, IF held = {} THEN "idle" ELSE "window")
                   /\ open' = [open EXCEPT ![w] = held] /\ over' = [over EXCEPT ![w] = still]
                   /\ UNCHANGED gen
    /\ heard' = heard \ {w}
    /\ UNCHANGED <<log, cursor, commits, state, paused, running, ok, waits, op, trouble>>

\* The wait ends with a notification, or with a window: no notification restarts
\* one, so that every window ends.
WindowEnds(w) ==
    /\ step[w] = "window"
    /\ Goto(w, "top")
    /\ \/ w \in heard /\ UNCHANGED over
       \/ \E c \in open[w] : over' = [over EXCEPT ![w] = @ \cup {c}]
    /\ UNCHANGED <<log, cursor, commits, state, paused, running, gen, ok, open, heard, waits, op, trouble>>

\* The last batch of a generation.
Last(batches, c) == c \in batches /\ \A d \in batches : pos[d].seq <= pos[c].seq

\* The projection refuses an epoch below that of its cursor, and a gap: it takes the
\* batches in order, and each must follow what it has by then.
Stale(batches, s) == \E c \in batches : pos[c].epoch < cursor[s].epoch
Gap(batches) ==
    \E c \in batches :
        /\ pos[c].seq > cursor[QueueOf[c]].seq + 1
        /\ \A b \in batches : pos[b].seq + 1 # pos[c].seq

Refuses(batches, last) == Stale(batches, QueueOf[last]) \/ Gap(batches)

\* The cursor moves to the end of the generation.  Positions below it are skipped.
Apply(last) ==
    cursor' = [cursor EXCEPT ![QueueOf[last]] = IF pos[last].seq > @.seq THEN pos[last] ELSE @]

\* apply_live: a transaction of the projection.  It may fail, with or without its
\* effect.
ApplyLive(w) ==
    /\ step[w] = "apply" /\ Goto(w, "settle")
    /\ \E last \in Commits :
          /\ Last(gen[w], last)
          /\ \/ /\ Refuses(gen[w], last)
                /\ UNCHANGED <<cursor, ok, trouble>>
             \/ /\ ~Refuses(gen[w], last)
                /\ Apply(last)
                /\ ok' = [ok EXCEPT ![w] = TRUE]
                /\ UNCHANGED trouble
             \/ /\ trouble < MaxTrouble
                /\ trouble' = trouble + 1
                /\ UNCHANGED cursor \/ (~Refuses(gen[w], last) /\ Apply(last))
                /\ UNCHANGED ok
    /\ UNCHANGED <<log, commits, state, paused, running, gen, open, over, heard, waits, op>>

Remove(batches) == entry' = [c \in Commits |-> IF c \in batches THEN "none" ELSE entry[c]]

\* Defect: the high water moves whatever the result was.
AppliedAnyway(w, last) ==
    /\ Remove(gen[w])
    /\ mark' = [mark EXCEPT ![QueueOf[last]] = pos[last]]
    /\ retries' = [retries EXCEPT ![QueueOf[last]] = 0]
    /\ UNCHANGED poisoned

SettleApplied(w, last) ==
    /\ ok[w]
    /\ \A c \in gen[w] : entry[c] # "none"
    /\ Remove(gen[w])
    /\ mark' = [mark EXCEPT ![QueueOf[last]] = pos[last]]
    /\ retries' = [retries EXCEPT ![QueueOf[last]] = 0]
    /\ UNCHANGED poisoned

\* The queue of entries changed meanwhile.
SettleChanged(w, last) ==
    /\ ok[w]
    /\ \E c \in gen[w] : entry[c] = "none"
    /\ poisoned' = poisoned \cup {QueueOf[last]}
    /\ UNCHANGED <<entry, mark, retries>>

SettleFailed(w, last) ==
    LET s == QueueOf[last] IN
    /\ ~ok[w]
    /\ retries' = [retries EXCEPT ![s] = @ + 1]
    /\ poisoned' = IF retries[s] + 1 >= RetryThreshold THEN poisoned \cup {s} ELSE poisoned
    /\ UNCHANGED <<entry, mark>>

\* The result, under the state mutex.
Settle(w) ==
    /\ step[w] = "settle"
    /\ \E last \in Commits :
          /\ Last(gen[w], last)
          /\ SettleApplied(w, last) \/ SettleChanged(w, last) \/ SettleFailed(w, last)
    /\ Goto(w, "top")
    /\ gen' = [gen EXCEPT ![w] = {}] /\ ok' = [ok EXCEPT ![w] = FALSE]
    /\ Notify
    /\ UNCHANGED <<log, cursor, commits, id, paused, running, open, over, waits, op, trouble>>

Work(w) ==
    \/ Top(w) \/ Stop(w) \/ ResumeOrReturn(w) \/ Select(w) \/ WindowEnds(w) \/ ApplyLive(w) \/ Settle(w)

-----------------------------------------------------------------------------
(***************************************************************************)
(* wait_for_catch_up and wait_until_covers.                                 *)
(***************************************************************************)
\* The snapshot answers the wait.
Answered(q) ==
    LET s == WaitQueue[q] IN
    \/ s \in poisoned
    \/ q \in Covering /\ Covers(mark[s], target[q])
    \/ q \notin Covering /\ Entries(s) = {}

\* A wait for coverage looks, registers and notifies before its loop.
BeginWait(q) ==
    LET s == WaitQueue[q]
        answered == q \in Covering /\ (s \in poisoned \/ Covers(mark[s], tail[s]))
    IN
    /\ waiter[q] = "idle"
    /\ q \in Covering => tail[s] # None
    /\ target' = [target EXCEPT ![q] = tail[s]]
    /\ waiter' = [waiter EXCEPT ![q] = IF answered THEN "ended" ELSE "look"]
    /\ IF q \in Covering /\ ~answered THEN Notify ELSE UNCHANGED heard
    /\ UNCHANGED <<log, cursor, commits, state, paused, running, worker, op, trouble>>

\* The notification is armed, then the snapshot is read.
Look(q) ==
    /\ waiter[q] = "look"
    /\ waiter' = [waiter EXCEPT ![q] = IF Answered(q) THEN "ended" ELSE "looked"]
    /\ heard' = heard \ {q}
    /\ UNCHANGED <<log, cursor, commits, state, paused, running, worker, target, op, trouble>>

\* The await returns at once when there was a notification since.
Await(q) ==
    /\ \/ waiter[q] = "looked" /\ waiter' = [waiter EXCEPT ![q] = "sleep"]
       \/ waiter[q] = "sleep" /\ q \in heard /\ waiter' = [waiter EXCEPT ![q] = "look"]
    /\ UNCHANGED <<log, cursor, commits, state, paused, running, worker, heard, target, op, trouble>>

\* The deadline of a wait for coverage, or a caller that goes away.
GiveUp(q) ==
    /\ waiter[q] \in {"look", "looked", "sleep"}
    /\ waiter' = [waiter EXCEPT ![q] = "ended"]
    /\ UNCHANGED <<log, cursor, commits, state, paused, running, worker, heard, target, op, trouble>>

Wait(q) == Look(q) \/ Await(q)

-----------------------------------------------------------------------------
(***************************************************************************)
(* The operator: delete_projection and rebuild_projection, and a restart.    *)
(***************************************************************************)
At(place) == operator = place

\* Visit the next queue, and go on when it was the last.
Visit(s, next, queues) ==
    /\ s \in left
    /\ IF left = {s} THEN operator' = next /\ left' = queues
       ELSE left' = left \ {s} /\ UNCHANGED operator

\* No commit is under way, nothing runs and nothing could run.
Drained ==
    /\ \A c \in Commits : commit[c] \in {"idle", "ended"}
    /\ Runnable = {}
    /\ \A w \in Workers : step[w] \notin {"apply", "settle"}

Pause ==
    /\ operator \in {"idle", "failed", "deleted"} /\ trouble < MaxTrouble
    /\ Quiesced => Drained
    /\ paused' = TRUE
    /\ operator' = "drop" /\ left' = Queues
    /\ trouble' = trouble + 1
    /\ UNCHANGED <<log, cursor, commits, state, running, worker, heard, waits>>

\* reset_after_rebuild.
ResetQueue(s, highWater) ==
    /\ entry' = [c \in Commits |-> IF QueueOf[c] = s THEN "none" ELSE entry[c]]
    /\ mark' = [mark EXCEPT ![s] = highWater]
    /\ poisoned' = poisoned \ {s}
    /\ retries' = [retries EXCEPT ![s] = 0]
    /\ Notify
    /\ UNCHANGED id

\* drop_queued_async_apply.
DropQueued(s) ==
    /\ At("drop") /\ Visit(s, "dropped", Queues)
    /\ ResetQueue(s, None)
    /\ UNCHANGED <<log, cursor, commits, paused, running, worker, waits, trouble>>

\* delete_projection empties the projection and leaves apply paused.
Delete ==
    /\ At("dropped") /\ left = Queues
    /\ cursor' = [s \in Queues |-> None]
    /\ operator' = "deleted" /\ left' = {}
    /\ UNCHANGED <<log, commits, state, paused, running, worker, heard, waits, trouble>>

\* recover_async for one queue: the log is replayed from the projection's cursor ...
Replay(s) ==
    /\ At("dropped") /\ Visit(s, "replayed", Queues)
    /\ cursor' = [cursor EXCEPT ![s] = tail[s]]
    /\ UNCHANGED <<log, commits, state, paused, running, worker, heard, waits, trouble>>

\* ... and the high water is seeded if the projection covers the log.
Seed(s) ==
    /\ At("replayed") /\ Visit(s, "seeded", Queues)
    /\ mark' = [mark EXCEPT ![s] = IF cursor[s] = tail[s] THEN cursor[s] ELSE @]
    /\ Notify
    /\ UNCHANGED <<log, cursor, commits, entry, id, poisoned, retries, paused, running, worker, waits, trouble>>

\* The last reset of a rebuild, with what the projection recovered.
ResetRecovered(s) ==
    /\ At("seeded") /\ Visit(s, "reset", {})
    /\ ResetQueue(s, cursor[s])
    /\ UNCHANGED <<log, cursor, commits, paused, running, worker, waits, trouble>>

Resume ==
    /\ At("reset")
    /\ paused' = FALSE
    /\ operator' = "kick" /\ left' = {}
    /\ UNCHANGED <<log, cursor, commits, state, running, worker, heard, waits, trouble>>

KickAfterResume ==
    /\ At("kick")
    /\ operator' = "idle" /\ left' = {}
    /\ KickWorker
    /\ UNCHANGED <<log, cursor, commits, state, paused, heard, waits, trouble>>

\* An error of the log or of the projection ends the call, with apply paused.
RebuildFails ==
    /\ operator \in {"dropped", "replayed", "seeded"} /\ trouble < MaxTrouble
    /\ operator' = "failed" /\ left' = {}
    /\ trouble' = trouble + 1
    /\ UNCHANGED <<log, cursor, commits, state, paused, running, worker, heard, waits>>

Operate ==
    \/ \E s \in Queues : DropQueued(s) \/ Replay(s) \/ Seed(s) \/ ResetRecovered(s)
    \/ Delete \/ Resume \/ KickAfterResume

\* The process ends and starts again: recover_async before it serves.
Reopen ==
    /\ trouble < MaxTrouble
    /\ trouble' = trouble + 1
    /\ cursor' = tail /\ mark' = tail
    /\ commit' = [c \in Commits |-> IF commit[c] = "idle" THEN "idle" ELSE "ended"]
    /\ entry' = [c \in Commits |-> "none"]
    /\ poisoned' = {} /\ retries' = [s \in Queues |-> 0]
    /\ paused' = FALSE /\ running' = FALSE
    /\ step' = [w \in Workers |-> "off"] /\ gen' = [w \in Workers |-> {}] /\ ok' = [w \in Workers |-> FALSE]
    /\ open' = [w \in Workers |-> {}] /\ over' = [w \in Workers |-> {}] /\ heard' = {}
    /\ waiter' = [q \in Waiters |-> IF waiter[q] = "idle" THEN "idle" ELSE "ended"]
    /\ operator' = "idle" /\ left' = {}
    /\ UNCHANGED <<log, pos, id, target>>

-----------------------------------------------------------------------------
\* What goes on by itself once it was started.
Progress ==
    \/ \E c \in Commits : Publish(c)
    \/ \E w \in Workers : Work(w)
    \/ \E q \in Waiters : Wait(q)
    \/ Operate

Next ==
    \/ Progress
    \/ \E c \in Commits : Reserve(c)
    \/ \E s \in Queues : NewEpoch(s)
    \/ \E q \in Waiters : BeginWait(q) \/ GiveUp(q)
    \/ Pause \/ RebuildFails \/ Reopen

Spec == Init /\ [][Next]_vars

\* The tasks of a process do not stop while one of them can go on.
FairSpec == Spec /\ WF_vars(Progress)

-----------------------------------------------------------------------------
Active == {"top", "select", "window", "idle", "halt", "apply", "settle"}

\* At most one task applies, however kicks, pauses, resumes and the worker's own
\* second look interleave: whoever is between its start and its end owns
\* worker_running, and a set flag has an owner that will look again.
OneApply ==
    /\ \A v, w \in Workers : step[v] \in Active /\ step[w] \in Active => v = w
    /\ running <=> \E w \in Workers : step[w] \in Active

\* The high water that answers coverage waits names a command that the projection
\* has applied, after errors, retries, deletion and recovery.
HighWaterApplied ==
    \A s \in Queues : mark[s].seq <= cursor[s].seq /\ cursor[s].seq <= tail[s].seq

\* The batches that w hands to the projection continue what it has, none left out.
Ordered(w) == ~Gap(gen[w])

\* Batches are handed to the projection in log order, whatever the order in which
\* commits publish them: "batch N+1 MUST NOT apply [...] until batch N has fully applied"
\* (TD-004).
NoGap == \A w \in Workers : step[w] = "apply" => Ordered(w)

\* The same within one epoch of a queue whose high water is known: a batch that
\* was published early is held until the ones before it were.
NoGapWithinEpoch ==
    \A w \in Workers :
        /\ step[w] = "apply"
        /\ \A c \in gen[w] : mark[QueueOf[c]].epoch = pos[c].epoch
        => Ordered(w)

\* No published command is forgotten: it is in the projection, it waits for the
\* worker, or its queue is poisoned and says so.
NothingForgotten ==
    \A c \in Commits :
        pos[c] # None /\ commit[c] \in {"kick", "ended"} /\ At("idle") =>
            \/ pos[c].seq <= cursor[QueueOf[c]].seq
            \/ entry[c] = "Ready"
            \/ QueueOf[c] \in poisoned

\* Apply is paused for good: the operator has to act again.
Parked == operator \in {"failed", "deleted"}

\* Every published batch leaves the queue, or its queue is poisoned: no kick is
\* lost against a worker that is about to stop, a pause or a join window.
PublishedApplied ==
    \A c \in Commits : entry[c] = "Ready" ~> entry[c] # "Ready" \/ QueueOf[c] \in poisoned \/ Parked

\* Every wait for the projection ends, without its deadline: no notification is
\* lost between the snapshot and the await.
EveryWaitEnds ==
    \A q \in Waiters : waiter[q] \in {"look", "looked", "sleep"} ~> waiter[q] = "ended" \/ Parked

=============================================================================
