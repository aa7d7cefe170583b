----------------------------- MODULE KeyedGate ------------------------------
(***************************************************************************)
(* KeyedQueueGate of fireweed-engine/src/async_commit.rs: bounded,          *)
(* cancellation-safe serialization of the operations of one key.            *)
(*                                                                         *)
(* Every critical section of the central mutex is one step.  An acquire is  *)
(* a future: it registers on its first poll, is polled again when its waker  *)
(* fires (or for no reason at all), and may be dropped at any point.  The    *)
(* id of a waiter is the future that registered it.                         *)
(***************************************************************************)
EXTENDS Integers, Sequences, FiniteSets

CONSTANTS
    Futures,     \* the callers, each with at most one acquire at a time
    Keys,        \* the queues
    MaxQueued,   \* max_queued
    MaxPerKey    \* max_per_key: the permit and the waiters of one key

ASSUME GateAssumption == MaxQueued \in Nat /\ MaxPerKey \in Nat \ {0}

VARIABLES
    closed,
    queued,    \* the count of waiters over all keys
    active,    \* the keys that have a QueueEntry
    line,      \* the waiters of each QueueEntry, oldest first
    status,    \* the WaiterStatus of each registered waiter, "none" for no waiter
    waker,     \* the waiters whose waker is stored
    at,        \* where each caller is
    key,       \* the key of its acquire
    woken      \* the tasks that the executor is going to poll

gate == <<closed, queued, active, line, status, waker>>
vars == <<closed, queued, active, line, status, waker, at, key, woken>>

Places == {"idle", "new", "waiting", "permit"}
WaiterStatus == {"Waiting", "Granted", "Closed"}

Init ==
    /\ closed = FALSE /\ queued = 0 /\ active = {}
    /\ line = [k \in Keys |-> <<>>]
    /\ status = [f \in Futures |-> "none"]
    /\ waker = {} /\ woken = {}
    /\ at = [f \in Futures |-> "idle"]
    /\ key \in [Futures -> Keys]

\* s without its i-th element
Without(s, i) == [j \in 1..(Len(s) - 1) |-> IF j < i THEN s[j] ELSE s[j + 1]]

\* saturating_sub(1)
Decremented(n) == IF n = 0 THEN 0 ELSE n - 1

-----------------------------------------------------------------------------
\* Defect: the successor is granted the key but its task is not woken.
ReleaseUnwoken(f) ==
    LET k == key[f] IN
    \/ /\ line[k] # <<>>
       /\ line' = [line EXCEPT ![k] = Tail(@)]
       /\ queued' = Decremented(queued)
       /\ status' = [status EXCEPT ![f] = "none", ![Head(line[k])] = "Granted"]
       /\ waker' = waker \ {Head(line[k])}
       /\ woken' = woken \ {f}
       /\ UNCHANGED active
    \/ /\ line[k] = <<>>
       /\ active' = active \ {k}
       /\ status' = [status EXCEPT ![f] = "none"]
       /\ woken' = woken \ {f}
       /\ UNCHANGED <<line, queued, waker>>

\* Defect: the key passes to the youngest waiter.
ReleaseToYoungest(f) ==
    LET k == key[f]
        n == Len(line[k])
    IN
    \/ /\ line[k] # <<>>
       /\ line' = [line EXCEPT ![k] = SubSeq(@, 1, n - 1)]
       /\ queued' = Decremented(queued)
       /\ status' = [status EXCEPT ![f] = "none", ![line[k][n]] = "Granted"]
       /\ waker' = waker \ {line[k][n]}
       /\ woken' = (woken \ {f}) \cup (waker \cap {line[k][n]})
       /\ UNCHANGED active
    \/ /\ line[k] = <<>>
       /\ active' = active \ {k}
       /\ status' = [status EXCEPT ![f] = "none"]
       /\ woken' = woken \ {f}
       /\ UNCHANGED <<line, queued, waker>>

\* release_key_locked for the key that f leaves: it passes to the oldest waiter,
\* whose waker fires, or its entry is removed.  f is no waiter afterwards.
ReleaseKeyLocked(f) ==
    LET k == key[f] IN
    \/ /\ line[k] # <<>>
       /\ line' = [line EXCEPT ![k] = Tail(@)]
       /\ queued' = Decremented(queued)
       /\ status' = [status EXCEPT ![f] = "none", ![Head(line[k])] = "Granted"]
       /\ waker' = waker \ {Head(line[k])}
       /\ woken' = (woken \ {f}) \cup (waker \cap {Head(line[k])})
       /\ UNCHANGED active
    \/ /\ line[k] = <<>>
       /\ active' = active \ {k}
       /\ status' = [status EXCEPT ![f] = "none"]
       /\ woken' = woken \ {f}
       /\ UNCHANGED <<line, queued, waker>>

\* acquire: nothing is registered before the first poll.
Acquire(f, k) ==
    /\ at[f] = "idle"
    /\ at' = [at EXCEPT ![f] = "new"]
    /\ key' = [key EXCEPT ![f] = k]
    /\ woken' = woken \cup {f}
    /\ UNCHANGED gate

\* The poll returns Ready with an error: Closed, PerKeyFull or QueueFull.
Refused(f) ==
    /\ at' = [at EXCEPT ![f] = "idle"]
    /\ woken' = woken \ {f}
    /\ UNCHANGED key

\* Defect: a key is taken to be free when nobody waits for it.
AvailableUnlessQueued(f) == line[key[f]] = <<>>

Available(f) == key[f] \notin active

PerKeyFull(f) == 1 + Len(line[key[f]]) >= MaxPerKey

QueueFull == queued >= MaxQueued

FirstPoll(f) ==
    /\ at[f] = "new"
    /\ \/ /\ closed \/ (~Available(f) /\ (PerKeyFull(f) \/ QueueFull))
          /\ Refused(f)
          /\ UNCHANGED gate
       \/ /\ ~closed /\ Available(f)
          /\ active' = active \cup {key[f]}
          /\ at' = [at EXCEPT ![f] = "permit"]
          /\ woken' = woken \ {f}
          /\ UNCHANGED <<closed, queued, line, status, waker, key>>
       \/ /\ ~closed /\ ~Available(f) /\ ~PerKeyFull(f) /\ ~QueueFull
          /\ line' = [line EXCEPT ![key[f]] = Append(@, f)]
          /\ queued' = queued + 1
          /\ status' = [status EXCEPT ![f] = "Waiting"]
          /\ waker' = waker \cup {f}
          /\ at' = [at EXCEPT ![f] = "waiting"]
          /\ woken' = woken \ {f}
          /\ UNCHANGED <<closed, active, key>>

PollAgain(f) ==
    /\ at[f] = "waiting"
    /\ \/ /\ status[f] = "Waiting"
          /\ waker' = waker \cup {f}
          /\ woken' = woken \ {f}
          /\ UNCHANGED <<closed, queued, active, line, status, at, key>>
       \/ /\ status[f] = "Granted"
          /\ status' = [status EXCEPT ![f] = "none"]
          /\ at' = [at EXCEPT ![f] = "permit"]
          /\ woken' = woken \ {f}
          /\ UNCHANGED <<closed, queued, active, line, waker, key>>
       \/ /\ status[f] = "Closed"
          /\ status' = [status EXCEPT ![f] = "none"]
          /\ Refused(f)
          /\ UNCHANGED <<closed, queued, active, line, waker>>

Poll(f) == FirstPoll(f) \/ PollAgain(f)

\* Defect: a waiter that gave up stays counted.
LeaveLineCounted(f) ==
    /\ \E i \in 1..Len(line[key[f]]) :
          /\ line[key[f]][i] = f
          /\ line' = [line EXCEPT ![key[f]] = Without(@, i)]
    /\ status' = [status EXCEPT ![f] = "none"]
    /\ waker' = waker \ {f}
    /\ woken' = woken \ {f}
    /\ UNCHANGED <<queued, active>>

\* A waiter that leaves without the key: it is taken out of the line.
LeaveLine(f) ==
    /\ \E i \in 1..Len(line[key[f]]) :
          /\ line[key[f]][i] = f
          /\ line' = [line EXCEPT ![key[f]] = Without(@, i)]
    /\ queued' = Decremented(queued)
    /\ status' = [status EXCEPT ![f] = "none"]
    /\ waker' = waker \ {f}
    /\ woken' = woken \ {f}
    /\ UNCHANGED active

\* A future that has no waiter, or one that close already took out of the line.
LeaveNothing(f) ==
    /\ status' = [status EXCEPT ![f] = "none"]
    /\ woken' = woken \ {f}
    /\ UNCHANGED <<queued, active, line, waker>>

\* Drop of a QueueGateAcquire.  A future that was granted the key and never
\* polled hands it on.
Drop(f) ==
    /\ at[f] \in {"new", "waiting"}
    /\ at' = [at EXCEPT ![f] = "idle"]
    /\ \/ status[f] \in {"none", "Closed"} /\ LeaveNothing(f)
       \/ status[f] = "Waiting" /\ LeaveLine(f)
       \/ status[f] = "Granted" /\ ReleaseKeyLocked(f)
    /\ UNCHANGED <<closed, key>>

\* Drop of a QueueGatePermit.
Release(f) ==
    /\ at[f] = "permit"
    /\ at' = [at EXCEPT ![f] = "idle"]
    /\ ReleaseKeyLocked(f)
    /\ UNCHANGED <<closed, key>>

\* The waiters of every line, which are the ones with status Waiting.
Queued == {f \in Futures : \E k \in active : \E i \in 1..Len(line[k]) : line[k][i] = f}

\* close: every queued waiter is cancelled and woken.  Permits, and waiters that
\* were granted a key, drain.
Close ==
    /\ closed' = TRUE
    /\ queued' = 0
    /\ line' = [k \in Keys |-> <<>>]
    /\ status' = [f \in Futures |-> IF f \in Queued THEN "Closed" ELSE status[f]]
    /\ waker' = waker \ Queued
    /\ woken' = woken \cup (waker \cap Queued)
    /\ UNCHANGED <<active, at, key>>

Next ==
    \/ \E f \in Futures, k \in Keys : Acquire(f, k)
    \/ \E f \in Futures : Poll(f) \/ Drop(f) \/ Release(f)
    \/ Close

Spec == Init /\ [][Next]_vars

-----------------------------------------------------------------------------
\* The gate's state has its type: the counters stay within their limits.
TypeOK ==
    /\ closed \in BOOLEAN
    /\ queued \in 0..MaxQueued
    /\ active \subseteq Keys
    /\ line \in [Keys -> Seq(Futures)]
    /\ status \in [Futures -> WaiterStatus \cup {"none"}]
    /\ waker \subseteq Futures /\ woken \subseteq Futures
    /\ at \in [Futures -> Places]
    /\ key \in [Futures -> Keys]

\* The key belongs to f: as a permit, or as a grant that f has not polled yet.
Owns(f, k) == key[f] = k /\ (at[f] = "permit" \/ status[f] = "Granted")

\* The owners and their keys.
Holding == {f \in Futures : at[f] = "permit" \/ status[f] = "Granted"}
Pairs == {<<f, key[f]>> : f \in Holding}

\* The gate is a lock per key: KeyLock is what its users rely on.
Lock == INSTANCE KeyLock WITH Callers <- Futures, owners <- Pairs

\* Every step of the gate takes, hands over or gives back at most one key, and
\* takes it only when it is free.
IsLock == Lock!Spec

\* At most one caller owns a key, over every order of grants, drops, hand-overs
\* and a close, and a key has an entry exactly as long as someone owns it: a
\* granted future that is dropped neither leaks the key nor lets two callers in.
OneOwner ==
    \A k \in Keys :
        /\ \A f, g \in Futures : Owns(f, k) /\ Owns(g, k) => f = g
        /\ k \in active <=> \E f \in Futures : Owns(f, k)

\* The global count is the number of waiters in the lines whatever was granted,
\* dropped or closed meanwhile (a count that drifts up refuses callers for ever),
\* and no key retains more than max_per_key callers.
QueuedExact ==
    /\ TypeOK
    /\ queued = Cardinality({f \in Futures : status[f] = "Waiting"})
    /\ \A k \in active : 1 + Len(line[k]) <= MaxPerKey

\* f waits for its key in front of g.
Ahead(f, g) ==
    \E k \in Keys : \E i, j \in 1..Len(line[k]) : i < j /\ line[k][i] = f /\ line[k][j] = g

\* Serialization is first come, first served: no step gives the key to a waiter
\* while an older one keeps waiting for it.
NoOvertaking ==
    [][\A f, g \in Futures : Ahead(f, g) /\ status'[f] = "Waiting" => status'[g] # "Granted"]_vars

=============================================================================
