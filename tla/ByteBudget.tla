----------------------------- MODULE ByteBudget -----------------------------
(***************************************************************************)
(* BufferedByteBudget of fireweed-engine/src/byte_admission.rs: a byte       *)
(* budget for the node with an optional hard share per tenant, admission in  *)
(* order with a bounded number of bypasses, permits that give their bytes    *)
(* back when they are dropped.                                              *)
(*                                                                         *)
(* A critical section of the mutex is one step, or, if it ends in a loop     *)
(* (grant_waiters, close), one step and one for each turn of the loop; until *)
(* the loop ends nobody else gets the mutex.  The id of a waiter is the      *)
(* acquire future that registered it.  Statistics are left out.              *)
(***************************************************************************)
EXTENDS Integers, FiniteSets, Units

CONSTANTS
    Futures,       \* the callers, each with at most one acquire or permit
    Requests,      \* the requests they may make, each of a tenant and a number of bytes
    GlobalLimit,   \* global_limit
    TenantLimit,   \* tenant_limit; GlobalLimit stands for None
    MaxBypasses,   \* MAX_BYPASSES, 8 in the code
    BypassLimit    \* where the counter of bypasses saturates, u8::MAX in the code

ASSUME BudgetAssumption ==
    /\ \A r \in Requests : r.bytes \in Nat
    /\ GlobalLimit \in Nat \ {0} /\ TenantLimit \in 1..GlobalLimit
    /\ MaxBypasses \in Nat /\ BypassLimit \in Nat /\ MaxBypasses <= BypassLimit

VARIABLES
    section,   \* what is left to do for the thread that holds the mutex
    broken,    \* an expect failed while the mutex was held, which poisons it
    closed,
    charged,
    share,     \* tenant_charged, 0 for a tenant without an entry
    entries,   \* the tenants that have an entry in it
    waiters,
    ahead,     \* of each waiter: those before it in the deque
    granted,   \* the waiters whose bytes are charged
    bypasses,
    at,        \* where each caller is
    req,       \* the tenant and the bytes of its request
    woken      \* the tasks that the executor is going to poll

charges == <<broken, charged, share, entries>>
line == <<waiters, ahead, granted, bypasses>>
vars == <<section, closed, charges, line, at, req, woken>>

Places == {"idle", "new", "waiting", "permit"}
Tenants == {r.tenant : r \in Requests}
NoRequest == [tenant |-> "none", bytes |-> 0]

Init ==
    /\ section = "free" /\ broken = FALSE /\ closed = FALSE
    /\ charged = 0 /\ share = [t \in Tenants |-> 0] /\ entries = {}
    /\ waiters = {} /\ granted = {}
    /\ ahead = [f \in Futures |-> {}] /\ bypasses = [f \in Futures |-> 0]
    /\ at = [f \in Futures |-> "idle"]
    /\ req = [f \in Futures |-> NoRequest]
    /\ woken = {}

-----------------------------------------------------------------------------
\* The mutex can be taken.
Free == section = "free" /\ ~broken

\* validate_request
Valid(r) == r.bytes <= GlobalLimit /\ r.bytes <= TenantLimit

FitsGlobal(r) == charged + r.bytes <= GlobalLimit

FitsTenant(r) == share[r.tenant] + r.bytes <= TenantLimit

Fits(r) == FitsGlobal(r) /\ FitsTenant(r)

Charge(r) ==
    /\ charged' = charged + r.bytes
    /\ share' = [share EXCEPT ![r.tenant] = @ + r.bytes]
    /\ entries' = entries \cup {r.tenant}
    /\ UNCHANGED broken

\* An expect of uncharge fails.
Missing(r) == charged < r.bytes \/ r.tenant \notin entries \/ share[r.tenant] < r.bytes

\* Defect: the entry of a tenant goes although it has bytes left.
UnchargeDropsEntry(r) ==
    /\ broken' = Missing(r)
    /\ IF Missing(r) THEN UNCHANGED <<charged, share, entries>>
       ELSE /\ charged' = charged - r.bytes
            /\ share' = [share EXCEPT ![r.tenant] = 0]
            /\ entries' = entries \ {r.tenant}

\* uncharge, and the same statements in close.
Uncharge(r) ==
    /\ broken' = Missing(r)
    /\ IF Missing(r) THEN UNCHANGED <<charged, share, entries>>
       ELSE /\ charged' = charged - r.bytes
            /\ share' = [share EXCEPT ![r.tenant] = @ - r.bytes]
            /\ entries' = IF share[r.tenant] = r.bytes THEN entries \ {r.tenant} ELSE entries

\* push_back
Join(f) ==
    /\ waiters' = waiters \cup {f}
    /\ ahead' = [ahead EXCEPT ![f] = waiters]
    /\ UNCHANGED <<granted, bypasses>>

\* remove
Leave(f) ==
    /\ waiters' = waiters \ {f}
    /\ ahead' = [g \in Futures |-> IF g = f THEN {} ELSE ahead[g] \ {f}]
    /\ granted' = granted \ {f}
    /\ bypasses' = [bypasses EXCEPT ![f] = 0]

\* The caller moves on; an idle one has no request.
Settle(f, place) ==
    /\ at' = [at EXCEPT ![f] = place]
    /\ req' = IF place = "idle" THEN [req EXCEPT ![f] = NoRequest] ELSE req

-----------------------------------------------------------------------------
\* acquire: the future registers nothing before its first poll.
Ask(f, r) ==
    /\ at[f] = "idle"
    /\ at' = [at EXCEPT ![f] = "new"]
    /\ req' = [req EXCEPT ![f] = r]
    /\ woken' = woken \cup {f}
    /\ UNCHANGED <<section, closed, charges, line>>

\* try_acquire, when it succeeds; otherwise it changes only statistics.
TryAcquire(f, r) ==
    /\ Free
    /\ at[f] = "idle"
    /\ Valid(r) /\ ~closed /\ waiters = {} /\ Fits(r)
    /\ Charge(r)
    /\ at' = [at EXCEPT ![f] = "permit"]
    /\ req' = [req EXCEPT ![f] = r]
    /\ UNCHANGED <<section, closed, line, woken>>

\* ByteBudgetAcquire::poll before it has registered a waiter.
FirstPoll(f) ==
    /\ Free
    /\ at[f] = "new"
    /\ woken' = woken \ {f}
    /\ \/ /\ ~Valid(req[f]) \/ closed
          /\ Settle(f, "idle")
          /\ UNCHANGED <<section, charges, line>>
       \/ /\ Valid(req[f]) /\ ~closed
          /\ waiters = {} /\ Fits(req[f])
          /\ Charge(req[f])
          /\ Settle(f, "permit")
          /\ UNCHANGED <<section, line>>
       \/ /\ Valid(req[f]) /\ ~closed
          /\ waiters # {} \/ ~Fits(req[f])
          /\ Join(f)
          /\ section' = "grant"
          /\ Settle(f, "waiting")
          /\ UNCHANGED charges
    /\ UNCHANGED closed

\* ByteBudgetAcquire::poll with a registered waiter.  close has taken the
\* waiters of a closed budget, so there is none left to remove.
PollAgain(f) ==
    /\ Free
    /\ at[f] = "waiting"
    /\ woken' = woken \ {f}
    /\ \/ /\ closed
          /\ Settle(f, "idle")
          /\ UNCHANGED <<section, line>>
       \/ /\ ~closed /\ f \in granted
          /\ Leave(f)
          /\ section' = "grant"
          /\ Settle(f, "permit")
       \/ /\ ~closed /\ f \notin granted
          /\ UNCHANGED <<section, line, at, req>>
    /\ UNCHANGED <<closed, charges>>

Poll(f) == FirstPoll(f) \/ PollAgain(f)

\* Drop for ByteBudgetAcquire of a future that has not registered.
DropNew(f) ==
    /\ at[f] = "new"
    /\ Settle(f, "idle")
    /\ woken' = woken \ {f}
    /\ UNCHANGED <<section, closed, charges, line>>

\* Defect: the departure of a waiter does not look for requests to grant.
DropGrantsNobody(f) ==
    /\ Free
    /\ at[f] = "waiting"
    /\ Settle(f, "idle")
    /\ woken' = woken \ {f}
    /\ \/ f \notin waiters /\ UNCHANGED <<charges, line>>
       \/ f \in waiters /\ f \notin granted /\ Leave(f) /\ UNCHANGED charges
       \/ f \in waiters /\ f \in granted /\ Leave(f) /\ Uncharge(req[f])
    /\ UNCHANGED <<section, closed>>

\* Drop for ByteBudgetAcquire: the caller gives up a registered request.
Drop(f) ==
    /\ Free
    /\ at[f] = "waiting"
    /\ Settle(f, "idle")
    /\ woken' = woken \ {f}
    /\ \/ f \notin waiters /\ UNCHANGED <<section, charges, line>>
       \/ f \in waiters /\ f \notin granted /\ Leave(f) /\ section' = "grant" /\ UNCHANGED charges
       \/ f \in waiters /\ f \in granted /\ Leave(f) /\ section' = "grant" /\ Uncharge(req[f])
    /\ UNCHANGED closed

\* Drop for OwnedBytePermit, release.
Release(f) ==
    /\ Free
    /\ at[f] = "permit"
    /\ Settle(f, "idle")
    /\ Uncharge(req[f])
    /\ section' = "grant"
    /\ UNCHANGED <<closed, line, woken>>

-----------------------------------------------------------------------------
\* Defect: requests do not age.
AgedGlobalNever == FALSE

\* An aged request lacks global capacity: nobody passes it any more.
AgedGlobal ==
    \E f \in waiters \ granted : bypasses[f] >= MaxBypasses /\ ~FitsGlobal(req[f])

\* Defect: a younger request that fits passes an older one of its tenant.
GrantableAnyOrder(f) == f \in waiters \ granted /\ Fits(req[f])

\* The request fits and no older one of its tenant waits.
Grantable(f) ==
    /\ f \in waiters \ granted /\ Fits(req[f])
    /\ \A g \in ahead[f] \ granted : req[g].tenant # req[f].tenant

\* saturating_add(1)
Aged(n) == IF n < BypassLimit THEN n + 1 ELSE n

\* A turn of the loop of grant_waiters: the oldest request that can be granted is.
GrantOldest(f) ==
    /\ section = "grant" /\ ~broken
    /\ ~AgedGlobal
    /\ Grantable(f) /\ \A g \in ahead[f] : ~Grantable(g)
    /\ granted' = granted \cup {f}
    /\ bypasses' = [g \in Futures |-> IF g \in ahead[f] \ granted THEN Aged(bypasses[g]) ELSE bypasses[g]]
    /\ Charge(req[f])
    /\ woken' = woken \cup {f}
    /\ UNCHANGED <<section, closed, waiters, ahead, at, req>>

\* The loop of grant_waiters breaks, and the mutex is unlocked.
GrantsEnd ==
    /\ section = "grant" /\ ~broken
    /\ AgedGlobal \/ \A f \in waiters : ~Grantable(f)
    /\ section' = "free"
    /\ UNCHANGED <<closed, charges, line, at, req, woken>>

\* close: takes every waiter.
Close ==
    /\ Free
    /\ closed' = TRUE
    /\ section' = "close"
    /\ UNCHANGED <<charges, line, at, req, woken>>

\* Defect: close forgets the charge of a granted request.
CloseOldestKeepsGrant(f) ==
    /\ section = "close" /\ ~broken
    /\ f \in waiters /\ ahead[f] = {}
    /\ Leave(f)
    /\ woken' = woken \cup {f}
    /\ UNCHANGED <<section, closed, charges, at, req>>

\* A turn of the loop of close: what was granted is given back, and who still
\* has a waker, which a grant takes, is woken.
CloseOldest(f) ==
    /\ section = "close" /\ ~broken
    /\ f \in waiters /\ ahead[f] = {}
    /\ Leave(f)
    /\ \/ f \in granted /\ Uncharge(req[f]) /\ UNCHANGED woken
       \/ f \notin granted /\ woken' = woken \cup {f} /\ UNCHANGED charges
    /\ UNCHANGED <<section, closed, at, req>>

CloseEnds ==
    /\ section = "close" /\ ~broken
    /\ waiters = {}
    /\ section' = "free"
    /\ UNCHANGED <<closed, charges, line, at, req, woken>>

\* What the thread with the mutex does next.
Proceed == (\E f \in Futures : GrantOldest(f) \/ CloseOldest(f)) \/ GrantsEnd \/ CloseEnds

Next ==
    \/ \E f \in Futures, r \in Requests : Ask(f, r) \/ TryAcquire(f, r)
    \/ \E f \in Futures : Poll(f) \/ DropNew(f) \/ Drop(f) \/ Release(f)
    \/ Close
    \/ Proceed

Spec == Init /\ [][Next]_vars

\* A woken task is polled and a permit is dropped in the end, for which their
\* thread gets the mutex if it becomes free again and again; who has the mutex
\* goes on.  Nobody is made to ask, to give up or to close.
Fairness ==
    /\ WF_vars(Proceed)
    /\ \A f \in Futures : SF_vars((f \in woken /\ Poll(f)) \/ Release(f))

FairSpec == Spec /\ Fairness

-----------------------------------------------------------------------------
\* The type of the state, with the limits: the bytes charged never exceed the
\* budget of the node, nor those of a tenant its share (fits before charge).
TypeOK ==
    /\ section \in {"free", "grant", "close"} /\ broken \in BOOLEAN /\ closed \in BOOLEAN
    /\ charged \in 0..GlobalLimit /\ share \in [Tenants -> 0..TenantLimit] /\ entries \subseteq Tenants
    /\ waiters \subseteq Futures /\ granted \subseteq waiters
    /\ ahead \in [Futures -> SUBSET Futures] /\ bypasses \in [Futures -> 0..BypassLimit]
    /\ at \in [Futures -> Places] /\ req \in [Futures -> Requests \cup {NoRequest}]
    /\ woken \subseteq Futures

\* No expect of uncharge and close fails: a release finds the charge and the
\* entry of its tenant that the acquire made.  A failure would poison the mutex
\* and every later call would panic.
NothingBroken == ~broken

\* Those whose bytes are charged: the permits and the granted requests.
Admitted == {f \in Futures : at[f] = "permit"} \cup granted

\* The bytes that each of some callers holds.
Load(callers, requests) == [f \in Futures |-> IF f \in callers THEN requests[f].bytes ELSE 0]

Of(t) == {f \in Admitted : req[f].tenant = t}

\* Whatever grants, cancellations and closes interleave, the bytes charged are
\* those of the permits and of the granted requests, for the node and for each
\* tenant: nothing leaks and nothing is given back twice, and both limits hold.
Conserved ==
    /\ TypeOK
    /\ charged = Cardinality(Units(Load(Admitted, req)))
    /\ \A t \in Tenants : share[t] = Cardinality(Units(Load(Of(t), req)))

\* Capacity is never stranded: whenever the mutex is free the oldest waiter of a
\* tenant does not fit, except while an aged request reserves the budget.
\* (grant_waiters runs after every change that could make a request fit.)
NoStrandedCapacity ==
    section = "free" /\ ~AgedGlobal => \A f \in waiters : ~Grantable(f)

\* The requests of a tenant are admitted in the order they registered: while one
\* waits no other of its tenant that is behind it, or that has not registered,
\* gets bytes (grant_waiters, and the empty queue that try_acquire asks for).
TenantOrder ==
    [][\A f, g \in Futures :
         /\ f \in waiters \ granted /\ f \in waiters' \ granted'
         /\ g \notin Admitted /\ g \in Admitted' /\ req'[g].tenant = req[f].tenant
         => g \in waiters /\ g \in ahead[f]]_vars

\* No request starves, however many smaller ones keep arriving: a caller that
\* waits for bytes is admitted, refused or gone in the end (the ageing of
\* grant_waiters; every grant wakes its task).
NoStarvation == \A f \in Futures : at[f] \in {"new", "waiting"} ~> at[f] \notin {"new", "waiting"}
=============================================================================
