-------------------------- MODULE ByteBudgetProofs --------------------------
(***************************************************************************)
(* The byte budget for any number of callers and tenants and any limits, if  *)
(* nobody asks for no bytes: no assertion fails under its mutex, the bytes   *)
(* charged are those that callers hold, no capacity is stranded, and a       *)
(* tenant is served in order.                                                *)
(*                                                                         *)
(* The inductive invariant has four parts: Callers, the types of the callers *)
(* and their requests; Deque, the waiters and their order; Books, what the   *)
(* counters are; and Control, what the thread with the mutex has left to do. *)
(***************************************************************************)
EXTENDS ByteBudget, UnitsProofs

\* Run bytes_zero shows why this is needed.
NonEmpty == \A r \in Requests : r.bytes > 0

Asking == [Futures -> Requests \cup {NoRequest}]

-----------------------------------------------------------------------------
(***************************************************************************)
(* What callers hold together.                                               *)
(***************************************************************************)
LEMMA RequestBytes == \A r \in Requests \cup {NoRequest} : r.bytes \in Nat
BY BudgetAssumption DEF NoRequest

LEMMA LoadFacts ==
    ASSUME NEW S, NEW q \in Asking
    PROVE  /\ Load(S, q) \in [Futures -> Nat]
           /\ \A f \in Futures : f \in S => Load(S, q)[f] = q[f].bytes
           /\ \A f \in Futures : f \notin S => Load(S, q)[f] = 0
<1>1. \A f \in Futures : q[f].bytes \in Nat
  BY RequestBytes DEF Asking
<1>2. \A f \in Futures : (IF f \in S THEN q[f].bytes ELSE 0) \in Nat
  BY <1>1
<1> QED
  BY <1>2 DEF Load

\* The number of bytes that callers hold, and that it is a number.
Held(S, q, n) == IsFiniteSet(Units(Load(S, q))) /\ n = Cardinality(Units(Load(S, q)))

\* One caller more holds its bytes.
LEMMA LoadJoins ==
    ASSUME NEW S, NEW q \in Asking, NEW r \in Asking, NEW f \in Futures, f \notin S,
           \A g \in S : r[g] = q[g], NEW n \in Nat, Held(S, q, n)
    PROVE  Held(S \cup {f}, r, n + r[f].bytes)
<1> DEFINE w == Load(S, q)
           u == Load(S \cup {f}, r)
<1>1. w \in [Futures -> Nat] /\ w[f] = 0
  BY LoadFacts
<1>2. u \in [Futures -> Nat] /\ u[f] = r[f].bytes
  BY LoadFacts
<1>3. ASSUME NEW g \in Futures \ {f} PROVE u[g] = w[g]
  <2>1. CASE g \in S
    BY <1>3, <2>1, LoadFacts
  <2>2. CASE g \notin S
    BY <1>3, <2>2, LoadFacts
  <2> QED
    BY <2>1, <2>2
<1>4. IsFiniteSet(Units(w)) /\ n = Cardinality(Units(w))
  BY Zenon DEF Held
<1> HIDE DEF w, u
<1>5. /\ IsFiniteSet(Units(u))
      /\ \E rest \in Nat : Rest(w, f, rest) /\ Rest(u, f, rest)
  BY <1>1, <1>2, <1>3, <1>4, UnitsChange, Zenon
<1> DEFINE b == r[f].bytes
           m == Cardinality(Units(u))
<1>6. \E rest \in Nat : n = 0 + rest /\ m = b + rest
  BY <1>1, <1>2, <1>4, <1>5, Zenon DEF Rest
<1>7. b \in Nat
  BY <1>2
<1> HIDE DEF b, m
<1>8. m = n + b
  BY <1>6, <1>7
<1> QED
  BY <1>5, <1>8, Zenon DEF Held, u, b, m

\* A caller that leaves takes its bytes away, and they were there.
LEMMA LoadLeaves ==
    ASSUME NEW S, NEW q \in Asking, NEW r \in Asking, NEW f \in Futures, f \in S,
           \A g \in S \ {f} : r[g] = q[g], NEW n \in Nat, Held(S, q, n)
    PROVE  q[f].bytes =< n /\ Held(S \ {f}, r, n - q[f].bytes)
<1> DEFINE w == Load(S, q)
           u == Load(S \ {f}, r)
<1>1. w \in [Futures -> Nat] /\ w[f] = q[f].bytes
  BY LoadFacts
<1>2. u \in [Futures -> Nat] /\ u[f] = 0
  BY LoadFacts
<1>3. ASSUME NEW g \in Futures \ {f} PROVE u[g] = w[g]
  <2>1. CASE g \in S
    BY <1>3, <2>1, LoadFacts
  <2>2. CASE g \notin S
    BY <1>3, <2>2, LoadFacts
  <2> QED
    BY <2>1, <2>2
<1>4. IsFiniteSet(Units(w)) /\ n = Cardinality(Units(w))
  BY Zenon DEF Held
<1> HIDE DEF w, u
<1>5. /\ IsFiniteSet(Units(u))
      /\ \E rest \in Nat : Rest(w, f, rest) /\ Rest(u, f, rest)
  BY <1>1, <1>2, <1>3, <1>4, UnitsChange, Zenon
<1> DEFINE b == q[f].bytes
           m == Cardinality(Units(u))
<1>6. \E rest \in Nat : n = b + rest /\ m = 0 + rest
  BY <1>1, <1>2, <1>4, <1>5, Zenon DEF Rest
<1>7. b \in Nat
  BY <1>1
<1> HIDE DEF b, m
<1>8. m = n - b /\ b =< n
  BY <1>6, <1>7
<1> QED
  BY <1>5, <1>8, Zenon DEF Held, u, b, m

\* Others do not matter.
LEMMA LoadSame ==
    ASSUME NEW S, NEW q \in Asking, NEW r \in Asking,
           \A g \in S : r[g] = q[g], NEW n, Held(S, q, n)
    PROVE  Held(S, r, n)
<1>1. Load(S, r) = Load(S, q)
  BY DEF Load
<1> QED
  BY <1>1, Zenon DEF Held
-----------------------------------------------------------------------------
(***************************************************************************)
(* The inductive invariant.                                                  *)
(***************************************************************************)
\* Who is not idle has a request.
Callers ==
    /\ at \in [Futures -> Places] /\ req \in Asking /\ woken \subseteq Futures
    /\ \A f \in Futures : at[f] # "idle" => req[f] \in Requests

\* The waiters, who are all waiting, are in one order.
Deque ==
    /\ waiters \subseteq Futures /\ granted \subseteq waiters
    /\ ahead \in [Futures -> SUBSET Futures] /\ bypasses \in [Futures -> 0..BypassLimit]
    /\ \A f \in waiters : at[f] = "waiting" /\ ahead[f] \subseteq waiters
    /\ \A f, g \in waiters : f = g \/ f \in ahead[g] \/ g \in ahead[f]

\* The counters are what is held, within the limits; a tenant has an entry while
\* it holds bytes.
Books ==
    /\ broken = FALSE
    /\ charged \in Nat /\ charged =< GlobalLimit /\ Held(Admitted, req, charged)
    /\ share \in [Tenants -> Nat]
    /\ \A t \in Tenants : share[t] =< TenantLimit /\ Held(Of(t), req, share[t])
    /\ entries = {t \in Tenants : share[t] > 0}

\* A closed budget has no waiters, and whoever could be granted is when the mutex
\* is unlocked.
Control ==
    /\ section \in {"free", "grant", "close"} /\ closed \in BOOLEAN
    /\ section = "close" => closed
    /\ closed /\ section # "close" => waiters = {}
    /\ NoStrandedCapacity

Inv == Callers /\ Deque /\ Books /\ Control

LEMMA LimitTypes ==
    /\ GlobalLimit \in Nat /\ TenantLimit \in Nat /\ BypassLimit \in Nat
    /\ \A r \in Requests : r.bytes \in Nat /\ r.tenant \in Tenants
BY BudgetAssumption DEF Tenants

\* Nobody's bytes change.
LEMMA SameBooks ==
    ASSUME Callers, Callers', Books, UNCHANGED charges, Admitted' = Admitted,
           \A g \in Admitted : req'[g] = req[g]
    PROVE  Books'
<1>1. broken' = broken /\ charged' = charged /\ share' = share /\ entries' = entries
  BY Zenon DEF charges
<1>2. req \in Asking /\ req' \in Asking
  BY Zenon DEF Callers
<1>3. Held(Admitted, req', charged)
  BY <1>2, LoadSame, Zenon DEF Books
<1>4. ASSUME NEW t \in Tenants PROVE Held(Of(t)', req', share[t])
  <2>1. Of(t)' = Of(t) /\ \A g \in Of(t) : req'[g] = req[g]
    BY DEF Of
  <2>2. Held(Of(t), req, share[t])
    BY <1>4, Zenon DEF Books
  <2> QED
    BY <1>2, <2>1, <2>2, LoadSame, Zenon
<1> QED
  BY <1>1, <1>3, <1>4, Zenon DEF Books

\* A caller is admitted, and charged.
LEMMA ChargeBooks ==
    ASSUME NonEmpty, Callers, Callers', Books, NEW f \in Futures, f \notin Admitted, NEW r \in Requests,
           Fits(r), Charge(r), req'[f] = r, Admitted' = Admitted \cup {f},
           \A g \in Admitted : req'[g] = req[g]
    PROVE  Books'
<1>b. PICK b \in Nat : b = r.bytes /\ b > 0
  BY LimitTypes, Zenon DEF NonEmpty
<1>t. PICK t \in Tenants : t = r.tenant
  BY LimitTypes, Zenon
<1>1. /\ charged' = charged + b /\ share' = [share EXCEPT ![t] = @ + b]
      /\ entries' = entries \cup {t} /\ broken' = broken
      /\ charged + b =< GlobalLimit /\ share[t] + b =< TenantLimit
  BY <1>b, <1>t, Zenon DEF Charge, Fits, FitsGlobal, FitsTenant
<1>2. req \in Asking /\ req' \in Asking /\ b = req'[f].bytes
  BY <1>b, Zenon DEF Callers
<1>4. charged \in Nat /\ Held(Admitted, req, charged) /\ share \in [Tenants -> Nat]
  BY Zenon DEF Books
<1>5. Held(Admitted', req', charged + b)
  BY <1>2, <1>4, LoadJoins, Zenon
<1>6. Held(Of(t)', req', share[t] + b)
  <2>1. Of(t)' = Of(t) \cup {f} /\ f \notin Of(t) /\ \A g \in Of(t) : req'[g] = req[g]
    BY <1>t DEF Of
  <2>2. Held(Of(t), req, share[t]) /\ share[t] \in Nat
    BY <1>4, Zenon DEF Books
  <2>3. Held(Of(t) \cup {f}, req', share[t] + req'[f].bytes)
    BY <1>2, <2>1, <2>2, LoadJoins, Zenon
  <2> QED
    BY <1>2, <2>1, <2>3, Zenon
<1>7. ASSUME NEW s \in Tenants \ {t} PROVE Held(Of(s)', req', share[s])
  <2>1. Of(s)' = Of(s) /\ \A g \in Of(s) : req'[g] = req[g]
    BY <1>t, <1>7 DEF Of
  <2>2. Held(Of(s), req, share[s])
    BY <1>7, Zenon DEF Books
  <2> QED
    BY <1>2, <2>1, <2>2, LoadSame, Zenon
<1>8. /\ share' \in [Tenants -> Nat] /\ share'[t] = share[t] + b /\ \A s \in Tenants \ {t} : share'[s] = share[s]
      /\ charged' \in Nat
  BY <1>b, <1>1, <1>4
<1>9. ASSUME NEW s \in Tenants PROVE share'[s] =< TenantLimit /\ Held(Of(s)', req', share'[s])
  <2>1. CASE s = t
    BY <1>1, <1>6, <1>8, <2>1, Zenon
  <2>2. CASE s # t
    BY <1>7, <1>8, <1>9, <2>2, Zenon DEF Books
  <2> QED
    BY <2>1, <2>2
<1>10. entries' = {s \in Tenants : share'[s] > 0}
  <2>1. share[t] \in Nat /\ share'[t] > 0
    BY <1>b, <1>4, <1>8
  <2>2. entries = {s \in Tenants : share[s] > 0}
    BY Zenon DEF Books
  <2> QED
    BY <1>b, <1>1, <1>8, <2>1, <2>2, Zenon
<1> QED
  BY <1>1, <1>5, <1>8, <1>9, <1>10, Zenon DEF Books

\* A caller's bytes are there to be given back.
LEMMA UnchargeBooks ==
    ASSUME NonEmpty, Callers, Callers', Books, NEW f \in Futures, f \in Admitted, req[f] \in Requests,
           Uncharge(req[f]), Admitted' = Admitted \ {f},
           \A g \in Admitted \ {f} : req'[g] = req[g]
    PROVE  Books'
<1>b. PICK b \in Nat : b = req[f].bytes /\ b > 0
  BY LimitTypes, Zenon DEF NonEmpty
<1>t. PICK t \in Tenants : t = req[f].tenant
  BY LimitTypes, Zenon
<1>1. req \in Asking /\ req' \in Asking
  BY Zenon DEF Callers
<1>3. charged \in Nat /\ Held(Admitted, req, charged) /\ share \in [Tenants -> Nat]
  BY Zenon DEF Books
<1>4. b =< charged /\ Held(Admitted', req', charged - b)
  BY <1>b, <1>1, <1>3, LoadLeaves, Zenon
<1>5. b =< share[t] /\ Held(Of(t)', req', share[t] - b)
  <2>1. Of(t)' = Of(t) \ {f} /\ f \in Of(t) /\ \A g \in Of(t) \ {f} : req'[g] = req[g]
    BY <1>t DEF Of
  <2>2. Held(Of(t), req, share[t]) /\ share[t] \in Nat
    BY <1>3, Zenon DEF Books
  <2>3. req[f].bytes =< share[t] /\ Held(Of(t) \ {f}, req', share[t] - req[f].bytes)
    BY <1>1, <2>1, <2>2, LoadLeaves, Zenon
  <2> QED
    BY <1>b, <2>1, <2>3, Zenon
<1>6. ASSUME NEW s \in Tenants \ {t} PROVE Held(Of(s)', req', share[s])
  <2>1. Of(s)' = Of(s) /\ \A g \in Of(s) : req'[g] = req[g]
    BY <1>t, <1>6 DEF Of
  <2>2. Held(Of(s), req, share[s])
    BY <1>6, Zenon DEF Books
  <2> QED
    BY <1>1, <2>1, <2>2, LoadSame, Zenon
<1>7. ~Missing(req[f])
  <2>1. share[t] \in Nat
    BY <1>b, <1>3
  <2>2. share[t] > 0
    BY <1>b, <1>5, <2>1
  <2>3. t \in entries
    BY <1>b, <2>2, Zenon DEF Books
  <2>4. ~(charged < b) /\ ~(share[t] < b)
    BY <1>b, <1>3, <1>4, <1>5, <2>1
  <2> QED
    BY <1>b, <1>t, <2>3, <2>4, Zenon DEF Missing
<1>8. /\ charged' = charged - b /\ share' = [share EXCEPT ![t] = @ - b]
      /\ entries' = IF share[t] = b THEN entries \ {t} ELSE entries
      /\ broken' = FALSE
  BY <1>b, <1>t, <1>7 DEF Uncharge
<1>9. /\ share' \in [Tenants -> Nat] /\ share'[t] = share[t] - b /\ \A s \in Tenants \ {t} : share'[s] = share[s]
      /\ charged' \in Nat
  BY <1>b, <1>3, <1>4, <1>5, <1>8
<1>10. charged' =< GlobalLimit /\ share'[t] =< TenantLimit
  <2>1. charged =< GlobalLimit /\ share[t] =< TenantLimit /\ share[t] \in Nat
    BY <1>b, <1>3, Zenon DEF Books
  <2> QED
    BY <1>b, <1>3, <1>8, <1>9, <2>1, LimitTypes
<1>11. ASSUME NEW s \in Tenants PROVE share'[s] =< TenantLimit /\ Held(Of(s)', req', share'[s])
  <2>1. CASE s = t
    BY <1>5, <1>9, <1>10, <2>1, Zenon
  <2>2. CASE s # t
    BY <1>6, <1>9, <1>11, <2>2, Zenon DEF Books
  <2> QED
    BY <2>1, <2>2
<1>12. entries' = {s \in Tenants : share'[s] > 0}
  <2>1. share[t] \in Nat /\ (share[t] = b => ~(share'[t] > 0)) /\ (share[t] # b => share'[t] > 0 /\ share[t] > 0)
    BY <1>b, <1>3, <1>5, <1>9
  <2>2. entries = {s \in Tenants : share[s] > 0}
    BY Zenon DEF Books
  <2>3. CASE share[t] = b
    BY <1>8, <1>9, <2>1, <2>2, <2>3, Zenon
  <2>4. CASE share[t] # b
    BY <1>b, <1>8, <1>9, <2>1, <2>2, <2>4, Zenon
  <2> QED
    BY <2>3, <2>4, Zenon
<1> QED
  BY <1>4, <1>8, <1>9, <1>10, <1>11, <1>12, Zenon DEF Books
-----------------------------------------------------------------------------
(***************************************************************************)
(* What the parts of a step do to the callers, to the deque and to who can   *)
(* be granted.                                                               *)
(***************************************************************************)
\* f moves to another place, with its request or without one.
Moved(f, place) ==
    /\ at'[f] = place /\ \A g \in Futures \ {f} : at'[g] = at[g] /\ req'[g] = req[g]

LEMMA SettleCallers ==
    ASSUME Callers, NEW f \in Futures, NEW place \in Places, Settle(f, place), woken' \subseteq Futures,
           at[f] # "idle"
    PROVE  Callers' /\ Moved(f, place) /\ (place # "idle" => req' = req)
<1>1. at' = [at EXCEPT ![f] = place] /\ at \in [Futures -> Places] /\ req \in Asking
  BY Zenon DEF Settle, Callers
<1>2. CASE place = "idle"
  <2>1. req' = [req EXCEPT ![f] = NoRequest]
    BY <1>2, Zenon DEF Settle
  <2>2. at' \in [Futures -> Places] /\ req' \in Asking
    BY <1>1, <2>1, Zenon DEF Asking
  <2>3. Moved(f, place)
    BY <1>1, <2>1, Zenon DEF Moved, Asking
  <2>4. \A g \in Futures : at'[g] # "idle" => req'[g] \in Requests
    BY <1>2, <2>3, Zenon DEF Callers, Moved
  <2> QED
    BY <1>2, <2>2, <2>3, <2>4, Zenon DEF Callers
<1>3. CASE place # "idle"
  <2>1. req' = req
    BY <1>3, Zenon DEF Settle
  <2>2. at' \in [Futures -> Places]
    BY <1>1, Zenon
  <2>3. Moved(f, place)
    BY <1>1, <2>1, Zenon DEF Moved
  <2>4. \A g \in Futures : at'[g] # "idle" => req'[g] \in Requests
    BY <2>1, <2>3, Zenon DEF Callers, Moved
  <2> QED
    BY <2>1, <2>2, <2>3, <2>4, Zenon DEF Callers
<1> QED
  BY <1>2, <1>3, Zenon

\* An idle caller makes a request.
LEMMA AskCallers ==
    ASSUME Callers, NEW f \in Futures, NEW r \in Requests, NEW place \in Places,
           at' = [at EXCEPT ![f] = place], req' = [req EXCEPT ![f] = r], woken' \subseteq Futures
    PROVE  Callers' /\ Moved(f, place) /\ req'[f] = r
<1>1. at \in [Futures -> Places] /\ req \in Asking
  BY Zenon DEF Callers
<1>2. at' \in [Futures -> Places] /\ req' \in Asking
  BY <1>1, Zenon DEF Asking
<1>3. Moved(f, place) /\ req'[f] = r
  BY <1>1, Zenon DEF Moved, Asking
<1>4. \A g \in Futures : at'[g] # "idle" => req'[g] \in Requests
  BY <1>3, Zenon DEF Callers, Moved
<1> QED
  BY <1>2, <1>3, <1>4, Zenon DEF Callers

\* The deque is left alone, by a caller that is not in it.
LEMMA SameDeque ==
    ASSUME Deque, UNCHANGED line, \A g \in waiters : at'[g] = at[g]
    PROVE  Deque'
<1>1. waiters' = waiters /\ ahead' = ahead /\ granted' = granted /\ bypasses' = bypasses
  BY Zenon DEF line
<1> QED
  BY <1>1, Zenon DEF Deque

LEMMA JoinDeque ==
    ASSUME Deque, NEW f \in Futures, f \notin waiters, Join(f), Moved(f, "waiting")
    PROVE  Deque'
<1>1. /\ waiters' = waiters \cup {f} /\ ahead' = [ahead EXCEPT ![f] = waiters]
      /\ granted' = granted /\ bypasses' = bypasses
  BY Zenon DEF Join
<1>2. waiters \subseteq Futures /\ ahead \in [Futures -> SUBSET Futures]
  BY Zenon DEF Deque
<1>3. /\ ahead' \in [Futures -> SUBSET Futures]
      /\ ahead'[f] = waiters /\ \A g \in Futures \ {f} : ahead'[g] = ahead[g]
  BY <1>1, <1>2, Zenon
<1>4. \A g \in waiters' : at'[g] = "waiting" /\ ahead'[g] \subseteq waiters'
  BY <1>1, <1>2, <1>3, Zenon DEF Deque, Moved
<1>5. \A g, h \in waiters' : g = h \/ g \in ahead'[h] \/ h \in ahead'[g]
  BY <1>1, <1>2, <1>3, Zenon DEF Deque
<1> QED
  BY <1>1, <1>2, <1>3, <1>4, <1>5, Zenon DEF Deque

LEMMA LeaveDeque ==
    ASSUME Deque, NEW f \in Futures, Leave(f), \A g \in waiters \ {f} : at'[g] = at[g]
    PROVE  Deque' /\ waiters' = waiters \ {f} /\ granted' = granted \ {f}
<1>1. /\ waiters' = waiters \ {f} /\ granted' = granted \ {f}
      /\ ahead' = [g \in Futures |-> IF g = f THEN {} ELSE ahead[g] \ {f}]
      /\ bypasses' = [bypasses EXCEPT ![f] = 0]
  BY Zenon DEF Leave
<1>2. /\ waiters \subseteq Futures /\ granted \subseteq waiters /\ ahead \in [Futures -> SUBSET Futures]
      /\ bypasses \in [Futures -> 0..BypassLimit]
  BY Zenon DEF Deque
<1>3. bypasses' \in [Futures -> 0..BypassLimit]
  BY <1>1, <1>2, LimitTypes
<1>4. /\ ahead' \in [Futures -> SUBSET Futures]
      /\ \A g \in Futures \ {f} : ahead'[g] = ahead[g] \ {f}
  BY <1>1, <1>2
<1>5. \A g \in waiters' : at'[g] = "waiting" /\ ahead'[g] \subseteq waiters'
  BY <1>1, <1>2, <1>4, Zenon DEF Deque
<1>6. \A g, h \in waiters' : g = h \/ g \in ahead'[h] \/ h \in ahead'[g]
  BY <1>1, <1>2, <1>4, Zenon DEF Deque
<1> QED
  BY <1>1, <1>2, <1>3, <1>4, <1>5, <1>6, Zenon DEF Deque

\* Nothing changes for those who wait.
LEMMA SameStranding ==
    ASSUME Deque, UNCHANGED <<section, charges, line>>, \A g \in waiters : req'[g] = req[g],
           NoStrandedCapacity
    PROVE  NoStrandedCapacity'
<1>1. /\ section' = section /\ waiters' = waiters /\ ahead' = ahead /\ granted' = granted /\ bypasses' = bypasses
      /\ charged' = charged /\ share' = share
  BY Zenon DEF charges, line
<1>2. AgedGlobal' = AgedGlobal
  BY <1>1 DEF AgedGlobal, FitsGlobal
<1>3. ASSUME NEW f \in waiters PROVE Grantable(f)' <=> Grantable(f)
  <2>1. req'[f] = req[f] /\ \A g \in ahead[f] : req'[g] = req[g]
    BY <1>3, Zenon DEF Deque
  <2>2. Fits(req[f])' <=> Fits(req[f])
    BY <1>1, <2>1 DEF Fits, FitsGlobal, FitsTenant
  <2> QED
    BY <1>1, <2>1, <2>2 DEF Grantable
<1> QED
  BY <1>1, <1>2, <1>3, Zenon DEF NoStrandedCapacity

\* Who is admitted, after a caller moved.
LEMMA AdmittedMoves ==
    ASSUME Callers, Deque, NEW f \in Futures, NEW place, Moved(f, place)
    PROVE  /\ granted' = granted /\ place # "permit" /\ at[f] # "permit" => Admitted' = Admitted
           /\ granted' = granted /\ place # "permit" /\ f \notin granted => Admitted' = Admitted \ {f}
           /\ granted' = granted /\ place = "permit" => Admitted' = Admitted \cup {f}
           /\ granted' = granted \ {f} /\ place # "permit" => Admitted' = Admitted \ {f}
           /\ granted' = granted \ {f} /\ place = "permit" => Admitted' = Admitted \cup {f}
BY DEF Admitted, Moved
-----------------------------------------------------------------------------
(***************************************************************************)
(* The steps.                                                                *)
(***************************************************************************)
\* Unless the mutex is free there is nothing to show of what it leaves.
LEMMA BusyControl ==
    ASSUME section' \in {"grant", "close"}, closed' \in BOOLEAN, section' = "close" => closed',
           closed' /\ section' # "close" => waiters' = {}
    PROVE  Control'
BY DEF Control, NoStrandedCapacity

\* A step between critical sections that concerns neither counters nor waiters.
LEMMA BystanderInv ==
    ASSUME Inv, NEW f \in Futures, f \notin waiters, at[f] # "permit", NEW place, place # "permit", Moved(f, place),
           Callers', UNCHANGED <<section, closed, charges, line>>
    PROVE  Inv'
<1>1. Callers /\ Deque /\ Books /\ Control
  BY Zenon DEF Inv
<1>2. waiters' = waiters /\ granted' = granted /\ section' = section /\ closed' = closed
  BY Zenon DEF line
<1>3. \A g \in waiters : at'[g] = at[g] /\ req'[g] = req[g]
  BY <1>1, Zenon DEF Deque, Moved
<1>4. Deque'
  BY <1>1, <1>3, SameDeque, Zenon
<1>5. Admitted' = Admitted
  BY <1>1, <1>2, AdmittedMoves, Zenon
<1>6. \A g \in Admitted : req'[g] = req[g]
  BY <1>1, Zenon DEF Admitted, Deque, Moved
<1>7. Books'
  BY <1>1, <1>5, <1>6, SameBooks, Zenon
<1>8. NoStrandedCapacity'
  BY <1>1, <1>3, SameStranding, Zenon DEF Control
<1>9. Control'
  BY <1>1, <1>2, <1>8 DEF Control
<1> QED
  BY <1>4, <1>7, <1>9, Zenon DEF Inv

\* A caller that finds no waiters and room for its request is admitted at once.
LEMMA AtOnceInv ==
    ASSUME NonEmpty, Inv, NEW f \in Futures, at[f] # "permit", waiters = {}, Moved(f, "permit"), Callers',
           NEW r \in Requests, req'[f] = r, Fits(r), Charge(r), UNCHANGED <<section, closed, line>>
    PROVE  Inv'
<1>1. Callers /\ Deque /\ Books /\ Control
  BY Zenon DEF Inv
<1>2. waiters' = waiters /\ granted' = granted /\ section' = section /\ closed' = closed
  BY Zenon DEF line
<1>3. granted = {} /\ f \notin Admitted
  BY <1>1, Zenon DEF Deque, Admitted
<1>4. Deque'
  BY <1>1, SameDeque, Zenon
<1>5. Admitted' = Admitted \cup {f}
  BY <1>1, <1>2, AdmittedMoves, Zenon
<1>6. \A g \in Admitted : req'[g] = req[g]
  BY <1>3, Zenon DEF Admitted, Moved
<1>7. Books'
  BY <1>1, <1>3, <1>5, <1>6, ChargeBooks, Zenon
<1>8. NoStrandedCapacity'
  BY <1>2, Zenon DEF NoStrandedCapacity
<1>9. Control'
  BY <1>1, <1>2, <1>8 DEF Control
<1> QED
  BY <1>4, <1>7, <1>9, Zenon DEF Inv

LEMMA AskInv ==
    ASSUME NonEmpty, Inv, NEW f \in Futures, NEW r \in Requests, Ask(f, r) \/ TryAcquire(f, r)
    PROVE  Inv'
<1>1. Callers /\ Deque /\ at[f] = "idle" /\ f \notin waiters
  BY DEF Inv, Deque, Ask, TryAcquire
<1>2. CASE Ask(f, r)
  <2>1. /\ at' = [at EXCEPT ![f] = "new"] /\ req' = [req EXCEPT ![f] = r] /\ woken' = woken \cup {f}
        /\ UNCHANGED <<section, closed, charges, line>>
    BY <1>2, Zenon DEF Ask
  <2>2. woken' \subseteq Futures /\ "new" \in Places
    BY <1>1, <2>1, Zenon DEF Callers, Places
  <2>3. Callers' /\ Moved(f, "new")
    BY <1>1, <2>1, <2>2, AskCallers, Zenon
  <2> QED
    BY <1>1, <2>1, <2>3, BystanderInv
<1>3. CASE TryAcquire(f, r)
  <2>1. /\ at' = [at EXCEPT ![f] = "permit"] /\ req' = [req EXCEPT ![f] = r] /\ woken' = woken
        /\ waiters = {} /\ Fits(r) /\ Charge(r) /\ UNCHANGED <<section, closed, line>>
    BY <1>3, Zenon DEF TryAcquire
  <2>2. woken' \subseteq Futures /\ "permit" \in Places
    BY <1>1, <2>1, Zenon DEF Callers, Places
  <2>3. Callers' /\ Moved(f, "permit") /\ req'[f] = r
    BY <1>1, <2>1, <2>2, AskCallers, Zenon
  <2> QED
    BY <1>1, <2>1, <2>3, AtOnceInv
<1> QED
  BY <1>2, <1>3

LEMMA FirstPollInv ==
    ASSUME NonEmpty, Inv, NEW f \in Futures, FirstPoll(f)
    PROVE  Inv'
<1>1. Callers /\ Deque /\ Books /\ Control /\ at[f] = "new" /\ f \notin waiters /\ req[f] \in Requests
  BY DEF Inv, Deque, Callers, FirstPoll
<1>2. woken' \subseteq Futures /\ closed' = closed /\ {"idle", "permit", "waiting"} \subseteq Places
  BY <1>1 DEF FirstPoll, Callers, Places
<1>3. CASE Settle(f, "idle") /\ UNCHANGED <<section, charges, line>>
  <2>1. Callers' /\ Moved(f, "idle")
    BY <1>1, <1>2, <1>3, SettleCallers
  <2> QED
    BY <1>1, <1>2, <1>3, <2>1, BystanderInv
<1>4. CASE /\ waiters = {} /\ Fits(req[f]) /\ Charge(req[f])
           /\ Settle(f, "permit") /\ UNCHANGED <<section, line>>
  <2>1. Callers' /\ Moved(f, "permit") /\ req' = req
    BY <1>1, <1>2, <1>4, SettleCallers
  <2>2. PICK r \in Requests : r = req[f]
    BY <1>1
  <2> QED
    BY <1>1, <1>2, <1>4, <2>1, <2>2, AtOnceInv
<1>5. CASE ~closed /\ Join(f) /\ section' = "grant" /\ Settle(f, "waiting") /\ UNCHANGED charges
  <2>1. Callers' /\ Moved(f, "waiting") /\ req' = req
    BY <1>1, <1>2, <1>5, SettleCallers
  <2>2. Deque'
    BY <1>1, <1>5, <2>1, JoinDeque, Zenon
  <2>3. granted' = granted
    BY <1>5, Zenon DEF Join
  <2>4. Admitted' = Admitted
    BY <1>1, <2>1, <2>3, AdmittedMoves
  <2>5. Books'
    BY <1>1, <1>5, <2>1, <2>4, SameBooks, Zenon
  <2>6. Control'
    BY <1>1, <1>2, <1>5, BusyControl DEF Control
  <2> QED
    BY <2>1, <2>2, <2>5, <2>6, Zenon DEF Inv
<1> QED
  BY <1>3, <1>4, <1>5, Zenon DEF FirstPoll

LEMMA PollAgainInv ==
    ASSUME Inv, NEW f \in Futures, PollAgain(f)
    PROVE  Inv'
<1>1. Callers /\ Deque /\ Books /\ Control /\ at[f] = "waiting" /\ section = "free"
  BY DEF Inv, PollAgain, Free
<1>2. woken' \subseteq Futures /\ closed' = closed /\ UNCHANGED charges /\ {"idle", "permit"} \subseteq Places
  BY <1>1 DEF PollAgain, Callers, Places
<1>3. CASE closed /\ Settle(f, "idle") /\ UNCHANGED <<section, line>>
  <2>1. Callers' /\ Moved(f, "idle")
    BY <1>1, <1>2, <1>3, SettleCallers
  <2>2. f \notin waiters
    BY <1>1, <1>3 DEF Control
  <2> QED
    BY <1>1, <1>2, <1>3, <2>1, <2>2, BystanderInv
<1>4. CASE ~closed /\ f \in granted /\ Leave(f) /\ section' = "grant" /\ Settle(f, "permit")
  <2>1. Callers' /\ Moved(f, "permit") /\ req' = req
    BY <1>1, <1>2, <1>4, SettleCallers
  <2>2. Deque' /\ granted' = granted \ {f}
    BY <1>1, <1>4, <2>1, LeaveDeque, Zenon DEF Moved, Deque
  <2>3. Admitted' = Admitted
    BY <1>1, <1>4, <2>1, <2>2, AdmittedMoves DEF Admitted
  <2>4. Books'
    BY <1>1, <1>2, <2>1, <2>3, SameBooks, Zenon
  <2>5. Control'
    BY <1>1, <1>2, <1>4, BusyControl DEF Control
  <2> QED
    BY <2>1, <2>2, <2>4, <2>5, Zenon DEF Inv
<1>5. CASE UNCHANGED <<section, line, at, req>>
  <2>1. at' = at /\ req' = req /\ UNCHANGED line /\ waiters' = waiters /\ granted' = granted /\ section' = section
    BY <1>5, Zenon DEF line
  <2>2. Callers'
    BY <1>1, <1>2, <2>1, Zenon DEF Callers
  <2>3. Deque'
    BY <1>1, <2>1, SameDeque, Zenon
  <2>4. Admitted' = Admitted
    BY <2>1, Zenon DEF Admitted
  <2>5. Books'
    BY <1>1, <1>2, <2>1, <2>2, <2>4, SameBooks, Zenon
  <2>6. NoStrandedCapacity'
    BY <1>1, <1>2, <1>5, <2>1, SameStranding, Zenon DEF Control
  <2>7. Control'
    BY <1>1, <1>2, <2>1, <2>6, Zenon DEF Control
  <2> QED
    BY <2>2, <2>3, <2>5, <2>7, Zenon DEF Inv
<1> QED
  BY <1>3, <1>4, <1>5, Zenon DEF PollAgain
LEMMA DropInv ==
    ASSUME NonEmpty, Inv, NEW f \in Futures, DropNew(f) \/ Drop(f)
    PROVE  Inv'
<1>1. Callers /\ Deque /\ Books /\ Control /\ at[f] \in {"new", "waiting"}
  BY DEF Inv, DropNew, Drop
<1>2. woken' \subseteq Futures /\ closed' = closed /\ Settle(f, "idle") /\ "idle" \in Places
  BY <1>1 DEF DropNew, Drop, Callers, Places
<1>3. Callers' /\ Moved(f, "idle")
  BY <1>1, <1>2, SettleCallers
<1>4. CASE f \notin waiters /\ UNCHANGED <<section, charges, line>>
  BY <1>1, <1>2, <1>3, <1>4, BystanderInv
<1>5. CASE Drop(f) /\ f \in waiters /\ Leave(f) /\ section' = "grant"
  <2>1. Deque' /\ waiters' = waiters \ {f} /\ granted' = granted \ {f}
    BY <1>1, <1>3, <1>5, LeaveDeque, Zenon DEF Moved, Deque
  <2>2. Admitted' = Admitted \ {f}
    BY <1>1, <1>3, <2>1, AdmittedMoves
  <2>3. Books'
    <3>1. \A g \in Admitted \ {f} : req'[g] = req[g]
      BY <1>1, <1>3, Zenon DEF Admitted, Deque, Moved
    <3>2. CASE f \notin granted /\ UNCHANGED charges
      <4>1. f \notin Admitted
        BY <1>1, <3>2 DEF Admitted
      <4>2. Admitted' = Admitted
        BY <2>2, <4>1, Zenon
      <4> QED
        BY <1>1, <1>3, <3>1, <3>2, <4>1, <4>2, SameBooks, Zenon
    <3>3. CASE f \in granted /\ Uncharge(req[f])
      <4>1. f \in Admitted /\ req[f] \in Requests
        BY <1>1, <3>3 DEF Admitted, Callers
      <4> QED
        BY <1>1, <1>3, <2>2, <3>1, <3>3, <4>1, UnchargeBooks, Zenon
    <3> QED
      BY <1>5, <3>2, <3>3, Zenon DEF Drop
  <2>4. closed' => waiters' = {}
    BY <1>1, <1>2, <1>5, <2>1 DEF Control, Drop, Free
  <2>5. Control'
    BY <1>1, <1>2, <1>5, <2>4, BusyControl DEF Control
  <2> QED
    BY <1>3, <2>1, <2>3, <2>5, Zenon DEF Inv
<1>6. CASE DropNew(f)
  <2>1. f \notin waiters
    BY <1>1, <1>6 DEF Deque, DropNew
  <2> QED
    BY <1>4, <1>6, <2>1, Zenon DEF DropNew
<1> QED
  BY <1>4, <1>5, <1>6, Zenon DEF Drop

LEMMA ReleaseInv ==
    ASSUME NonEmpty, Inv, NEW f \in Futures, Release(f)
    PROVE  Inv'
<1>1. Callers /\ Deque /\ Books /\ Control /\ at[f] = "permit" /\ section = "free" /\ req[f] \in Requests
  BY DEF Inv, Release, Free, Callers
<1>2. /\ woken' = woken /\ closed' = closed /\ Settle(f, "idle") /\ "idle" \in Places /\ section' = "grant"
      /\ Uncharge(req[f]) /\ UNCHANGED line /\ waiters' = waiters /\ granted' = granted
  BY DEF Release, Places, line
<1>3. Callers' /\ Moved(f, "idle")
  BY <1>1, <1>2, SettleCallers DEF Callers
<1>4. f \notin waiters /\ f \notin granted /\ f \in Admitted
  BY <1>1 DEF Deque, Admitted
<1>5. Deque'
  BY <1>1, <1>2, <1>3, <1>4, SameDeque, Zenon DEF Moved, Deque
<1>6. Admitted' = Admitted \ {f}
  BY <1>1, <1>2, <1>3, <1>4, AdmittedMoves
<1>7. \A g \in Admitted \ {f} : req'[g] = req[g]
  BY <1>1, <1>3, Zenon DEF Admitted, Deque, Moved
<1>8. Books'
  BY <1>1, <1>2, <1>3, <1>4, <1>6, <1>7, UnchargeBooks, Zenon
<1>9. Control'
  BY <1>1, <1>2, BusyControl DEF Control
<1> QED
  BY <1>3, <1>5, <1>8, <1>9, Zenon DEF Inv

LEMMA GrantInv ==
    ASSUME NonEmpty, Inv, NEW f \in Futures, GrantOldest(f)
    PROVE  Inv'
<1>1. Callers /\ Deque /\ Books /\ Control
  BY Zenon DEF Inv
<1>2. /\ f \in waiters /\ f \notin granted /\ Fits(req[f]) /\ Charge(req[f])
      /\ granted' = granted \cup {f} /\ waiters' = waiters /\ ahead' = ahead
      /\ bypasses' = [g \in Futures |-> IF g \in ahead[f] \ granted THEN Aged(bypasses[g]) ELSE bypasses[g]]
      /\ at' = at /\ req' = req /\ woken' = woken \cup {f} /\ section' = section /\ closed' = closed /\ section = "grant"
  BY Zenon DEF GrantOldest, Grantable
<1>3. Callers'
  BY <1>1, <1>2, Zenon DEF Callers
<1>4. Deque'
  <2>1. bypasses \in [Futures -> 0..BypassLimit] /\ BypassLimit \in Nat
    BY <1>1, LimitTypes, Zenon DEF Deque
  <2>2. \A n \in 0..BypassLimit : Aged(n) \in 0..BypassLimit
    BY <2>1 DEF Aged
  <2>3. bypasses' \in [Futures -> 0..BypassLimit]
    BY <1>2, <2>1, <2>2
  <2> QED
    BY <1>1, <1>2, <2>3, Zenon DEF Deque
<1>5. at[f] = "waiting" /\ req[f] \in Requests
  BY <1>1, <1>2 DEF Deque, Callers
<1>6. f \notin Admitted /\ Admitted' = Admitted \cup {f}
  BY <1>2, <1>5 DEF Admitted
<1>7. Books'
  <2>1. PICK r \in Requests : r = req[f]
    BY <1>5
  <2> QED
    BY <1>1, <1>2, <1>3, <1>6, <2>1, ChargeBooks, Zenon
<1>8. Control'
  BY <1>1, <1>2, BusyControl DEF Control
<1> QED
  BY <1>3, <1>4, <1>7, <1>8, Zenon DEF Inv

LEMMA CloseOldestInv ==
    ASSUME NonEmpty, Inv, NEW f \in Futures, CloseOldest(f)
    PROVE  Inv'
<1>1. Callers /\ Deque /\ Books /\ Control
  BY Zenon DEF Inv
<1>2. /\ f \in waiters /\ Leave(f) /\ section = "close"
      /\ at' = at /\ req' = req /\ section' = section /\ closed' = closed
      /\ \/ f \in granted /\ Uncharge(req[f]) /\ woken' = woken
         \/ f \notin granted /\ woken' = woken \cup {f} /\ UNCHANGED charges
  BY Zenon DEF CloseOldest
<1>3. Callers'
  BY <1>1, <1>2 DEF Callers
<1>4. Deque' /\ granted' = granted \ {f}
  BY <1>1, <1>2, LeaveDeque, Zenon
<1>5. at[f] = "waiting" /\ req[f] \in Requests
  BY <1>1, <1>2 DEF Deque, Callers
<1>6. Admitted' = Admitted \ {f}
  BY <1>2, <1>4, <1>5 DEF Admitted
<1>7. Books'
  <2>1. CASE f \in granted /\ Uncharge(req[f])
    <3>1. f \in Admitted
      BY <2>1 DEF Admitted
    <3> QED
      BY <1>1, <1>2, <1>3, <1>5, <1>6, <2>1, <3>1, UnchargeBooks, Zenon
  <2>2. CASE f \notin granted /\ UNCHANGED charges
    <3>1. f \notin Admitted
      BY <1>5, <2>2 DEF Admitted
    <3>2. Admitted' = Admitted
      BY <1>6, <3>1, Zenon
    <3> QED
      BY <1>1, <1>2, <1>3, <2>2, <3>2, SameBooks, Zenon
  <2> QED
    BY <1>2, <2>1, <2>2, Zenon
<1>8. Control'
  BY <1>1, <1>2, BusyControl DEF Control
<1> QED
  BY <1>3, <1>4, <1>7, <1>8, Zenon DEF Inv

\* The mutex is taken by close, or unlocked at the end of a loop.
LEMMA SectionInv ==
    ASSUME Inv, GrantsEnd \/ Close \/ CloseEnds
    PROVE  Inv'
<1>1. Callers /\ Deque /\ Books /\ Control
  BY Zenon DEF Inv
<1>2. UNCHANGED <<charges, line, at, req, woken>>
  BY Zenon DEF GrantsEnd, Close, CloseEnds
<1>3. at' = at /\ req' = req /\ woken' = woken /\ waiters' = waiters /\ granted' = granted /\ Admitted' = Admitted
  BY <1>2, Zenon DEF line, Admitted
<1>4. Callers'
  BY <1>1, <1>3, Zenon DEF Callers
<1>5. Deque'
  BY <1>1, <1>2, <1>3, SameDeque, Zenon
<1>6. Books'
  BY <1>1, <1>2, <1>3, <1>4, SameBooks, Zenon
<1>7. CASE Close
  <2>1. section' = "close" /\ closed' = TRUE
    BY <1>7, Zenon DEF Close
  <2>2. Control'
    BY <2>1, BusyControl
  <2> QED
    BY <1>4, <1>5, <1>6, <2>2, Zenon DEF Inv
<1>8. CASE CloseEnds
  <2>1. section' = "free" /\ closed' = closed /\ waiters' = {}
    BY <1>3, <1>8, Zenon DEF CloseEnds
  <2>2. Control'
    BY <1>1, <2>1 DEF Control, NoStrandedCapacity
  <2> QED
    BY <1>4, <1>5, <1>6, <2>2, Zenon DEF Inv
<1>9. CASE GrantsEnd
  <2>1. section' = "free" /\ closed' = closed /\ section = "grant"
    BY <1>9, Zenon DEF GrantsEnd
  <2>2. ahead' = ahead /\ bypasses' = bypasses /\ charged' = charged /\ share' = share
    BY <1>2, Zenon DEF charges, line
  <2>3. AgedGlobal' = AgedGlobal
    BY <1>3, <2>2 DEF AgedGlobal, FitsGlobal
  <2>4. ASSUME NEW f \in waiters PROVE Grantable(f)' <=> Grantable(f)
    BY <1>3, <2>2, <2>4 DEF Grantable, Fits, FitsGlobal, FitsTenant
  <2>5. NoStrandedCapacity'
    BY <1>3, <1>9, <2>3, <2>4, Zenon DEF NoStrandedCapacity, GrantsEnd
  <2>6. Control'
    BY <1>1, <1>3, <2>1, <2>5 DEF Control
  <2> QED
    BY <1>4, <1>5, <1>6, <2>6, Zenon DEF Inv
<1> QED
  BY <1>7, <1>8, <1>9, Zenon

LEMMA NextInv == ASSUME NonEmpty PROVE Inv /\ [Next]_vars => Inv'
<1> SUFFICES ASSUME Inv, [Next]_vars PROVE Inv'
  OBVIOUS
<1>1. CASE UNCHANGED vars
  <2>1. UNCHANGED <<section, closed, charges, line, at, req, woken>>
    BY <1>1, Zenon DEF vars
  <2>2. waiters' = waiters /\ granted' = granted /\ Admitted' = Admitted
    BY <2>1, Zenon DEF line, Admitted
  <2>3. Callers' /\ Deque'
    BY <2>1, <2>2, SameDeque, Zenon DEF Inv, Callers
  <2>4. Books'
    BY <2>1, <2>2, <2>3, SameBooks, Zenon DEF Inv
  <2>5. NoStrandedCapacity'
    BY <2>1, SameStranding, Zenon DEF Inv, Control
  <2>6. Control'
    BY <2>1, <2>2, <2>5 DEF Inv, Control
  <2> QED
    BY <2>3, <2>4, <2>6, Zenon DEF Inv
<1>2. CASE Next
  BY <1>2, AskInv, FirstPollInv, PollAgainInv, DropInv, ReleaseInv, GrantInv, CloseOldestInv, SectionInv, Zenon
     DEF Next, Poll, Proceed
<1> QED
  BY <1>1, <1>2, Zenon
\* Nobody holds anything.
LEMMA NoLoad == ASSUME NEW q \in Asking PROVE Held({}, q, 0)
<1>1. Load({}, q) \in [Futures -> Nat] /\ \A f \in Futures : Load({}, q)[f] = 0
  BY LoadFacts, Zenon
<1>2. IsFiniteSet(Units(Load({}, q))) /\ Cardinality(Units(Load({}, q))) = 0
  BY <1>1, UnitsNone, Zenon
<1> QED
  BY <1>2, Zenon DEF Held

LEMMA InitInv == Init => Inv
<1> SUFFICES ASSUME Init PROVE Inv
  OBVIOUS
<1>1. Callers
  BY Zenon DEF Init, Callers, Places, Asking
<1>2. Deque
  <2>1. bypasses \in [Futures -> 0..BypassLimit]
    BY LimitTypes DEF Init
  <2> QED
    BY <2>1, Zenon DEF Init, Deque
<1>3. Admitted = {} /\ \A t \in Tenants : Of(t) = {}
  BY DEF Init, Admitted, Of
<1>4. Books
  <2>1. charged = 0 /\ broken = FALSE /\ entries = {} /\ share \in [Tenants -> Nat] /\ \A t \in Tenants : share[t] = 0
    BY DEF Init
  <2>2. Held({}, req, 0)
    BY <1>1, NoLoad, Zenon DEF Callers
  <2>3. 0 =< GlobalLimit /\ 0 =< TenantLimit /\ 0 \in Nat /\ ~(0 > 0)
    BY LimitTypes
  <2>4. entries = {t \in Tenants : share[t] > 0}
    BY <2>1, <2>3, Zenon
  <2> QED
    BY <1>3, <2>1, <2>2, <2>3, <2>4, Zenon DEF Books
<1>5. Control
  BY Zenon DEF Init, Control, NoStrandedCapacity
<1> QED
  BY <1>1, <1>2, <1>4, <1>5, Zenon DEF Inv

\* The invariant holds throughout: it is kept by every step of the budget.
THEOREM AlwaysInv == ASSUME NonEmpty PROVE Spec => []Inv
  BY InitInv, NextInv, PTL DEF Spec

-----------------------------------------------------------------------------
(***************************************************************************)
(* The theorems.                                                             *)
(***************************************************************************)
\* If every request is for some bytes, no expect under the mutex fails: a release,
\* a cancelled grant and a close find the charge and the tenant's entry.
THEOREM NeverBroken == ASSUME NonEmpty PROVE Spec => []NothingBroken
<1>1. Inv => NothingBroken
  BY Zenon DEF Inv, Books, NothingBroken
<1> QED
  BY <1>1, AlwaysInv, PTL

\* If every request is for some bytes, what is charged to the node and to each
\* tenant is what permits and granted requests hold, and within both limits.
THEOREM BytesConserved == ASSUME NonEmpty PROVE Spec => []Conserved
<1>1. ASSUME Inv PROVE Conserved
  <2>1. Callers /\ Deque /\ Books /\ Control
    BY <1>1, Zenon DEF Inv
  <2>2. charged \in 0..GlobalLimit /\ share \in [Tenants -> 0..TenantLimit]
    BY <2>1, LimitTypes DEF Books
  <2>3. broken \in BOOLEAN /\ entries \subseteq Tenants
    BY <2>1, Zenon DEF Books
  <2>4. section \in {"free", "grant", "close"} /\ closed \in BOOLEAN
    BY <2>1, Zenon DEF Control
  <2>5. TypeOK
    BY <2>1, <2>2, <2>3, <2>4, Zenon DEF TypeOK, Callers, Deque, Asking
  <2> QED
    BY <2>1, <2>5, Zenon DEF Conserved, Books, Held
<1> QED
  BY <1>1, AlwaysInv, PTL

\* If every request is for some bytes, whoever could be granted is, by the time the
\* mutex is free, unless an aged request reserves the budget.
THEOREM NothingStranded == ASSUME NonEmpty PROVE Spec => []NoStrandedCapacity
<1>1. Inv => NoStrandedCapacity
  BY Zenon DEF Inv, Control
<1> QED
  BY <1>1, AlwaysInv, PTL

\* Only a turn of grant_waiters admits a caller while others wait.
LEMMA Admitting ==
    ASSUME Inv, [Next]_vars, NEW g \in Futures, g \notin Admitted, g \in Admitted', waiters # {}
    PROVE  GrantOldest(g)
<1>1. Callers /\ Deque /\ at[g] # "permit" /\ g \notin granted
  BY Zenon DEF Inv, Admitted
<1>2. at'[g] = "permit" \/ g \in granted'
  BY Zenon DEF Admitted
<1>3. ASSUME NEW f \in Futures, NEW r \in Requests, Ask(f, r) \/ TryAcquire(f, r) PROVE FALSE
  BY <1>1, <1>2, <1>3, Zenon DEF Ask, TryAcquire, line, Callers
<1>4. ASSUME NEW f \in Futures, Poll(f) PROVE FALSE
  <2>1. CASE at' = at \/ at' = [at EXCEPT ![f] = "idle"] \/ at' = [at EXCEPT ![f] = "waiting"]
    BY <1>1, <1>2, <1>4, <2>1, Zenon DEF Poll, FirstPoll, PollAgain, Settle, Join, Leave, line, Callers
  <2>2. CASE PollAgain(f) /\ f \in granted /\ at' = [at EXCEPT ![f] = "permit"]
    BY <1>1, <1>2, <2>2, Zenon DEF PollAgain, Leave, line, Callers
  <2> QED
    BY <1>4, <2>1, <2>2, Zenon DEF Poll, FirstPoll, PollAgain, Settle
<1>5. ASSUME NEW f \in Futures, DropNew(f) \/ Drop(f) \/ Release(f) PROVE FALSE
  BY <1>1, <1>2, <1>5 DEF DropNew, Drop, Release, Settle, Leave, line, Callers
<1>6. ASSUME NEW f \in Futures, CloseOldest(f) PROVE FALSE
  BY <1>1, <1>2, <1>6 DEF CloseOldest, Leave
<1>7. CASE GrantsEnd \/ Close \/ CloseEnds \/ UNCHANGED vars
  BY <1>1, <1>2, <1>7, Zenon DEF GrantsEnd, Close, CloseEnds, vars, line
<1>8. ASSUME NEW f \in Futures, GrantOldest(f) PROVE f = g
  BY <1>1, <1>2, <1>8 DEF GrantOldest
<1> QED
  BY <1>3, <1>4, <1>5, <1>6, <1>7, <1>8 DEF Next, Proceed

\* If every request is for some bytes, requests of a tenant are admitted in the
\* order in which they registered.
THEOREM TenantsInOrder == ASSUME NonEmpty PROVE Spec => TenantOrder
<1> DEFINE A == \A f, g \in Futures :
                  /\ f \in waiters \ granted /\ f \in waiters' \ granted'
                  /\ g \notin Admitted /\ g \in Admitted' /\ req'[g].tenant = req[f].tenant
                  => g \in waiters /\ g \in ahead[f]
<1>1. ASSUME Inv, [Next]_vars PROVE A
  <2> SUFFICES ASSUME NEW f \in Futures, NEW g \in Futures,
                      f \in waiters \ granted, f \in waiters' \ granted',
                      g \notin Admitted, g \in Admitted', req'[g].tenant = req[f].tenant
               PROVE  g \in waiters /\ g \in ahead[f]
    BY Zenon
  <2>1. GrantOldest(g)
    BY <1>1, Admitting, Zenon
  <2>2. g \in waiters /\ g \in granted' /\ req' = req /\ \A h \in ahead[g] \ granted : req[h].tenant # req[g].tenant
    BY <2>1, Zenon DEF GrantOldest, Grantable
  <2>3. f # g /\ f \notin ahead[g]
    BY <2>2, Zenon
  <2> QED
    BY <1>1, <2>2, <2>3, Zenon DEF Inv, Deque
<1>2. Inv /\ [Next]_vars => [A]_vars
  BY <1>1, Zenon
<1> QED
  BY <1>2, AlwaysInv, PTL DEF Spec, TenantOrder
=============================================================================
