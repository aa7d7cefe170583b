----------------------- MODULE ComposedBackendProofs -----------------------
(***************************************************************************)
(* Proofs about KeyedGate and about ComposedBackend, which contains it, for   *)
(* every set of callers, keys and drainers and every limit.                  *)
(*                                                                         *)
(* A line and the statuses of its waiters describe one thing twice, and the  *)
(* entry of a key and its owner another.  Consistent says that they agree;   *)
(* with it each step of the gate can be seen to move at most one owner.      *)
(*                                                                         *)
(* Every step of the backend is a step of its gate or leaves the gate alone,  *)
(* and the same holds of its dispatcher.  What is proved about the gate        *)
(* therefore carries over; Slots does the same for the dispatcher; and Held    *)
(* is what the two have to do with each other.                               *)
(***************************************************************************)
EXTENDS ComposedBackend, FiniteSetTheorems, TLAPS

Types ==
    /\ closed \in BOOLEAN
    /\ queued \in Nat
    /\ active \subseteq Keys
    /\ line \in [Keys -> Seq(Futures)]
    /\ status \in [Futures -> WaiterStatus \cup {"none"}]
    /\ waker \subseteq Futures /\ woken \subseteq Futures
    /\ at \in [Futures -> Places]
    /\ key \in [Futures -> Keys]

\* A waiter stands in the line of its key, once; only a polled future is a waiter.
Lines ==
    /\ \A k \in Keys : \A i \in 1..Len(line[k]) : status[line[k][i]] = "Waiting" /\ key[line[k][i]] = k
    /\ \A k \in Keys : \A i, j \in 1..Len(line[k]) : line[k][i] = line[k][j] => i = j
    /\ \A f \in Futures : status[f] # "none" => at[f] = "waiting"

Consistent == Types /\ Lines /\ OneOwner /\ \A k \in Keys \ active : line[k] = <<>>

\* What is left of a sequence without its first element, or without one element,
\* are its other elements in their order.
LEMMA TailFacts ==
    ASSUME NEW S, NEW s \in Seq(S), s # <<>>
    PROVE  /\ Tail(s) \in Seq(S) /\ Len(Tail(s)) = Len(s) - 1 /\ Len(s) \in Nat \ {0}
           /\ Head(s) = s[1] /\ Head(s) \in S
           /\ \A i \in 1..Len(Tail(s)) : Tail(s)[i] = s[i + 1]
  OBVIOUS

LEMMA WithoutFacts ==
    ASSUME NEW S, NEW s \in Seq(S), NEW i \in 1..Len(s)
    PROVE  /\ Without(s, i) \in Seq(S) /\ Len(Without(s, i)) = Len(s) - 1
           /\ \A j \in 1..(Len(s) - 1) : Without(s, i)[j] = IF j < i THEN s[j] ELSE s[j + 1]
  <1>1. Len(s) - 1 \in Nat
    OBVIOUS
  <1>2. \A j \in 1..(Len(s) - 1) : (IF j < i THEN s[j] ELSE s[j + 1]) \in S
    OBVIOUS
  <1>3. Without(s, i) \in [1..(Len(s) - 1) -> S]
    BY <1>2 DEF Without
  <1>4. Without(s, i) \in Seq(S) /\ Len(Without(s, i)) = Len(s) - 1
    BY <1>1, <1>3
  <1>. QED
    BY <1>4 DEF Without

LEMMA AppendFacts ==
    ASSUME NEW S, NEW s \in Seq(S), NEW e \in S
    PROVE  /\ Append(s, e) \in Seq(S) /\ Len(Append(s, e)) = Len(s) + 1 /\ Len(s) \in Nat
           /\ Append(s, e)[Len(s) + 1] = e
           /\ \A i \in 1..Len(s) : Append(s, e)[i] = s[i]
  OBVIOUS

-----------------------------------------------------------------------------
\* The owner of a key gives it up: by the drop of a permit, or by the drop of a
\* future that was granted the key.
LEMMA ReleaseConsistent ==
    ASSUME Consistent, NEW f \in Futures, Owns(f, key[f]),
           at' = [at EXCEPT ![f] = "idle"], ReleaseKeyLocked(f), UNCHANGED <<closed, key>>
    PROVE  Consistent'
  <1>. DEFINE k == key[f]
  <1>1. k \in Keys /\ k \in active /\ line[k] \in Seq(Futures) /\ f \in DOMAIN at /\ f \in DOMAIN status /\ k \in DOMAIN line
    BY DEF Consistent, Types, OneOwner
  <1>4. status[f] # "Waiting"
    BY DEF Owns, Consistent, Lines
  <1>2. CASE line[k] # <<>>
    <2>. DEFINE h == Head(line[k])
    <2>1. /\ Tail(line[k]) \in Seq(Futures) /\ Len(Tail(line[k])) = Len(line[k]) - 1
          /\ Len(line[k]) \in Nat \ {0} /\ h = line[k][1] /\ h \in Futures
          /\ \A i \in 1..Len(Tail(line[k])) : Tail(line[k])[i] = line[k][i + 1]
      BY <1>1, <1>2, TailFacts
    <2>2. /\ line' = [line EXCEPT ![k] = Tail(line[k])] /\ queued' = Decremented(queued)
          /\ status' = [status EXCEPT ![f] = "none", ![h] = "Granted"]
          /\ waker' = waker \ {h} /\ woken' = (woken \ {f}) \cup (waker \cap {h}) /\ active' = active
      BY <1>2 DEF ReleaseKeyLocked
    <2>3. status[h] = "Waiting" /\ key[h] = k /\ at[h] = "waiting"
      BY <1>1, <2>1 DEF Consistent, Lines
    <2>4. h # f
      BY <2>3, <1>4
    <2>5. Types'
      <3>1. line' \in [Keys -> Seq(Futures)]
        BY <1>1, <2>1, <2>2 DEF Consistent, Types
      <3>2. status' \in [Futures -> WaiterStatus \cup {"none"}]
        BY <2>1, <2>2, Zenon DEF Consistent, Types, WaiterStatus
      <3>3. at' \in [Futures -> Places]
        BY DEF Consistent, Types, Places
      <3>4. queued' \in Nat
        BY <2>2 DEF Consistent, Types, Decremented
      <3>. QED
        BY <2>1, <2>2, <3>1, <3>2, <3>3, <3>4, Zenon DEF Consistent, Types
    <2>6. /\ status'[h] = "Granted" /\ status'[f] = "none" /\ \A g \in Futures \ {f, h} : status'[g] = status[g]
          /\ at'[f] = "idle" /\ \A g \in Futures \ {f} : at'[g] = at[g]
          /\ line'[k] = Tail(line[k]) /\ \A l \in Keys \ {k} : line'[l] = line[l]
          /\ key' = key
      BY <1>1, <2>1, <2>2, <2>4 DEF Consistent, Types
    <2>7. Lines'
      <3>1. ASSUME NEW l \in Keys, NEW i \in 1..Len(line'[l])
            PROVE  /\ status'[line'[l][i]] = "Waiting" /\ key'[line'[l][i]] = l
        <4>1. CASE l # k
          <5>1. line[l] \in Seq(Futures) /\ line'[l] = line[l] /\ line[l][i] \in Futures
            BY <4>1, <2>6, <3>1 DEF Consistent, Types
          <5>2. status[line[l][i]] = "Waiting" /\ key[line[l][i]] = l
            BY <5>1, <3>1 DEF Consistent, Lines
          <5>. QED
            BY <5>1, <5>2, <4>1, <2>3, <2>6, <1>4
        <4>2. CASE l = k
          <5>1. i + 1 \in 1..Len(line[k]) /\ line'[l][i] = line[k][i + 1] /\ line[k][i + 1] \in Futures /\ 1 \in 1..Len(line[k])
            BY <4>2, <1>1, <2>1, <2>6, <3>1
          <5>2. status[line[k][i + 1]] = "Waiting" /\ key[line[k][i + 1]] = k /\ line[k][i + 1] # h
            BY <5>1, <1>1, <2>1 DEF Consistent, Lines
          <5>. QED
            BY <5>1, <5>2, <4>2, <2>6, <1>4
        <4>. QED
          BY <4>1, <4>2
      <3>2. ASSUME NEW l \in Keys, NEW i \in 1..Len(line'[l]), NEW j \in 1..Len(line'[l]), line'[l][i] = line'[l][j]
            PROVE  i = j
        <4>1. CASE l # k
          BY <4>1, <2>6, <3>2 DEF Consistent, Lines
        <4>2. CASE l = k
          <5>1. /\ i + 1 \in 1..Len(line[k]) /\ line'[l][i] = line[k][i + 1]
                /\ j + 1 \in 1..Len(line[k]) /\ line'[l][j] = line[k][j + 1]
            BY <4>2, <1>1, <2>1, <2>6, <3>2
          <5>3. \A a, b \in 1..Len(line[k]) : line[k][a] = line[k][b] => a = b
            BY <1>1 DEF Consistent, Lines
          <5>2. i + 1 = j + 1
            BY <5>1, <5>3, <3>2, Zenon
          <5>. QED
            BY <5>2
        <4>. QED
          BY <4>1, <4>2
      <3>3. \A g \in Futures : status'[g] # "none" => at'[g] = "waiting"
        BY <2>3, <2>4, <2>6 DEF Consistent, Lines
      <3>. QED
        BY <3>1, <3>2, <3>3 DEF Lines
    <2>8. \A g \in Futures, l \in Keys : Owns(g, l)' <=> IF l = k THEN g = h ELSE Owns(g, l)
      BY <1>1, <2>3, <2>4, <2>6 DEF Owns, Consistent, OneOwner
    <2>9. OneOwner'
      BY <1>1, <2>1, <2>2, <2>8 DEF OneOwner, Consistent
    <2>10. \A l \in Keys \ active' : line'[l] = <<>>
      BY <1>1, <2>2, <2>6 DEF Consistent
    <2>. QED
      BY <2>5, <2>7, <2>9, <2>10 DEF Consistent
  <1>3. CASE line[k] = <<>>
    <2>1. /\ active' = active \ {k} /\ status' = [status EXCEPT ![f] = "none"] /\ woken' = woken \ {f}
          /\ line' = line /\ queued' = queued /\ waker' = waker
      BY <1>3 DEF ReleaseKeyLocked
    <2>2. Types'
      BY <1>1, <2>1 DEF Consistent, Types, Places, WaiterStatus
    <2>3. /\ status'[f] = "none" /\ \A g \in Futures \ {f} : status'[g] = status[g]
          /\ at'[f] = "idle" /\ \A g \in Futures \ {f} : at'[g] = at[g]
          /\ key' = key /\ line' = line
      BY <1>1, <2>1 DEF Consistent, Types
    <2>4. Lines'
      <3>1. ASSUME NEW l \in Keys, NEW i \in 1..Len(line[l])
            PROVE  status'[line[l][i]] = "Waiting" /\ key'[line[l][i]] = l
        <4>1. line[l] \in Seq(Futures) /\ line[l][i] \in Futures /\ status[line[l][i]] = "Waiting" /\ key[line[l][i]] = l
          BY <3>1 DEF Consistent, Types, Lines
        <4>2. line[l][i] # f
          BY <1>4, <4>1
        <4>. QED
          BY <4>1, <4>2, <2>3
      <3>2. \A g \in Futures : status'[g] # "none" => at'[g] = "waiting"
        BY <2>3 DEF Consistent, Lines
      <3>. QED
        BY <3>1, <3>2, <2>3 DEF Lines, Consistent
    <2>5. \A g \in Futures, l \in Keys : Owns(g, l)' <=> Owns(g, l) /\ l # k
      BY <1>1, <2>3 DEF Owns, Consistent, OneOwner
    <2>6. OneOwner'
      BY <1>1, <2>1, <2>5 DEF OneOwner, Consistent
    <2>7. \A l \in Keys \ active' : line'[l] = <<>>
      BY <1>3, <2>1 DEF Consistent
    <2>. QED
      BY <2>2, <2>4, <2>6, <2>7 DEF Consistent
  <1>. QED
    BY <1>2, <1>3

-----------------------------------------------------------------------------
\* A step that leaves the gate alone, apart from wakers.
LEMMA QuietConsistent ==
    ASSUME Consistent, UNCHANGED <<closed, queued, active, line, status>>, key' \in [Futures -> Keys],
           waker' \subseteq Futures, woken' \subseteq Futures, at' \in [Futures -> Places],
           \A f \in Futures : status[f] # "none" => at'[f] = at[f] /\ key'[f] = key[f],
           \A f \in Futures : at'[f] = "permit" <=> at[f] = "permit",
           \A f \in Futures : at[f] = "permit" => key'[f] = key[f]
    PROVE  Consistent'
  <1>1. Types'
    BY DEF Consistent, Types
  <1>2. Lines'
    <2>1. ASSUME NEW k \in Keys, NEW i \in 1..Len(line[k])
          PROVE  status[line[k][i]] = "Waiting" /\ key'[line[k][i]] = k
      <3>1. line[k] \in Seq(Futures) /\ line[k][i] \in Futures /\ status[line[k][i]] = "Waiting" /\ key[line[k][i]] = k
        BY <2>1 DEF Consistent, Types, Lines
      <3>. QED
        BY <3>1
    <2>. QED
      BY <2>1 DEF Lines, Consistent
  <1>3. \A f \in Futures, k \in Keys : Owns(f, k)' <=> Owns(f, k)
    BY DEF Owns, Consistent, Lines
  <1>4. OneOwner'
    BY <1>3 DEF OneOwner, Consistent
  <1>. QED
    BY <1>1, <1>2, <1>4 DEF Consistent

\* A future that is not the owner of its key stops being a waiter.
LEMMA LeaveConsistent ==
    ASSUME Consistent, NEW f \in Futures, at[f] # "permit", status[f] # "Granted", status[f] # "Waiting",
           at' = [at EXCEPT ![f] = "idle"], status' = [status EXCEPT ![f] = "none"],
           woken' = woken \ {f}, UNCHANGED <<closed, queued, active, line, waker, key>>
    PROVE  Consistent'
  <1>1. Types'
    BY DEF Consistent, Types, Places, WaiterStatus
  <1>2. /\ status'[f] = "none" /\ at'[f] = "idle"
        /\ \A g \in Futures \ {f} : status'[g] = status[g] /\ at'[g] = at[g]
    BY DEF Consistent, Types
  <1>3. Lines'
    <2>1. ASSUME NEW k \in Keys, NEW i \in 1..Len(line[k])
          PROVE  status'[line[k][i]] = "Waiting" /\ key[line[k][i]] = k
      <3>1. line[k] \in Seq(Futures) /\ line[k][i] \in Futures /\ status[line[k][i]] = "Waiting" /\ key[line[k][i]] = k
        BY <2>1 DEF Consistent, Types, Lines
      <3>. QED
        BY <3>1, <1>2
    <2>. QED
      BY <2>1, <1>2 DEF Lines, Consistent
  <1>4. \A g \in Futures, k \in Keys : Owns(g, k)' <=> Owns(g, k)
    BY <1>2 DEF Owns
  <1>5. OneOwner'
    BY <1>4 DEF OneOwner, Consistent
  <1>. QED
    BY <1>1, <1>3, <1>5 DEF Consistent

\* The first poll registers a waiter, takes a free key, or is refused.
LEMMA FirstPollConsistent ==
    ASSUME Consistent, NEW f \in Futures, FirstPoll(f)
    PROVE  Consistent'
  <1>1. at[f] = "new" /\ status[f] = "none" /\ key[f] \in Keys /\ line[key[f]] \in Seq(Futures)
    BY DEF FirstPoll, Consistent, Lines, Types
  <1>2. CASE Refused(f) /\ UNCHANGED gate
    BY <1>1, <1>2, QuietConsistent DEF Refused, gate, Consistent, Types, Places
  <1>3. CASE /\ Available(f) /\ active' = active \cup {key[f]} /\ at' = [at EXCEPT ![f] = "permit"]
             /\ woken' = woken \ {f} /\ UNCHANGED <<closed, queued, line, status, waker, key>>
    <2>1. Types'
      BY <1>1, <1>3 DEF Consistent, Types, Places
    <2>2. at'[f] = "permit" /\ \A g \in Futures \ {f} : at'[g] = at[g]
      BY <1>3 DEF Consistent, Types
    <2>3. Lines'
      BY <1>1, <1>3, <2>2 DEF Lines, Consistent
    <2>4. \A g \in Futures, k \in Keys : Owns(g, k)' <=> Owns(g, k) \/ (g = f /\ k = key[f])
      BY <1>1, <1>3, <2>2 DEF Owns
    <2>5. OneOwner'
      BY <1>1, <1>3, <2>4 DEF OneOwner, Consistent, Available
    <2>. QED
      BY <1>3, <2>1, <2>3, <2>5 DEF Consistent
  <1>4. CASE /\ ~Available(f) /\ line' = [line EXCEPT ![key[f]] = Append(line[key[f]], f)]
             /\ queued' = queued + 1 /\ status' = [status EXCEPT ![f] = "Waiting"]
             /\ waker' = waker \cup {f} /\ at' = [at EXCEPT ![f] = "waiting"]
             /\ woken' = woken \ {f} /\ UNCHANGED <<closed, active, key>>
    <2>. DEFINE k == key[f]
    <2>1. /\ Append(line[k], f) \in Seq(Futures) /\ Len(Append(line[k], f)) = Len(line[k]) + 1 /\ Len(line[k]) \in Nat
          /\ Append(line[k], f)[Len(line[k]) + 1] = f
          /\ \A i \in 1..Len(line[k]) : Append(line[k], f)[i] = line[k][i]
      BY <1>1, AppendFacts
    <2>2. /\ status'[f] = "Waiting" /\ \A g \in Futures \ {f} : status'[g] = status[g]
          /\ at'[f] = "waiting" /\ \A g \in Futures \ {f} : at'[g] = at[g]
          /\ line'[k] = Append(line[k], f) /\ \A l \in Keys \ {k} : line'[l] = line[l]
          /\ key' = key
      BY <1>1, <1>4 DEF Consistent, Types
    <2>3. Types'
      <3>1. line' \in [Keys -> Seq(Futures)]
        BY <1>1, <1>4, <2>1 DEF Consistent, Types
      <3>2. status' \in [Futures -> WaiterStatus \cup {"none"}] /\ at' \in [Futures -> Places]
        BY <1>4 DEF Consistent, Types, WaiterStatus, Places
      <3>. QED
        BY <1>4, <3>1, <3>2 DEF Consistent, Types
    <2>4. \A l \in Keys : \A i \in 1..Len(line[l]) :
              line[l][i] \in Futures \ {f} /\ status[line[l][i]] = "Waiting" /\ key[line[l][i]] = l
      BY <1>1 DEF Consistent, Types, Lines
    <2>5. Lines'
      <3>1. ASSUME NEW l \in Keys, NEW i \in 1..Len(line'[l])
            PROVE  status'[line'[l][i]] = "Waiting" /\ key'[line'[l][i]] = l
        <4>1. CASE l # k
          BY <4>1, <2>2, <2>4, <3>1
        <4>2. CASE l = k /\ i = Len(line[k]) + 1
          BY <4>2, <2>1, <2>2, Zenon
        <4>3. CASE l = k /\ i # Len(line[k]) + 1
          <5>1. i \in 1..Len(line[k]) /\ line'[l][i] = line[k][i]
            BY <4>3, <2>1, <2>2, <3>1
          <5>. QED
            BY <5>1, <1>1, <4>3, <2>2, <2>4, SMTT(30)
        <4>. QED
          BY <4>1, <4>2, <4>3, Zenon
      <3>2. ASSUME NEW l \in Keys, NEW i \in 1..Len(line'[l]), NEW j \in 1..Len(line'[l]), line'[l][i] = line'[l][j]
            PROVE  i = j
        <4>0. \A a, b \in 1..Len(line[l]) : line[l][a] = line[l][b] => a = b
          BY <3>2 DEF Consistent, Lines
        <4>1. CASE l # k
          BY <4>0, <4>1, <2>2, <3>2
        <4>2. CASE l = k
          <5>1. \A a \in 1..(Len(line[k]) + 1) : line'[l][a] = IF a = Len(line[k]) + 1 THEN f ELSE line[k][a]
            BY <4>2, <2>1, <2>2
          <5>2. i \in 1..(Len(line[k]) + 1) /\ j \in 1..(Len(line[k]) + 1)
            BY <4>2, <2>1, <2>2, <3>2
          <5>3. \A a \in 1..Len(line[k]) : line[k][a] # f
            BY <1>1, <2>4
          <5>. HIDE DEF k
          <5>4. CASE i # Len(line[k]) + 1 /\ j # Len(line[k]) + 1
            <6>1. i \in 1..Len(line[k]) /\ j \in 1..Len(line[k])
              BY <5>2, <5>4, <2>1
            <6>2. line[k][i] = line[k][j]
              BY <5>1, <5>2, <5>4, <3>2
            <6>. QED
              BY <6>1, <6>2, <4>0, <4>2
          <5>5. ASSUME NEW a \in 1..(Len(line[k]) + 1), a # Len(line[k]) + 1 PROVE line'[l][a] # f
            <6>1. a \in 1..Len(line[k])
              BY <5>5, <2>1
            <6>. QED
              BY <6>1, <5>1, <5>3, <5>5
          <5>6. line'[l][Len(line[k]) + 1] = f
            BY <5>1, <2>1
          <5>. QED
            BY <5>2, <5>4, <5>5, <5>6, <3>2, Zenon
        <4>. QED
          BY <4>1, <4>2
      <3>3. \A g \in Futures : status'[g] # "none" => at'[g] = "waiting"
        BY <2>2 DEF Consistent, Lines
      <3>. QED
        BY <3>1, <3>2, <3>3, Zenon DEF Lines
    <2>6. \A g \in Futures, l \in Keys : Owns(g, l)' <=> Owns(g, l)
      BY <1>1, <2>2 DEF Owns
    <2>7. OneOwner'
      BY <1>4, <2>6 DEF OneOwner, Consistent
    <2>8. \A l \in Keys \ active' : line'[l] = <<>>
      BY <1>4, <2>2 DEF Consistent, Available
    <2>. QED
      BY <2>3, <2>5, <2>7, <2>8 DEF Consistent
  <1>. QED
    BY <1>2, <1>3, <1>4 DEF FirstPoll

\* A later poll finds the waiter waiting, granted or closed.
LEMMA PollAgainConsistent ==
    ASSUME Consistent, NEW f \in Futures, PollAgain(f)
    PROVE  Consistent'
  <1>1. CASE status[f] = "Waiting" /\ waker' = waker \cup {f} /\ woken' = woken \ {f}
             /\ UNCHANGED <<closed, queued, active, line, status, at, key>>
    BY <1>1, QuietConsistent DEF Consistent, Types
  <1>2. CASE /\ status[f] = "Granted" /\ status' = [status EXCEPT ![f] = "none"] /\ at' = [at EXCEPT ![f] = "permit"]
             /\ woken' = woken \ {f} /\ UNCHANGED <<closed, queued, active, line, waker, key>>
    <2>1. Types'
      BY <1>2 DEF Consistent, Types, Places, WaiterStatus
    <2>2. /\ status'[f] = "none" /\ at'[f] = "permit"
          /\ \A g \in Futures \ {f} : status'[g] = status[g] /\ at'[g] = at[g]
      BY <1>2 DEF Consistent, Types
    <2>3. Lines'
      <3>1. ASSUME NEW k \in Keys, NEW i \in 1..Len(line[k])
            PROVE  status'[line[k][i]] = "Waiting" /\ key[line[k][i]] = k
        <4>1. line[k] \in Seq(Futures) /\ line[k][i] \in Futures /\ status[line[k][i]] = "Waiting" /\ key[line[k][i]] = k
          BY <3>1 DEF Consistent, Types, Lines
        <4>. QED
          BY <4>1, <1>2, <2>2
      <3>. QED
        BY <1>2, <2>2, <3>1 DEF Lines, Consistent
    <2>4. \A g \in Futures, k \in Keys : Owns(g, k)' <=> Owns(g, k)
      BY <1>2, <2>2 DEF Owns
    <2>5. OneOwner'
      BY <1>2, <2>4 DEF OneOwner, Consistent
    <2>. QED
      BY <1>2, <2>1, <2>3, <2>5 DEF Consistent
  <1>3. CASE status[f] = "Closed" /\ status' = [status EXCEPT ![f] = "none"] /\ Refused(f)
             /\ UNCHANGED <<closed, queued, active, line, waker>>
    BY <1>3, LeaveConsistent, Zenon DEF Refused, PollAgain
  <1>. QED
    BY <1>1, <1>2, <1>3 DEF PollAgain

\* A waiter is dropped out of the middle of its line.
LEMMA LeaveLineConsistent ==
    ASSUME Consistent, NEW f \in Futures, status[f] = "Waiting", at' = [at EXCEPT ![f] = "idle"],
           LeaveLine(f), UNCHANGED <<closed, key>>
    PROVE  Consistent'
  <1>. DEFINE k == key[f]
  <1>1. k \in Keys /\ line[k] \in Seq(Futures) /\ at[f] = "waiting"
    BY DEF Consistent, Types, Lines
  <1>2. PICK p \in 1..Len(line[k]) : line[k][p] = f /\ line' = [line EXCEPT ![k] = Without(line[k], p)]
    BY Zenon DEF LeaveLine
  <1>3. /\ Without(line[k], p) \in Seq(Futures) /\ Len(Without(line[k], p)) = Len(line[k]) - 1 /\ Len(line[k]) \in Nat
        /\ \A j \in 1..(Len(line[k]) - 1) : Without(line[k], p)[j] = IF j < p THEN line[k][j] ELSE line[k][j + 1]
    <2>1. Len(line[k]) \in Nat
      BY <1>1
    <2>. QED
      BY <1>1, <2>1, WithoutFacts, Zenon
  <1>4. /\ queued' = Decremented(queued) /\ status' = [status EXCEPT ![f] = "none"]
        /\ waker' = waker \ {f} /\ woken' = woken \ {f} /\ active' = active
    BY DEF LeaveLine
  <1>5. /\ status'[f] = "none" /\ \A g \in Futures \ {f} : status'[g] = status[g]
        /\ at'[f] = "idle" /\ \A g \in Futures \ {f} : at'[g] = at[g]
        /\ line'[k] = Without(line[k], p) /\ \A l \in Keys \ {k} : line'[l] = line[l]
        /\ key' = key
    BY <1>1, <1>2, <1>4 DEF Consistent, Types
  <1>6. Types'
    <2>1. line' \in [Keys -> Seq(Futures)]
      BY <1>1, <1>2, <1>3 DEF Consistent, Types
    <2>2. status' \in [Futures -> WaiterStatus \cup {"none"}] /\ at' \in [Futures -> Places]
      BY <1>4 DEF Consistent, Types, WaiterStatus, Places
    <2>3. queued' \in Nat
      BY <1>4 DEF Consistent, Types, Decremented
    <2>. QED
      BY <1>4, <2>1, <2>2, <2>3 DEF Consistent, Types
  <1>7. /\ \A l \in Keys : \A i \in 1..Len(line[l]) : line[l][i] \in Futures /\ status[line[l][i]] = "Waiting" /\ key[line[l][i]] = l
        /\ \A l \in Keys : \A i, j \in 1..Len(line[l]) : line[l][i] = line[l][j] => i = j
    BY DEF Consistent, Types, Lines
  <1>8. ASSUME NEW i \in 1..Len(line'[k])
        PROVE  LET q == IF i < p THEN i ELSE i + 1 IN q \in 1..Len(line[k]) /\ q # p /\ line'[k][i] = line[k][q]
    BY <1>3, <1>5
  <1>9. Lines'
    <2>1. ASSUME NEW l \in Keys, NEW i \in 1..Len(line'[l])
          PROVE  status'[line'[l][i]] = "Waiting" /\ key'[line'[l][i]] = l
      <3>1. CASE l # k
        <4>1. line'[l] = line[l] /\ line[l][i] \in Futures /\ status[line[l][i]] = "Waiting" /\ key[line[l][i]] = l
          BY <3>1, <2>1, <1>5, <1>7
        <4>2. line[l][i] # f
          BY <3>1, <4>1, Zenon
        <4>. QED
          BY <4>1, <4>2, <1>5
      <3>2. CASE l = k
        <4>1. PICK q \in 1..Len(line[k]) : q # p /\ line'[k][i] = line[k][q]
          BY <3>2, <2>1, <1>8, Zenon
        <4>2. line[k][q] \in Futures /\ status[line[k][q]] = "Waiting" /\ key[line[k][q]] = k /\ line[k][q] # f
          BY <4>1, <1>1, <1>2, <1>7, SMTT(30)
        <4>. QED
          BY <4>1, <4>2, <3>2, <1>5
      <3>. QED
        BY <3>1, <3>2
    <2>2. ASSUME NEW l \in Keys, NEW i \in 1..Len(line'[l]), NEW j \in 1..Len(line'[l]), line'[l][i] = line'[l][j]
          PROVE  i = j
      <3>1. CASE l # k
        BY <3>1, <2>2, <1>5, <1>7
      <3>2. CASE l = k
        <4>. DEFINE a == IF i < p THEN i ELSE i + 1
                    b == IF j < p THEN j ELSE j + 1
        <4>1. a \in 1..Len(line[k]) /\ line'[k][i] = line[k][a]
          BY <3>2, <2>2, <1>8
        <4>2. b \in 1..Len(line[k]) /\ line'[k][j] = line[k][b]
          BY <3>2, <2>2, <1>8
        <4>5. \A x, y \in 1..Len(line[k]) : line[k][x] = line[k][y] => x = y
          BY <1>1, <1>7
        <4>3. a = b
          <5>. HIDE DEF a, b
          <5>. QED
            BY <4>1, <4>2, <4>5, <3>2, <2>2, Zenon
        <4>4. i \in Int /\ j \in Int
          BY <3>2, <1>3, <1>5
        <4>. QED
          BY <4>3, <4>4
      <3>. QED
        BY <3>1, <3>2
    <2>3. \A g \in Futures : status'[g] # "none" => at'[g] = "waiting"
      BY <1>5 DEF Consistent, Lines
    <2>. QED
      BY <2>1, <2>2, <2>3 DEF Lines
  <1>10. \A g \in Futures, l \in Keys : Owns(g, l)' <=> Owns(g, l)
    BY <1>1, <1>5 DEF Owns
  <1>11. OneOwner'
    BY <1>4, <1>10 DEF OneOwner, Consistent
  <1>12. \A l \in Keys \ active' : line'[l] = <<>>
    <2>1. k \in active
      BY <1>1, <1>2 DEF Consistent
    <2>. QED
      BY <2>1, <1>4, <1>5 DEF Consistent
  <1>. QED
    BY <1>6, <1>9, <1>11, <1>12 DEF Consistent

LEMMA CloseConsistent ==
    ASSUME Consistent, Close
    PROVE  Consistent'
  <1>1. /\ line' = [k \in Keys |-> <<>>] /\ closed' = TRUE /\ queued' = 0
        /\ status' = [f \in Futures |-> IF f \in Queued THEN "Closed" ELSE status[f]]
        /\ waker' = waker \ Queued /\ woken' = woken \cup (waker \cap Queued)
        /\ UNCHANGED <<active, at, key>>
    BY DEF Close
  <1>2. Types'
    <2>1. line' \in [Keys -> Seq(Futures)]
      BY <1>1
    <2>2. status' \in [Futures -> WaiterStatus \cup {"none"}]
      BY <1>1 DEF Consistent, Types, WaiterStatus
    <2>. QED
      BY <1>1, <2>1, <2>2 DEF Consistent, Types
  <1>3. \A f \in Queued : status[f] = "Waiting"
    BY DEF Queued, Consistent, Lines, Types
  <1>4. \A f \in Futures : \/ status'[f] = status[f]
                           \/ status[f] = "Waiting" /\ status'[f] = "Closed"
    BY <1>1, <1>3
  <1>5. \A k \in Keys : line'[k] = <<>> /\ Len(line'[k]) = 0
    BY <1>1
  <1>6. Lines'
    BY <1>1, <1>4, <1>5 DEF Lines, Consistent
  <1>7. \A f \in Futures, k \in Keys : Owns(f, k)' <=> Owns(f, k)
    BY <1>1, <1>4 DEF Owns
  <1>8. OneOwner'
    BY <1>1, <1>7 DEF OneOwner, Consistent
  <1>. QED
    BY <1>2, <1>5, <1>6, <1>8 DEF Consistent

LEMMA NextConsistent ==
    ASSUME Consistent, [Next]_vars
    PROVE  Consistent'
  <1>1. ASSUME NEW f \in Futures, NEW k \in Keys, Acquire(f, k)
        PROVE  Consistent'
    <2>1. at[f] = "idle" /\ at' = [at EXCEPT ![f] = "new"] /\ key' = [key EXCEPT ![f] = k]
          /\ woken' = woken \cup {f} /\ UNCHANGED <<closed, queued, active, line, status, waker>>
      BY <1>1 DEF Acquire, gate
    <2>2. at' \in [Futures -> Places] /\ key' \in [Futures -> Keys] /\ woken' \subseteq Futures /\ waker' \subseteq Futures
      BY <1>1, <2>1 DEF Consistent, Types, Places
    <2>3. status[f] = "none"
      BY <2>1 DEF Consistent, Lines
    <2>4. \A g \in Futures \ {f} : at'[g] = at[g] /\ key'[g] = key[g]
      BY <2>1 DEF Consistent, Types
    <2>5. at'[f] = "new"
      BY <2>1 DEF Consistent, Types
    <2>. QED
      BY <2>1, <2>2, <2>3, <2>4, <2>5, QuietConsistent
  <1>2. ASSUME NEW f \in Futures, Drop(f)
        PROVE  Consistent'
    <2>0. at[f] # "permit" /\ at' = [at EXCEPT ![f] = "idle"] /\ UNCHANGED <<closed, key>>
      BY <1>2 DEF Drop
    <2>1. CASE status[f] \in {"none", "Closed"} /\ LeaveNothing(f)
      BY <2>0, <2>1, LeaveConsistent, Zenon DEF LeaveNothing
    <2>2. CASE status[f] = "Waiting" /\ LeaveLine(f)
      BY <2>0, <2>2, LeaveLineConsistent, Zenon
    <2>3. CASE status[f] = "Granted" /\ ReleaseKeyLocked(f)
      BY <2>0, <2>3, ReleaseConsistent, Zenon DEF Owns
    <2>. QED
      BY <1>2, <2>1, <2>2, <2>3 DEF Drop
  <1>3. ASSUME NEW f \in Futures, Release(f)
        PROVE  Consistent'
    BY <1>3, ReleaseConsistent, Zenon DEF Release, Owns
  <1>4. ASSUME NEW f \in Futures, Poll(f)
        PROVE  Consistent'
    BY <1>4, FirstPollConsistent, PollAgainConsistent DEF Poll
  <1>5. CASE UNCHANGED vars
    BY <1>5, QuietConsistent DEF vars, Consistent, Types
  <1>. QED
    BY <1>1, <1>2, <1>3, <1>4, <1>5, CloseConsistent DEF Next

LEMMA InitConsistent == Init => Consistent
  <1>. SUFFICES ASSUME Init PROVE Consistent
    OBVIOUS
  <1>1. \A k \in Keys : line[k] = <<>> /\ Len(line[k]) = 0
    BY DEF Init
  <1>2. Types
    <2>1. line \in [Keys -> Seq(Futures)]
      BY DEF Init
    <2>. QED
      BY <2>1, Zenon DEF Init, Types, Places, WaiterStatus
  <1>3. Lines
    BY <1>1 DEF Init, Lines
  <1>4. OneOwner
    BY DEF Init, OneOwner, Owns
  <1>. QED
    BY <1>1, <1>2, <1>3, <1>4 DEF Consistent

LEMMA AlwaysConsistent == Spec => []Consistent
  BY InitConsistent, NextConsistent, PTL DEF Spec

\* At every moment a key has at most one owner, and an entry exactly while it has
\* one, for any number of callers and keys.
THEOREM MutualExclusion == Spec => []OneOwner
  <1>1. Consistent => OneOwner
    BY DEF Consistent
  <1>. QED
    BY <1>1, AlwaysConsistent, PTL

-----------------------------------------------------------------------------
\* The count of waiters, and the order of service.

Waiting == {f \in Futures : status[f] = "Waiting"}

\* Every waiter stands in the line of its key: the converse of Lines.
Standing == \A f \in Waiting : \E i \in 1..Len(line[key[f]]) : line[key[f]][i] = f

\* The count is the number of waiters, and both limits are kept.
Counted ==
    /\ IsFiniteSet(Waiting) /\ queued = Cardinality(Waiting) /\ queued =< MaxQueued
    /\ \A k \in active : 1 + Len(line[k]) =< MaxPerKey

\* A step that no line notices.  A key that is taken has an empty line.
LEMMA SameCounted ==
    ASSUME Consistent, Standing, Counted, UNCHANGED <<queued, line>>, Waiting' = Waiting,
           \A f \in Waiting : key'[f] = key[f],
           \A k \in active' \ active : k \in Keys
    PROVE  Standing' /\ Counted'
  <1>1. Standing'
    BY Zenon DEF Standing
  <1>2. ASSUME NEW k \in active' PROVE 1 + Len(line[k]) =< MaxPerKey
    <2>1. CASE k \in active
      BY <2>1, Zenon DEF Counted
    <2>2. CASE k \notin active
      <3>1. line[k] = <<>>
        BY <1>2, <2>2, Zenon DEF Consistent
      <3>. QED
        BY <3>1, GateAssumption
    <2>. QED
      BY <2>1, <2>2
  <1>. QED
    BY <1>1, <1>2, Zenon DEF Counted

\* A waiter joins the end of the line of its key.
LEMMA JoinCounted ==
    ASSUME Consistent, Standing, Counted, NEW f \in Futures, f \notin Waiting,
           ~PerKeyFull(f), ~QueueFull, queued' = queued + 1,
           line' = [line EXCEPT ![key[f]] = Append(line[key[f]], f)],
           Waiting' = Waiting \cup {f}, UNCHANGED <<active, key>>
    PROVE  Standing' /\ Counted'
  <1>. DEFINE k == key[f]
              n == Len(line[k])
  <1>1. k \in Keys /\ line[k] \in Seq(Futures) /\ line \in [Keys -> Seq(Futures)] /\ queued \in Nat
    BY Zenon DEF Consistent, Types
  <1>2. /\ Len(Append(line[k], f)) = n + 1 /\ n \in Nat /\ Append(line[k], f)[n + 1] = f
        /\ \A i \in 1..n : Append(line[k], f)[i] = line[k][i]
    BY <1>1, AppendFacts
  <1>3. line'[k] = Append(line[k], f) /\ \A l \in Keys \ {k} : line'[l] = line[l]
    BY <1>1, Zenon
  <1>. HIDE DEF k, n
  <1>4. ASSUME NEW g \in Waiting' PROVE \E i \in 1..Len(line'[key'[g]]) : line'[key'[g]][i] = g
    <2>1. key'[g] = key[g]
      OBVIOUS
    <2>2. CASE g = f
      <3>1. n + 1 \in 1..Len(line'[k])
        BY <1>2, <1>3
      <3>. QED
        BY <1>2, <1>3, <2>1, <2>2, <3>1, Zenon DEF k
    <2>3. CASE g # f
      <3>1. PICK i \in 1..Len(line[key[g]]) : line[key[g]][i] = g
        BY <2>3, Zenon DEF Standing
      <3>2. CASE key[g] = k
        <4>1. i \in 1..n /\ i \in 1..Len(line'[k])
          BY <1>2, <1>3, <3>1, <3>2 DEF n
        <4>. QED
          BY <1>2, <1>3, <2>1, <3>1, <3>2, <4>1
      <3>3. CASE key[g] # k
        <4>1. key[g] \in Keys
          BY <2>3, Zenon DEF Consistent, Types, Waiting
        <4>. QED
          BY <1>3, <2>1, <3>1, <3>3, <4>1
      <3>. QED
        BY <3>2, <3>3
    <2>. QED
      BY <2>2, <2>3
  <1>5. IsFiniteSet(Waiting') /\ Cardinality(Waiting') = Cardinality(Waiting) + 1
    BY FS_AddElement, Zenon DEF Counted
  <1>6. queued' = Cardinality(Waiting') /\ queued' =< MaxQueued
    BY <1>1, <1>5, GateAssumption DEF Counted, QueueFull
  <1>7. ASSUME NEW l \in active PROVE 1 + Len(line'[l]) =< MaxPerKey
    <2>1. CASE l = k
      BY <1>2, <1>3, <2>1, GateAssumption DEF PerKeyFull, k, n
    <2>2. CASE l # k
      BY <1>3, <1>7, <2>2, Zenon DEF Counted, Consistent, Types
    <2>. QED
      BY <2>1, <2>2, Zenon
  <1>. QED
    BY <1>4, <1>5, <1>6, <1>7, Zenon DEF Standing, Counted

\* A waiter leaves the line of its key, with the key or without it.
LEMMA LeaveCounted ==
    ASSUME Consistent, Standing, Counted, NEW f \in Waiting, queued' = Decremented(queued), NEW s,
           line' = [line EXCEPT ![key[f]] = s], Len(s) \in Nat, Len(s) = Len(line[key[f]]) - 1,
           \A i \in 1..Len(line[key[f]]) :
               line[key[f]][i] # f => \E j \in 1..Len(s) : s[j] = line[key[f]][i],
           Waiting' = Waiting \ {f}, UNCHANGED <<active, key>>
    PROVE  Standing' /\ Counted'
  <1>. DEFINE k == key[f]
  <1>1. /\ k \in Keys /\ line[k] \in Seq(Futures) /\ line \in [Keys -> Seq(Futures)]
        /\ MaxPerKey \in Nat /\ \A g \in Waiting : key[g] \in Keys
    BY GateAssumption, Zenon DEF Consistent, Types, Waiting
  <1>2. line'[k] = s /\ \A l \in Keys \ {k} : line'[l] = line[l]
    BY <1>1, Zenon
  <1>3. ASSUME NEW g \in Waiting' PROVE \E i \in 1..Len(line'[key'[g]]) : line'[key'[g]][i] = g
    <2>1. key'[g] = key[g] /\ g # f /\ g \in Waiting
      OBVIOUS
    <2>2. PICK i \in 1..Len(line[key[g]]) : line[key[g]][i] = g
      BY <2>1, Zenon DEF Standing
    <2>3. CASE key[g] = k
      BY <1>2, <2>1, <2>2, <2>3
    <2>4. CASE key[g] # k
      BY <1>1, <1>2, <2>1, <2>2, <2>4, Zenon
    <2>. QED
      BY <2>3, <2>4
  <1>4. /\ IsFiniteSet(Waiting') /\ Cardinality(Waiting') = Cardinality(Waiting) - 1
        /\ Cardinality(Waiting') \in Nat /\ Cardinality(Waiting) \in Nat
    BY FS_RemoveElement, FS_CardinalityType, Zenon DEF Counted
  <1>5. queued' = Cardinality(Waiting') /\ queued' =< MaxQueued
    BY <1>4, GateAssumption DEF Counted, Decremented
  <1>. HIDE DEF k
  <1>6. ASSUME NEW l \in active PROVE 1 + Len(line'[l]) =< MaxPerKey
    <2>0. 1 + Len(line[l]) =< MaxPerKey /\ l \in Keys
      BY <1>6, Zenon DEF Counted, Consistent, Types
    <2>1. CASE l = k
      <3>1. Len(line[k]) \in Nat /\ Len(s) = Len(line[k]) - 1 /\ line'[l] = s
        BY <1>1, <1>2, <2>1 DEF k
      <3>. QED
        BY <1>1, <2>0, <2>1, <3>1
    <2>2. CASE l # k
      BY <1>2, <2>0, <2>2, Zenon
    <2>. QED
      BY <2>1, <2>2
  <1>. QED
    BY <1>3, <1>4, <1>5, <1>6, Zenon DEF Standing, Counted

\* The owner of a key gives it up.
LEMMA ReleaseCounted ==
    ASSUME Consistent, Standing, Counted, NEW f \in Futures, Owns(f, key[f]), ReleaseKeyLocked(f), key' = key
    PROVE  Standing' /\ Counted'
  <1>. DEFINE k == key[f]
              h == Head(line[k])
  <1>1. k \in Keys /\ line[k] \in Seq(Futures) /\ status \in [Futures -> WaiterStatus \cup {"none"}] /\ active \subseteq Keys
    BY Zenon DEF Consistent, Types
  <1>2. status[f] # "Waiting"
    BY DEF Owns, Consistent, Lines
  <1>3. CASE line[k] # <<>>
    <2>1. /\ Len(Tail(line[k])) = Len(line[k]) - 1 /\ Len(line[k]) \in Nat \ {0} /\ h = line[k][1] /\ h \in Futures
          /\ \A i \in 1..Len(Tail(line[k])) : Tail(line[k])[i] = line[k][i + 1]
      BY <1>1, <1>3, TailFacts, Zenon
    <2>2. /\ line' = [line EXCEPT ![k] = Tail(line[k])] /\ queued' = Decremented(queued) /\ active' = active
          /\ status' = [status EXCEPT ![f] = "none", ![h] = "Granted"]
      BY <1>3, Zenon DEF ReleaseKeyLocked
    <2>3. 1 \in 1..Len(line[k])
      BY <2>1
    <2>4. status[h] = "Waiting" /\ key[h] = k
      <3>1. \A i \in 1..Len(line[k]) : status[line[k][i]] = "Waiting" /\ key[line[k][i]] = k
        BY <1>1, Zenon DEF Consistent, Lines
      <3>. QED
        BY <2>1, <2>3, <3>1
    <2>5. h \in Waiting /\ h # f
      BY <1>2, <2>1, <2>4, Zenon DEF Waiting
    <2>. HIDE DEF h
    <2>6. status'[f] = "none" /\ status'[h] = "Granted" /\ \A g \in Futures \ {f, h} : status'[g] = status[g]
      BY <1>1, <2>1, <2>2, <2>5
    <2>7. Waiting' = Waiting \ {h}
      BY <1>2, <2>6 DEF Waiting
    <2>8. ASSUME NEW i \in 1..Len(line[k]), line[k][i] # h
          PROVE  \E j \in 1..Len(Tail(line[k])) : Tail(line[k])[j] = line[k][i]
      <3>1. i - 1 \in 1..Len(Tail(line[k])) /\ (i - 1) + 1 = i
        BY <2>1, <2>8
      <3>. QED
        BY <2>1, <3>1, Zenon
    <2>9. Len(Tail(line[k])) \in Nat
      BY <2>1
    <2>. QED
      <3>. DEFINE s == Tail(line[k])
      <3>1. /\ line' = [line EXCEPT ![key[h]] = s] /\ Len(s) \in Nat /\ Len(s) = Len(line[key[h]]) - 1
            /\ \A i \in 1..Len(line[key[h]]) : line[key[h]][i] # h => \E j \in 1..Len(s) : s[j] = line[key[h]][i]
        BY <2>1, <2>2, <2>4, <2>8, <2>9, SMTT(30)
      <3>. HIDE DEF s
      <3>. QED
        BY <2>2, <2>5, <2>7, <3>1, LeaveCounted, Zenon
  <1>4. CASE line[k] = <<>>
    <2>1. active' = active \ {k} /\ status' = [status EXCEPT ![f] = "none"] /\ line' = line /\ queued' = queued
      BY <1>4, Zenon DEF ReleaseKeyLocked
    <2>2. status'[f] = "none" /\ \A g \in Futures \ {f} : status'[g] = status[g]
      BY <1>1, <2>1
    <2>3. Waiting' = Waiting
      BY <1>2, <2>2 DEF Waiting
    <2>. QED
      BY <2>1, <2>3, SameCounted, Zenon
  <1>. QED
    BY <1>3, <1>4

\* A waiter that gives up leaves the line and the count.
LEMMA DropCounted ==
    ASSUME Consistent, Standing, Counted, NEW f \in Futures, status[f] = "Waiting", LeaveLine(f), key' = key
    PROVE  Standing' /\ Counted'
  <1>. DEFINE k == key[f]
  <1>1. k \in Keys /\ line[k] \in Seq(Futures) /\ status \in [Futures -> WaiterStatus \cup {"none"}] /\ f \in Waiting
    BY Zenon DEF Consistent, Types, Waiting
  <1>2. PICK p \in 1..Len(line[k]) : line[k][p] = f /\ line' = [line EXCEPT ![k] = Without(line[k], p)]
    BY Zenon DEF LeaveLine
  <1>. DEFINE s == Without(line[k], p)
  <1>3. /\ Len(s) = Len(line[k]) - 1
        /\ \A j \in 1..(Len(line[k]) - 1) : s[j] = IF j < p THEN line[k][j] ELSE line[k][j + 1]
    BY <1>1, <1>2, WithoutFacts, Zenon
  <1>4. queued' = Decremented(queued) /\ status' = [status EXCEPT ![f] = "none"] /\ active' = active
    BY Zenon DEF LeaveLine
  <1>5. Waiting' = Waiting \ {f}
    BY <1>1, <1>4, Zenon DEF Waiting
  <1>6. Len(line[k]) \in Nat /\ p \in 1..Len(line[k]) /\ Len(s) \in Nat
    BY <1>1, <1>2, <1>3
  <1>. HIDE DEF s
  <1>7. ASSUME NEW i \in 1..Len(line[k]), line[k][i] # f
        PROVE  \E j \in 1..Len(s) : s[j] = line[k][i]
    <2>1. i # p
      BY <1>2, <1>7
    <2>2. CASE i < p
      <3>1. i \in 1..(Len(line[k]) - 1) /\ i \in 1..Len(s)
        BY <1>3, <1>6, <2>2
      <3>. QED
        BY <1>3, <2>2, <3>1, Zenon
    <2>3. CASE ~(i < p)
      <3>1. i - 1 \in 1..(Len(line[k]) - 1) /\ i - 1 \in 1..Len(s) /\ ~(i - 1 < p) /\ (i - 1) + 1 = i
        BY <1>3, <1>6, <2>1, <2>3
      <3>. QED
        BY <1>3, <3>1, Zenon
    <2>. QED
      BY <2>2, <2>3
  <1>8. line' = [line EXCEPT ![k] = s]
    BY <1>2 DEF s
  <1>. QED
    BY <1>1, <1>3, <1>4, <1>5, <1>6, <1>7, <1>8, LeaveCounted, Zenon

\* A poll joins the line, or no line notices it.
LEMMA PollCounted ==
    ASSUME Consistent, Standing, Counted, NEW f \in Futures, Poll(f)
    PROVE  Standing' /\ Counted'
  <1>0. /\ key[f] \in Keys /\ active \subseteq Keys /\ status \in [Futures -> WaiterStatus \cup {"none"}]
        /\ at[f] = "new" => status[f] = "none"
    BY Zenon DEF Consistent, Types, Lines
  <1>1. CASE /\ status' = status \/ (status[f] # "Waiting" /\ status' = [status EXCEPT ![f] = "none"])
             /\ UNCHANGED <<queued, line, key>> /\ active' \subseteq active \cup {key[f]}
    <2>1. Waiting' = Waiting
      BY <1>0, <1>1 DEF Waiting
    <2>. QED
      BY <1>0, <1>1, <2>1, SameCounted, Zenon
  <1>2. CASE /\ at[f] = "new" /\ ~PerKeyFull(f) /\ ~QueueFull /\ queued' = queued + 1
             /\ line' = [line EXCEPT ![key[f]] = Append(@, f)]
             /\ status' = [status EXCEPT ![f] = "Waiting"] /\ UNCHANGED <<active, key>>
    <2>1. f \notin Waiting /\ Waiting' = Waiting \cup {f}
      BY <1>0, <1>2 DEF Waiting
    <2>. QED
      BY <1>2, <2>1, JoinCounted, Zenon
  <1>3. \/ /\ status' = status \/ (status[f] # "Waiting" /\ status' = [status EXCEPT ![f] = "none"])
           /\ UNCHANGED <<queued, line, key>> /\ active' \subseteq active \cup {key[f]}
        \/ /\ at[f] = "new" /\ ~PerKeyFull(f) /\ ~QueueFull /\ queued' = queued + 1
           /\ line' = [line EXCEPT ![key[f]] = Append(@, f)]
           /\ status' = [status EXCEPT ![f] = "Waiting"] /\ UNCHANGED <<active, key>>
    BY Zenon DEF Poll, FirstPoll, PollAgain, Refused, gate
  <1>. QED
    BY <1>1, <1>2, <1>3, Zenon

\* A close empties the lines: everyone who waited is in one of them.
LEMMA CloseCounted ==
    ASSUME Consistent, Standing, Counted, Close
    PROVE  Standing' /\ Counted'
  <1>1. Waiting \subseteq Queued
    <2>. SUFFICES ASSUME NEW f \in Waiting PROVE f \in Queued
      OBVIOUS
    <2>1. PICK i \in 1..Len(line[key[f]]) : line[key[f]][i] = f
      BY Zenon DEF Standing
    <2>2. f \in Futures /\ key[f] \in Keys
      BY Zenon DEF Waiting, Consistent, Types
    <2>3. key[f] \in active
      <3>1. CASE line[key[f]] = <<>>
        BY <2>1, <3>1
      <3>2. CASE line[key[f]] # <<>>
        BY <2>2, <3>2, Zenon DEF Consistent
      <3>. QED
        BY <3>1, <3>2
    <2>. QED
      BY <2>1, <2>2, <2>3, Zenon DEF Queued
  <1>2. /\ queued' = 0 /\ line' = [k \in Keys |-> <<>>] /\ active' = active
        /\ status' = [f \in Futures |-> IF f \in Queued THEN "Closed" ELSE status[f]]
    BY Zenon DEF Close
  <1>3. Waiting' = {}
    BY <1>1, <1>2 DEF Waiting
  <1>4. ASSUME NEW k \in active PROVE 1 + Len(line'[k]) =< MaxPerKey
    <2>1. line'[k] = <<>>
      BY <1>2, <1>4, Zenon DEF Consistent, Types
    <2>. QED
      BY <2>1, GateAssumption
  <1>5. queued' = Cardinality(Waiting') /\ IsFiniteSet(Waiting')
    BY <1>2, <1>3, FS_EmptySet, Zenon
  <1>6. queued' =< MaxQueued
    BY <1>2, GateAssumption
  <1>. QED
    BY <1>2, <1>3, <1>4, <1>5, <1>6, Zenon DEF Standing, Counted

LEMMA NextCounted ==
    ASSUME Consistent, Standing, Counted, [Next]_vars
    PROVE  Standing' /\ Counted'
  <1>0. active \subseteq Keys /\ status \in [Futures -> WaiterStatus \cup {"none"}]
    BY Zenon DEF Consistent, Types
  <1>1. ASSUME NEW f \in Futures, NEW k \in Keys, Acquire(f, k)
        PROVE  Standing' /\ Counted'
    <2>1. at[f] = "idle" /\ key' = [key EXCEPT ![f] = k] /\ UNCHANGED <<queued, active, line, status>>
      BY <1>1, Zenon DEF Acquire, gate
    <2>2. \A g \in Waiting : g # f /\ g \in Futures
      BY <2>1, Zenon DEF Waiting, Consistent, Lines
    <2>3. \A g \in Waiting : key'[g] = key[g]
      BY <2>1, <2>2, Zenon DEF Consistent, Types
    <2>4. Waiting' = Waiting
      BY <2>1, Zenon DEF Waiting
    <2>. QED
      BY <2>1, <2>3, <2>4, SameCounted, Zenon
  <1>2. ASSUME NEW f \in Futures, Drop(f)
        PROVE  Standing' /\ Counted'
    <2>1. CASE status[f] \in {"none", "Closed"} /\ LeaveNothing(f)
      <3>1. status' = [status EXCEPT ![f] = "none"] /\ UNCHANGED <<queued, active, line, key>>
        BY <1>2, <2>1, Zenon DEF LeaveNothing, Drop
      <3>2. Waiting' = Waiting
        BY <1>0, <2>1, <3>1 DEF Waiting
      <3>. QED
        BY <3>1, <3>2, SameCounted, Zenon
    <2>2. CASE status[f] = "Waiting" /\ LeaveLine(f)
      BY <1>2, <2>2, DropCounted, Zenon DEF Drop
    <2>3. CASE status[f] = "Granted" /\ ReleaseKeyLocked(f)
      BY <1>2, <2>3, ReleaseCounted, Zenon DEF Drop, Owns
    <2>. QED
      BY <1>2, <2>1, <2>2, <2>3, Zenon DEF Drop
  <1>3. ASSUME NEW f \in Futures, Release(f)
        PROVE  Standing' /\ Counted'
    BY <1>3, ReleaseCounted, Zenon DEF Release, Owns
  <1>4. CASE UNCHANGED vars
    <2>1. UNCHANGED <<queued, line, active, key, status>>
      BY <1>4, Zenon DEF vars
    <2>2. Waiting' = Waiting
      BY <2>1, Zenon DEF Waiting
    <2>. QED
      BY <2>1, <2>2, SameCounted, Zenon
  <1>. QED
    BY <1>1, <1>2, <1>3, <1>4, PollCounted, CloseCounted, Zenon DEF Next

LEMMA InitCounted == Init => Standing /\ Counted
  <1>. SUFFICES ASSUME Init PROVE Standing /\ Counted
    OBVIOUS
  <1>1. Waiting = {} /\ queued = 0 /\ active = {}
    BY DEF Init, Waiting
  <1>2. 0 =< MaxQueued
    BY GateAssumption
  <1>. QED
    BY <1>1, <1>2, FS_EmptySet, Zenon DEF Standing, Counted

\* The count of waiters is exact and bounded, and no key retains more than
\* max_per_key callers, whatever was granted, dropped or closed before: for any
\* number of callers and keys, and any limits.
THEOREM CountExact == Spec => []QueuedExact
  <1>1. Consistent /\ Standing /\ Counted => QueuedExact
    <2>. SUFFICES ASSUME Consistent, Counted PROVE QueuedExact
      OBVIOUS
    <2>1. queued \in 0..MaxQueued
      BY GateAssumption DEF Consistent, Types, Counted
    <2>. QED
      BY <2>1, Zenon DEF QueuedExact, TypeOK, Consistent, Types, Counted, Waiting
  <1>. QED
    BY <1>1, InitConsistent, NextConsistent, InitCounted, NextCounted, PTL DEF Spec

\* Whoever is granted a key stood first in its line.
LEMMA GrantsTheOldest ==
    ASSUME Consistent, [Next]_vars, NEW g \in Futures, status[g] = "Waiting", status'[g] = "Granted"
    PROVE  line[key[g]] # <<>> /\ g = Head(line[key[g]])
  <1>0. status \in [Futures -> WaiterStatus \cup {"none"}] /\ line \in [Keys -> Seq(Futures)] /\ key \in [Futures -> Keys]
    BY Zenon DEF Consistent, Types
  <1>1. ASSUME NEW f \in Futures, ReleaseKeyLocked(f)
        PROVE  line[key[g]] # <<>> /\ g = Head(line[key[g]])
    <2>1. CASE line[key[f]] # <<>>
      <3>. DEFINE h == Head(line[key[f]])
      <3>1. h = line[key[f]][1] /\ 1 \in 1..Len(line[key[f]])
        BY <1>0, <1>1, <2>1, TailFacts
      <3>2. key[h] = key[f]
        <4>1. \A i \in 1..Len(line[key[f]]) : key[line[key[f]][i]] = key[f]
          BY <1>0, <1>1, Zenon DEF Consistent, Lines
        <4>. QED
          BY <3>1, <4>1
      <3>3. status' = [status EXCEPT ![f] = "none", ![h] = "Granted"]
        BY <1>1, <2>1, Zenon DEF ReleaseKeyLocked
      <3>. HIDE DEF h
      <3>4. g = h
        BY <1>0, <3>3, Zenon
      <3>. QED
        BY <2>1, <3>2, <3>4 DEF h
    <2>2. CASE line[key[f]] = <<>>
      <3>1. status' = [status EXCEPT ![f] = "none"]
        BY <1>1, <2>2, Zenon DEF ReleaseKeyLocked
      <3>. QED
        BY <1>0, <3>1
    <2>. QED
      BY <2>1, <2>2, Zenon
  <1>2. ASSUME NEW f \in Futures, \/ status' = status
                                  \/ status' = [status EXCEPT ![f] = "none"]
                                  \/ status' = [status EXCEPT ![f] = "Waiting"]
        PROVE  FALSE
    BY <1>0, <1>2
  <1>3. CASE Close
    <2>1. status' = [f \in Futures |-> IF f \in Queued THEN "Closed" ELSE status[f]]
      BY <1>3, Zenon DEF Close
    <2>. QED
      BY <2>1
  <1>4. ASSUME NEW f \in Futures, NEW k \in Keys, Acquire(f, k) PROVE FALSE
    BY <1>2, <1>4, Zenon DEF Acquire, gate
  <1>5. ASSUME NEW f \in Futures, Poll(f) PROVE FALSE
    BY <1>2, <1>5, Zenon DEF Poll, FirstPoll, PollAgain, Refused, gate
  <1>6. ASSUME NEW f \in Futures, Drop(f), ~ReleaseKeyLocked(f) PROVE FALSE
    BY <1>2, <1>6, Zenon DEF Drop, LeaveNothing, LeaveLine
  <1>7. CASE UNCHANGED vars
    BY <1>7, Zenon DEF vars
  <1>8. ASSUME NEW f \in Futures, Release(f) PROVE ReleaseKeyLocked(f)
    BY <1>8, Zenon DEF Release
  <1>. QED
    BY <1>1, <1>3, <1>4, <1>5, <1>6, <1>7, <1>8, Zenon DEF Next

\* First come, first served: no step gives a key to a waiter while an older one
\* keeps waiting for it.
THEOREM FirstComeFirstServed == Spec => NoOvertaking
  <1>. DEFINE Fair == \A f, g \in Futures : Ahead(f, g) /\ status'[f] = "Waiting" => status'[g] # "Granted"
  <1>1. Consistent /\ [Next]_vars => Fair
    <2>. SUFFICES ASSUME Consistent, [Next]_vars, NEW f \in Futures, NEW g \in Futures, Ahead(f, g), status'[g] = "Granted"
                  PROVE  FALSE
      BY Zenon
    <2>1. PICK k \in Keys : \E i, j \in 1..Len(line[k]) : i < j /\ line[k][i] = f /\ line[k][j] = g
      BY Zenon DEF Ahead
    <2>2. PICK i \in 1..Len(line[k]), j \in 1..Len(line[k]) : i < j /\ line[k][j] = g
      BY <2>1, Zenon
    <2>3. /\ line[k] \in Seq(Futures) /\ status[g] = "Waiting" /\ key[g] = k
          /\ \A a, b \in 1..Len(line[k]) : line[k][a] = line[k][b] => a = b
      BY <2>2, ZenonT(30) DEF Consistent, Lines, Types
    <2>4. line[k] # <<>> /\ g = Head(line[k])
      BY <2>3, GrantsTheOldest, Zenon
    <2>5. line[k][1] = g /\ 1 \in 1..Len(line[k]) /\ j # 1
      BY <2>2, <2>3, <2>4, TailFacts
    <2>. QED
      BY <2>2, <2>3, <2>5, Zenon
  <1>. QED
    BY <1>1, AlwaysConsistent, PTL DEF Spec, NoOvertaking

-----------------------------------------------------------------------------
\* Refinement.

\* The owner f gives its key back, or hands it to the waiter h of the same key.
LEMMA ReleaseRefines ==
    ASSUME Consistent, NEW f \in Futures, Owns(f, key[f]),
           at' = [at EXCEPT ![f] = "idle"], ReleaseKeyLocked(f), key' = key
    PROVE  \/ Pairs' = Pairs \ {<<f, key[f]>>}
           \/ \E h \in Futures : Pairs' = (Pairs \ {<<f, key[f]>>}) \cup {<<h, key[f]>>}
  <1>. DEFINE k == key[f]
  <1>1. k \in Keys /\ line[k] \in Seq(Futures) /\ f \in Holding
    BY DEF Consistent, Types, Owns, Holding
  <1>2. CASE line[k] # <<>>
    <2>. DEFINE h == Head(line[k])
    <2>1. h = line[k][1] /\ h \in Futures /\ 1 \in 1..Len(line[k])
      BY <1>1, <1>2, TailFacts
    <2>2. status[h] = "Waiting" /\ key[h] = k /\ at[h] = "waiting" /\ h # f
      BY <1>1, <2>1, SMTT(30) DEF Consistent, Lines, Owns
    <2>3. status' = [status EXCEPT ![f] = "none", ![h] = "Granted"]
      BY <1>2, Zenon DEF ReleaseKeyLocked
    <2>4. Holding' = (Holding \ {f}) \cup {h}
      BY <2>1, <2>2, <2>3, Zenon DEF Holding, Consistent, Types
    <2>5. Pairs' = (Pairs \ {<<f, k>>}) \cup {<<h, k>>}
      BY <2>2, <2>4 DEF Pairs
    <2>. QED
      BY <2>1, <2>5
  <1>3. CASE line[k] = <<>>
    <2>1. status' = [status EXCEPT ![f] = "none"]
      BY <1>3 DEF ReleaseKeyLocked
    <2>2. Holding' = Holding \ {f}
      BY <2>1 DEF Holding, Consistent, Types
    <2>. QED
      BY <2>2 DEF Pairs
  <1>. QED
    BY <1>2, <1>3

\* What a step does to the pairs: nothing, or it takes a free key, or it gives
\* one back, or it hands one over.
LEMMA StepRefines ==
    ASSUME Consistent, [Next]_vars
    PROVE  \/ Pairs' = Pairs
           \/ \E f \in Futures, k \in Keys :
                  \/ (\A o \in Pairs : o[2] # k) /\ Pairs' = Pairs \cup {<<f, k>>}
                  \/ <<f, k>> \in Pairs /\ Pairs' = Pairs \ {<<f, k>>}
                  \/ \E h \in Futures : <<f, k>> \in Pairs /\ Pairs' = (Pairs \ {<<f, k>>}) \cup {<<h, k>>}
  <1>1. ASSUME NEW f \in Futures, NEW k \in Keys, Acquire(f, k)
        PROVE  Pairs' = Pairs
    <2>1. at[f] = "idle" /\ at' = [at EXCEPT ![f] = "new"] /\ key' = [key EXCEPT ![f] = k] /\ status' = status
      BY <1>1, Zenon DEF Acquire, gate
    <2>2. status[f] = "none" /\ f \notin Holding
      BY <2>1 DEF Consistent, Lines, Holding
    <2>3. Holding' = Holding
      BY <2>1, <2>2 DEF Holding, Consistent, Types
    <2>4. \A g \in Holding : key'[g] = key[g]
      BY <2>1, <2>2 DEF Holding, Consistent, Types
    <2>. QED
      BY <2>3, <2>4 DEF Pairs
  <1>2. ASSUME NEW f \in Futures, Owns(f, key[f]), at' = [at EXCEPT ![f] = "idle"], ReleaseKeyLocked(f), key' = key
        PROVE  \E k \in Keys : \/ <<f, k>> \in Pairs /\ Pairs' = Pairs \ {<<f, k>>}
                              \/ \E h \in Futures : <<f, k>> \in Pairs /\ Pairs' = (Pairs \ {<<f, k>>}) \cup {<<h, k>>}
    <2>1. key[f] \in Keys /\ <<f, key[f]>> \in Pairs
      BY <1>2 DEF Pairs, Holding, Owns, Consistent, Types
    <2>. QED
      BY <2>1, <1>2, ReleaseRefines, Zenon
  <1>3. ASSUME NEW f \in Futures, Drop(f), status[f] # "Granted"
        PROVE  Pairs' = Pairs
    <2>1. /\ at[f] \in {"new", "waiting"} /\ at' = [at EXCEPT ![f] = "idle"] /\ key' = key
          /\ status' = [status EXCEPT ![f] = "none"]
      BY <1>3 DEF Drop, LeaveNothing, LeaveLine
    <2>2. Holding' = Holding
      BY <2>1, <1>3 DEF Holding, Consistent, Types
    <2>. QED
      BY <2>1, <2>2, Zenon DEF Pairs
  <1>4. ASSUME NEW f \in Futures, PollAgain(f)
        PROVE  Pairs' = Pairs
    <2>1. at[f] = "waiting" /\ key' = key
      BY <1>4 DEF PollAgain, Refused
    <2>2. \/ status' = status /\ at' = at
          \/ status[f] = "Granted" /\ status' = [status EXCEPT ![f] = "none"] /\ at' = [at EXCEPT ![f] = "permit"]
          \/ status[f] = "Closed" /\ status' = [status EXCEPT ![f] = "none"] /\ at' = [at EXCEPT ![f] = "idle"]
      BY <1>4 DEF PollAgain, Refused
    <2>3. Holding' = Holding
      BY <2>1, <2>2, Zenon DEF Holding, Consistent, Types
    <2>. QED
      BY <2>1, <2>3, Zenon DEF Pairs
  <1>5. ASSUME NEW f \in Futures, FirstPoll(f)
        PROVE  \/ Pairs' = Pairs
               \/ (\A o \in Pairs : o[2] # key[f]) /\ Pairs' = Pairs \cup {<<f, key[f]>>}
    <2>1. at[f] = "new" /\ status[f] = "none" /\ key' = key /\ key[f] \in Keys
      BY <1>5, Zenon DEF FirstPoll, Refused, Consistent, Lines, Types
    <2>2. \/ status' = status /\ at' = [at EXCEPT ![f] = "idle"]
          \/ status' = [status EXCEPT ![f] = "Waiting"] /\ at' = [at EXCEPT ![f] = "waiting"]
          \/ status' = status /\ at' = [at EXCEPT ![f] = "permit"] /\ Available(f)
      BY <1>5 DEF FirstPoll, Refused, gate
    <2>3. CASE Holding' = Holding
      BY <2>1, <2>3, Zenon DEF Pairs
    <2>4. CASE status' = status /\ at' = [at EXCEPT ![f] = "permit"] /\ Available(f)
      <3>1. Holding' = Holding \cup {f}
        BY <2>4 DEF Holding, Consistent, Types
      <3>2. \A g \in Holding : key[g] # key[f]
        BY <2>1, <2>4 DEF Holding, Available, Consistent, OneOwner, Owns, Types
      <3>. QED
        BY <2>1, <3>1, <3>2 DEF Pairs
    <2>5. CASE at' = [at EXCEPT ![f] = "idle"] /\ status' = status
      <3>1. Holding' = Holding
        BY <2>1, <2>5, Zenon DEF Holding, Consistent, Types
      <3>. QED
        BY <2>3, <3>1
    <2>6. CASE status' = [status EXCEPT ![f] = "Waiting"] /\ at' = [at EXCEPT ![f] = "waiting"]
      <3>1. Holding' = Holding
        BY <2>1, <2>6, Zenon DEF Holding, Consistent, Types
      <3>. QED
        BY <2>3, <3>1
    <2>. QED
      BY <2>2, <2>4, <2>5, <2>6, Zenon
  <1>6. CASE Close
    <2>1. \A f \in Queued : status[f] = "Waiting"
      BY DEF Queued, Consistent, Lines, Types
    <2>2. at' = at /\ key' = key /\ \A f \in Futures : status'[f] = "Granted" <=> status[f] = "Granted"
      BY <1>6, <2>1, Zenon DEF Close
    <2>. QED
      BY <2>2 DEF Pairs, Holding
  <1>7. CASE UNCHANGED vars
    BY <1>7 DEF vars, Pairs, Holding
  <1>8. ASSUME NEW f \in Futures, Drop(f), status[f] = "Granted"
        PROVE  Owns(f, key[f]) /\ at' = [at EXCEPT ![f] = "idle"] /\ ReleaseKeyLocked(f) /\ key' = key
    BY <1>8 DEF Drop, Owns
  <1>9. ASSUME NEW f \in Futures, Release(f)
        PROVE  Owns(f, key[f]) /\ at' = [at EXCEPT ![f] = "idle"] /\ ReleaseKeyLocked(f) /\ key' = key
    BY <1>9 DEF Release, Owns
  <1>10. \A f \in Futures : key[f] \in Keys
    BY Zenon DEF Consistent, Types
  <1>11. CASE \E f \in Futures : Drop(f) \/ Release(f)
    BY <1>2, <1>3, <1>8, <1>9, <1>11, SMTT(30)
  <1>12. CASE \E f \in Futures : Poll(f)
    BY <1>4, <1>5, <1>10, <1>12, Zenon DEF Poll
  <1>. QED
    BY <1>1, <1>6, <1>7, <1>11, <1>12, Zenon DEF Next

\* The gate implements a lock per key: every step takes a free key, gives one
\* back, hands one over, or leaves the owners alone.
THEOREM GateIsLock == Spec => IsLock
  <1>1. Init => Lock!Init
    BY DEF Init, Lock!Init, Pairs, Holding
  <1>2. Consistent /\ [Next]_vars => [Lock!Next]_Pairs
    <2>. SUFFICES ASSUME Consistent, [Next]_vars PROVE [Lock!Next]_Pairs
      OBVIOUS
    <2>. QED
      BY StepRefines, Zenon DEF Lock!Next, Lock!Take, Lock!GiveBack, Lock!HandOver, Lock!Free
  <1>. QED
    BY <1>1, <1>2, AlwaysConsistent, PTL DEF Spec, IsLock, Lock!Spec

-----------------------------------------------------------------------------
\* The gate inside the backend.

LEMMA GateStep ==
    ASSUME Consistent, [BackendNext]_backend
    PROVE  [Next]_vars
  <1>1. ASSUME NEW f \in Futures, AwaitPermit(f) PROVE Next
    <2>1. key[f] \in Keys
      BY Zenon DEF Consistent, Types
    <2>. QED
      BY <1>1, <2>1, Zenon DEF AwaitPermit, Next
  <1>2. ASSUME NEW f \in Futures, GiveBack(f) PROVE Next
    BY <1>2, Zenon DEF GiveBack, Next
  <1>3. ASSUME NEW f \in Futures, Start(f) PROVE [Next]_vars
    BY <1>3, Zenon DEF Start, Next
  <1>4. ASSUME NEW f \in Futures, End(f) PROVE Next
    BY <1>4, Zenon DEF End, Next
  <1>5. ASSUME NEW f \in Futures, Submit(f) \/ Refuse(f) \/ Finished(f) PROVE UNCHANGED vars
    BY <1>5, Zenon DEF Submit, Refuse, Finished, vars
  <1>6. CASE CloseAdmission
    BY <1>6, Zenon DEF CloseAdmission, Next
  <1>7. CASE Advance \/ CloseDispatcher \/ ShutDown \/ \E d \in Drainers : Drain(d)
    BY <1>7, Zenon DEF Advance, CloseDispatcher, ShutDown, Drain, vars
  <1>8. CASE UNCHANGED backend
    BY <1>8, Zenon DEF backend
  <1>. QED
    BY <1>1, <1>2, <1>3, <1>4, <1>5, <1>6, <1>7, <1>8, Zenon DEF BackendNext

LEMMA BackendConsistent == BackendSpec => []Consistent
  <1>1. BackendInit => Consistent
    BY InitConsistent DEF BackendInit
  <1>2. Consistent /\ [BackendNext]_backend => Consistent'
    BY GateStep, NextConsistent
  <1>. QED
    BY <1>1, <1>2, PTL DEF BackendSpec

\* The backend uses the gate as KeyedGate describes it, so that the theorems about
\* the gate are about the backend.
THEOREM BackendUsesGate == BackendSpec => Spec
  <1>1. BackendInit => Init
    BY DEF BackendInit
  <1>. QED
    BY <1>1, GateStep, BackendConsistent, PTL DEF BackendSpec, Spec

\* In the composed backend the count of waiters is exact and the limits of the
\* gate are kept, while permits travel with jobs through the dispatcher.
THEOREM BackendCountExact == BackendSpec => []QueuedExact
  BY BackendUsesGate, CountExact, PTL

\* In the composed backend no caller overtakes an older one of its queue.
THEOREM BackendServesInOrder == BackendSpec => NoOvertaking
  BY BackendUsesGate, FirstComeFirstServed, PTL

\* In the composed backend the gate is a lock per key.
THEOREM BackendLocks == BackendSpec => IsLock
  BY BackendUsesGate, GateIsLock, PTL

-----------------------------------------------------------------------------
\* The dispatcher inside the backend.

\* The tasks that have a slot: their completion has not been recorded.
Slots == {t \in Futures : stage[t] \in {"starting", "spawned", "ending"}}

Waits(t) == stage[t] = "queued"

\* The queue of the dispatcher holds the tasks that wait for a slot, each once.
InLine ==
    /\ \A i \in 1..Len(jobs) : Waits(jobs[i])
    /\ \A i, j \in 1..Len(jobs) : jobs[i] = jobs[j] => i = j
    /\ \A t \in Futures : Waits(t) => \E i \in 1..Len(jobs) : jobs[i] = t

JobTypes ==
    /\ stopped \in BOOLEAN /\ up \in BOOLEAN /\ advancing \in BOOLEAN
    /\ jobs \in Seq(Futures) /\ hand \subseteq Futures
    /\ stage \in [Futures -> Dispatcher!Stages]
    /\ drain \in [Drainers -> {"idle", "registered", "resolved"}]

\* The counters agree with the slots and the queue, and no slot is idle.
Numbers ==
    /\ running \in Nat /\ running =< MaxRunning /\ pending \in Nat
    /\ Len(jobs) \in Nat /\ Len(jobs) =< MaxJobs
    /\ IsFiniteSet(Slots) /\ running = Cardinality(Slots) + pending
    /\ outstanding = running + Len(jobs)
    /\ pending > 0 => advancing
    /\ jobs # <<>> => running = MaxRunning

\* A drain is answered when nothing is left, and nothing comes after it.
Answered == \A d \in Drainers : drain[d] = "resolved" => stopped /\ outstanding = 0

JobsInv == JobTypes /\ Numbers /\ InLine /\ Answered

LEMMA DispatcherStep ==
    ASSUME [BackendNext]_backend
    PROVE  [Dispatcher!Next]_dispatcher
  <1>1. ASSUME NEW f \in Futures, AwaitPermit(f) \/ Refuse(f) \/ GiveBack(f) PROVE UNCHANGED dispatcher
    BY <1>1, Zenon DEF AwaitPermit, Refuse, GiveBack
  <1>2. ASSUME NEW f \in Futures, Submit(f) \/ Start(f) \/ End(f) \/ Finished(f) PROVE Dispatcher!Next
    BY <1>2, Zenon DEF Submit, Start, End, Finished, Dispatcher!Next
  <1>3. CASE CloseAdmission
    BY <1>3, Zenon DEF CloseAdmission
  <1>4. CASE Advance \/ CloseDispatcher \/ ShutDown \/ \E d \in Drainers : Drain(d)
    BY <1>4, Zenon DEF Advance, CloseDispatcher, ShutDown, Drain, Dispatcher!Next
  <1>5. CASE UNCHANGED backend
    BY <1>5, Zenon DEF backend
  <1>. QED
    BY <1>1, <1>2, <1>3, <1>4, <1>5, Zenon DEF BackendNext

\* A step of a task that does not wait, before and after.
LEMMA SameInLine ==
    ASSUME InLine, jobs' = jobs, jobs \in Seq(Futures), \A t \in Futures : Waits(t)' <=> Waits(t)
    PROVE  InLine'
  <1>1. ASSUME NEW i \in 1..Len(jobs) PROVE Waits(jobs[i])'
    <2>1. jobs[i] \in Futures /\ Waits(jobs[i])
      BY <1>1 DEF InLine
    <2>2. Waits(jobs[i])' <=> stage'[jobs'[i]] = "queued"
      BY Zenon DEF Waits
    <2>3. stage'[jobs[i]] = "queued"
      BY <2>1, Zenon DEF Waits
    <2>. QED
      BY <2>2, <2>3, Zenon
  <1>. QED
    BY <1>1, Zenon DEF InLine

\* A task joins the end of the queue.
LEMMA AppendInLine ==
    ASSUME InLine, jobs \in Seq(Futures), NEW t \in Futures, jobs' = Append(jobs, t),
           ~Waits(t), stage'[t] = "queued", \A u \in Futures \ {t} : stage'[u] = stage[u]
    PROVE  InLine'
  <1>. DEFINE n == Len(jobs)
  <1>1. /\ n \in Nat /\ Len(jobs') = n + 1 /\ jobs'[n + 1] = t
        /\ \A i \in 1..n : jobs'[i] = jobs[i]
    BY AppendFacts
  <1>2. \A i \in 1..n : jobs[i] \in Futures \ {t} /\ stage[jobs[i]] = "queued"
    BY DEF InLine, Waits
  <1>3. 1..(n + 1) = (1..n) \cup {n + 1} /\ n + 1 \notin 1..n
    BY <1>1
  <1>. HIDE DEF n
  <1>4. \A i \in 1..(n + 1) : stage'[jobs'[i]] = "queued"
    <2>1. ASSUME NEW i \in 1..n PROVE stage'[jobs'[i]] = "queued"
      BY <1>1, <1>2, <2>1, Zenon
    <2>. QED
      BY <1>1, <1>3, <2>1, Zenon
  <1>5. ASSUME NEW i \in 1..(n + 1), NEW j \in 1..(n + 1), jobs'[i] = jobs'[j] PROVE i = j
    <2>1. CASE i \in 1..n /\ j \in 1..n
      <3>1. jobs[i] = jobs[j]
        BY <1>1, <1>5, <2>1, Zenon
      <3>. QED
        BY <2>1, <3>1, Zenon DEF InLine, n
    <2>2. ASSUME NEW a \in 1..n PROVE jobs'[a] # t
      BY <1>1, <1>2
    <2>. QED
      BY <1>1, <1>3, <1>5, <2>1, <2>2, Zenon
  <1>6. ASSUME NEW u \in Futures, stage'[u] = "queued" PROVE \E i \in 1..(n + 1) : jobs'[i] = u
    <2>1. CASE u = t
      BY <1>1, <1>3, <2>1, Zenon
    <2>2. CASE u # t
      <3>1. PICK i \in 1..n : jobs[i] = u
        BY <1>6, <2>2, Zenon DEF InLine, Waits, n
      <3>. QED
        BY <1>1, <1>3, <3>1
    <2>. QED
      BY <2>1, <2>2, Zenon
  <1>. QED
    <2>1. 1..Len(jobs') = 1..(n + 1)
      BY <1>1, Zenon
    <2>. QED
      BY <1>4, <1>5, <1>6, <2>1, ZenonT(30) DEF InLine, Waits

\* The first task of the queue leaves it.
LEMMA TailInLine ==
    ASSUME InLine, jobs \in Seq(Futures), jobs # <<>>, jobs' = Tail(jobs),
           stage'[Head(jobs)] = "starting", \A u \in Futures \ {Head(jobs)} : stage'[u] = stage[u]
    PROVE  InLine'
  <1>. DEFINE n == Len(jobs)
              h == Head(jobs)
  <1>1. /\ n \in Nat \ {0} /\ Len(jobs') = n - 1 /\ h = jobs[1] /\ h \in Futures
        /\ \A i \in 1..(n - 1) : jobs'[i] = jobs[i + 1]
    BY TailFacts
  <1>2. /\ \A i, j \in 1..n : jobs[i] = jobs[j] => i = j
        /\ \A i \in 1..n : stage[jobs[i]] = "queued"
    BY Zenon DEF InLine, Waits
  <1>3. \A i \in 1..n : jobs[i] \in Futures
    OBVIOUS
  <1>. HIDE DEF n, h
  <1>4. ASSUME NEW i \in 1..(n - 1) PROVE jobs'[i] \in Futures \ {h} /\ jobs'[i] = jobs[i + 1] /\ i + 1 \in 1..n
    <2>1. i + 1 \in 1..n /\ 1 \in 1..n /\ i + 1 # 1
      BY <1>1
    <2>2. jobs[i + 1] # h
      BY <1>1, <1>2, <2>1, Zenon
    <2>. QED
      BY <1>1, <1>3, <2>1, <2>2, Zenon
  <1>5. \A i \in 1..(n - 1) : stage'[jobs'[i]] = "queued"
    <2>. SUFFICES ASSUME NEW i \in 1..(n - 1) PROVE stage'[jobs'[i]] = "queued"
      BY Zenon
    <2>1. stage'[jobs'[i]] = stage[jobs'[i]]
      BY <1>4, Zenon DEF h
    <2>2. stage[jobs'[i]] = "queued"
      <3>1. jobs'[i] = jobs[i + 1] /\ i + 1 \in 1..n
        BY <1>4, Zenon
      <3>2. stage[jobs[i + 1]] = "queued"
        BY <1>2, <3>1, Zenon
      <3>. QED
        BY <3>1, <3>2, Zenon
    <2>. QED
      BY <2>1, <2>2
  <1>6. ASSUME NEW i \in 1..(n - 1), NEW j \in 1..(n - 1), jobs'[i] = jobs'[j] PROVE i = j
    <2>1. i + 1 = j + 1
      <3>1. i + 1 \in 1..n /\ j + 1 \in 1..n /\ jobs[i + 1] = jobs[j + 1]
        BY <1>4, <1>6, Zenon
      <3>. QED
        BY <1>2, <3>1, Zenon
    <2>. QED
      BY <2>1
  <1>7. ASSUME NEW u \in Futures, stage'[u] = "queued" PROVE \E i \in 1..(n - 1) : jobs'[i] = u
    <2>1. u # h
      BY <1>7 DEF h
    <2>2. PICK i \in 1..n : jobs[i] = u
      BY <1>7, <2>1, Zenon DEF InLine, Waits, n, h
    <2>3. i - 1 \in 1..(n - 1) /\ (i - 1) + 1 = i
      BY <1>1, <2>1, <2>2
    <2>. QED
      BY <1>1, <2>2, <2>3, Zenon
  <1>. QED
    BY <1>1, <1>5, <1>6, <1>7, ZenonT(30) DEF InLine, Waits

\* One task takes or leaves a slot, or moves within it.
LEMMA SlotsStep ==
    ASSUME JobTypes, NEW t \in Futures, NEW place \in Dispatcher!Stages, stage' = [stage EXCEPT ![t] = place]
    PROVE  /\ stage' \in [Futures -> Dispatcher!Stages]
           /\ stage'[t] = place /\ \A u \in Futures \ {t} : stage'[u] = stage[u]
           /\ place \in {"starting", "spawned", "ending"} => Slots' = Slots \cup {t}
           /\ place \notin {"starting", "spawned", "ending"} => Slots' = Slots \ {t}
  <1>1. stage \in [Futures -> Dispatcher!Stages]
    BY Zenon DEF JobTypes
  <1>2. stage' \in [Futures -> Dispatcher!Stages] /\ stage'[t] = place /\ \A u \in Futures \ {t} : stage'[u] = stage[u]
    BY <1>1, Zenon
  <1>3. place \in {"starting", "spawned", "ending"} => Slots' = Slots \cup {t}
    BY <1>2 DEF Slots
  <1>4. place \notin {"starting", "spawned", "ending"} => Slots' = Slots \ {t}
    BY <1>2 DEF Slots
  <1>. QED
    BY <1>2, <1>3, <1>4

LEMMA SlotsCount ==
    ASSUME IsFiniteSet(Slots), NEW t
    PROVE  /\ Cardinality(Slots) \in Nat
           /\ Slots' = Slots => IsFiniteSet(Slots') /\ Cardinality(Slots') = Cardinality(Slots)
           /\ Slots' = Slots \cup {t} /\ t \notin Slots => IsFiniteSet(Slots') /\ Cardinality(Slots') = Cardinality(Slots) + 1
           /\ Slots' = Slots \cup {t} /\ t \in Slots => IsFiniteSet(Slots') /\ Cardinality(Slots') = Cardinality(Slots)
           /\ Slots' = Slots \ {t} /\ t \in Slots => IsFiniteSet(Slots') /\ Cardinality(Slots') = Cardinality(Slots) - 1
           /\ Slots' = Slots \ {t} /\ t \notin Slots => IsFiniteSet(Slots') /\ Cardinality(Slots') = Cardinality(Slots)
  <1>1. Cardinality(Slots) \in Nat
    BY FS_CardinalityType, Zenon
  <1>2. /\ IsFiniteSet(Slots \cup {t}) /\ (t \notin Slots => Cardinality(Slots \cup {t}) = Cardinality(Slots) + 1)
        /\ (t \in Slots => Slots \cup {t} = Slots)
    BY FS_AddElement, Zenon
  <1>3. /\ IsFiniteSet(Slots \ {t}) /\ (t \in Slots => Cardinality(Slots \ {t}) = Cardinality(Slots) - 1)
        /\ (t \notin Slots => Slots \ {t} = Slots)
    BY FS_RemoveElement, Zenon
  <1>. QED
    BY <1>1, <1>2, <1>3, Zenon

LEMMA SubmitJobs ==
    ASSUME JobsInv, NEW t \in Futures, Dispatcher!Submit(t)
    PROVE  JobsInv'
  <1>0. JobTypes /\ Numbers /\ InLine /\ Answered
    BY Zenon DEF JobsInv
  <1>1. /\ stage[t] = "absent" /\ ~stopped /\ ~(running = MaxRunning /\ Len(jobs) = MaxJobs)
        /\ outstanding' = outstanding + 1 /\ UNCHANGED <<stopped, pending, advancing, hand, drain, up>>
    BY Zenon DEF Dispatcher!Submit, Dispatcher!AtCapacity
  <1>2. t \notin Slots /\ ~Waits(t) /\ jobs \in Seq(Futures)
    BY <1>0, <1>1 DEF Slots, Waits, JobTypes
  <1>3. \A d \in Drainers : drain'[d] # "resolved"
    BY <1>0, <1>1, Zenon DEF Answered
  <1>4. CASE /\ running < MaxRunning /\ running' = running + 1 /\ jobs' = jobs
             /\ stage' = [stage EXCEPT ![t] = "starting"]
    <2>1. "starting" \in Dispatcher!Stages
      BY Zenon DEF Dispatcher!Stages
    <2>2. /\ stage' \in [Futures -> Dispatcher!Stages] /\ Slots' = Slots \cup {t}
          /\ stage'[t] = "starting" /\ \A u \in Futures \ {t} : stage'[u] = stage[u]
      BY <1>0, <1>4, <2>1, SlotsStep, Zenon
    <2>3. IsFiniteSet(Slots') /\ Cardinality(Slots') = Cardinality(Slots) + 1 /\ Cardinality(Slots) \in Nat
      BY <1>0, <1>2, <2>2, SlotsCount, Zenon DEF Numbers
    <2>4. Numbers'
      <3>1. jobs = <<>> /\ MaxRunning \in Nat
        BY <1>0, <1>4, BackendAssumption DEF Numbers
      <3>2. running' \in Nat /\ running' =< MaxRunning /\ running' = Cardinality(Slots') + pending /\ outstanding' = running' + Len(jobs)
        BY <1>0, <1>1, <1>4, <2>3, <3>1 DEF Numbers
      <3>. QED
        BY <1>0, <1>1, <1>4, <2>3, <3>1, <3>2, Zenon DEF Numbers
    <2>5. InLine'
      <3>1. \A u \in Futures : Waits(u)' <=> Waits(u)
        BY <1>2, <2>2 DEF Waits
      <3>. QED
        BY <1>0, <1>2, <1>4, <3>1, SameInLine, Zenon
    <2>6. JobTypes'
      BY <1>0, <1>1, <1>4, <2>2, Zenon DEF JobTypes
    <2>. QED
      BY <1>3, <2>4, <2>5, <2>6, Zenon DEF JobsInv, Answered
  <1>5. CASE /\ ~(running < MaxRunning) /\ jobs' = Append(jobs, t) /\ running' = running
             /\ stage' = [stage EXCEPT ![t] = "queued"]
    <2>1. "queued" \in Dispatcher!Stages /\ "queued" \notin {"starting", "spawned", "ending"}
      BY DEF Dispatcher!Stages
    <2>2. /\ stage' \in [Futures -> Dispatcher!Stages] /\ Slots' = Slots \ {t}
          /\ stage'[t] = "queued" /\ \A u \in Futures \ {t} : stage'[u] = stage[u]
      BY <1>0, <1>5, <2>1, SlotsStep, Zenon
    <2>3. IsFiniteSet(Slots') /\ Cardinality(Slots') = Cardinality(Slots)
      BY <1>0, <1>2, <2>2, SlotsCount, Zenon DEF Numbers
    <2>4. jobs' \in Seq(Futures) /\ Len(jobs') = Len(jobs) + 1
      BY <1>2, <1>5, AppendFacts, Zenon
    <2>5. Numbers'
      BY <1>0, <1>1, <1>5, <2>3, <2>4, BackendAssumption DEF Numbers
    <2>6. InLine'
      BY <1>0, <1>2, <1>5, <2>2, AppendInLine, Zenon
    <2>7. JobTypes'
      BY <1>0, <1>1, <2>2, <2>4, Zenon DEF JobTypes
    <2>. QED
      BY <1>3, <2>5, <2>6, <2>7, Zenon DEF JobsInv, Answered
  <1>. QED
    BY <1>4, <1>5, Zenon DEF Dispatcher!Submit

\* A task moves within its slot: started, ended.
LEMMA MoveJobs ==
    ASSUME JobsInv, NEW t \in Slots, NEW place \in {"starting", "spawned", "ending"},
           stage' = [stage EXCEPT ![t] = place], hand' \subseteq Futures,
           UNCHANGED <<stopped, running, outstanding, jobs, pending, advancing, drain, up>>
    PROVE  JobsInv'
  <1>0. JobTypes /\ Numbers /\ InLine /\ Answered
    BY Zenon DEF JobsInv
  <1>1. place \in Dispatcher!Stages /\ t \in Futures /\ ~Waits(t) /\ place # "queued"
    BY DEF Dispatcher!Stages, Slots, Waits
  <1>2. /\ stage' \in [Futures -> Dispatcher!Stages] /\ Slots' = Slots \cup {t}
        /\ stage'[t] = place /\ \A u \in Futures \ {t} : stage'[u] = stage[u]
    BY <1>0, <1>1, SlotsStep, Zenon
  <1>3. Slots' = Slots
    BY <1>2
  <1>4. \A u \in Futures : Waits(u)' <=> Waits(u)
    BY <1>1, <1>2 DEF Waits
  <1>5. InLine'
    BY <1>0, <1>4, SameInLine, Zenon DEF JobTypes
  <1>6. Numbers'
    BY <1>0, <1>3, Zenon DEF Numbers
  <1>7. JobTypes'
    BY <1>0, <1>2, Zenon DEF JobTypes
  <1>. QED
    BY <1>0, <1>5, <1>6, <1>7, Zenon DEF JobsInv, Answered

\* A completion is recorded: the slot stays taken until it is worked off.
LEMMA FinishedJobs ==
    ASSUME JobsInv, NEW t \in Futures, Dispatcher!Finished(t)
    PROVE  JobsInv'
  <1>0. JobTypes /\ Numbers /\ InLine /\ Answered
    BY Zenon DEF JobsInv
  <1>1. /\ stage[t] = "ending" /\ stage' = [stage EXCEPT ![t] = "absent"] /\ pending' = pending + 1
        /\ advancing' = TRUE /\ hand' = hand \ {t} /\ UNCHANGED <<stopped, running, outstanding, jobs, drain, up>>
    BY Zenon DEF Dispatcher!Finished
  <1>2. "absent" \in Dispatcher!Stages /\ "absent" \notin {"starting", "spawned", "ending"} /\ t \in Slots
    BY <1>1 DEF Dispatcher!Stages, Slots
  <1>3. /\ stage' \in [Futures -> Dispatcher!Stages] /\ Slots' = Slots \ {t}
        /\ stage'[t] = "absent" /\ \A u \in Futures \ {t} : stage'[u] = stage[u]
    BY <1>0, <1>1, <1>2, SlotsStep, Zenon
  <1>4. IsFiniteSet(Slots') /\ Cardinality(Slots') = Cardinality(Slots) - 1 /\ Cardinality(Slots) \in Nat
    BY <1>0, <1>2, <1>3, SlotsCount, Zenon DEF Numbers
  <1>5. \A u \in Futures : Waits(u)' <=> Waits(u)
    BY <1>1, <1>3 DEF Waits
  <1>6. InLine'
    BY <1>0, <1>1, <1>5, SameInLine, Zenon DEF JobTypes
  <1>7. Numbers'
    <2>1. running = Cardinality(Slots') + pending' /\ pending' \in Nat
      BY <1>0, <1>1, <1>4 DEF Numbers
    <2>. QED
      BY <1>0, <1>1, <1>4, <2>1, Zenon DEF Numbers
  <1>8. JobTypes'
    <2>1. hand' \subseteq Futures /\ advancing' \in BOOLEAN
      BY <1>0, <1>1, Zenon DEF JobTypes
    <2>. QED
      BY <1>0, <1>1, <1>3, <2>1, Zenon DEF JobTypes
  <1>. QED
    BY <1>0, <1>1, <1>6, <1>7, <1>8, Zenon DEF JobsInv, Answered

\* Drainers are answered only by a closed dispatcher with nothing outstanding.
LEMMA ResolvedFacts ==
    ASSUME JobTypes, NEW out, NEW cl, NEW answers, answers = Dispatcher!Resolved(out, cl)
    PROVE  /\ answers \in [Drainers -> {"idle", "registered", "resolved"}]
           /\ \A d \in Drainers : answers[d] = "resolved" => drain[d] = "resolved" \/ (cl /\ out = 0)
  <1>1. drain \in [Drainers -> {"idle", "registered", "resolved"}]
    BY Zenon DEF JobTypes
  <1>2. CASE cl /\ out = 0
    <2>1. answers = [d \in Drainers |-> IF d \in Dispatcher!Registered THEN "resolved" ELSE drain[d]]
      BY <1>2, Zenon DEF Dispatcher!Resolved
    <2>. QED
      BY <1>1, <1>2, <2>1, Zenon
  <1>3. CASE ~(cl /\ out = 0)
    BY <1>1, <1>3, Zenon DEF Dispatcher!Resolved
  <1>. QED
    BY <1>2, <1>3

\* One recorded completion is worked off: the slot goes to the oldest job, or is
\* free.
LEMMA AdvanceJobs ==
    ASSUME JobsInv, Dispatcher!Advance
    PROVE  JobsInv'
  <1>0. JobTypes /\ Numbers /\ InLine /\ Answered /\ jobs \in Seq(Futures)
    BY Zenon DEF JobsInv, JobTypes
  <1>1. UNCHANGED <<stopped, up>> /\ advancing
    BY Zenon DEF Dispatcher!Advance
  <1>2. CASE /\ pending = 0 /\ advancing' = FALSE
             /\ UNCHANGED <<running, outstanding, jobs, pending, hand, stage, drain>>
    <2>1. Slots' = Slots /\ \A u \in Futures : Waits(u)' <=> Waits(u)
      BY <1>2, Zenon DEF Slots, Waits
    <2>2. InLine'
      BY <1>0, <1>2, <2>1, SameInLine, Zenon
    <2>3. Numbers'
      <3>1. ~(pending > 0)
        BY <1>2
      <3>. QED
        BY <1>0, <1>2, <2>1, <3>1, Zenon DEF Numbers
    <2>4. JobTypes'
      BY <1>0, <1>1, <1>2, Zenon DEF JobTypes
    <2>. QED
      BY <1>0, <1>1, <1>2, <2>2, <2>3, <2>4, Zenon DEF JobsInv, Answered
  <1>3. ASSUME pending > 0, pending' = pending - 1, outstanding' = outstanding - 1, advancing' = advancing,
               drain' = Dispatcher!Resolved(outstanding - 1, stopped)
        PROVE  /\ drain' \in [Drainers -> {"idle", "registered", "resolved"}] /\ Answered'
               /\ pending' \in Nat /\ running > 0
    <2>1. outstanding # 0 /\ pending' \in Nat /\ running > 0
      <3>1. Cardinality(Slots) \in Nat
        BY <1>0, SlotsCount, Zenon DEF Numbers
      <3>. QED
        BY <1>0, <1>3, <3>1 DEF Numbers
    <2>2. \A d \in Drainers : drain[d] # "resolved"
      BY <1>0, <2>1, Zenon DEF Answered
    <2>3. /\ drain' \in [Drainers -> {"idle", "registered", "resolved"}]
          /\ \A d \in Drainers : drain'[d] = "resolved" => drain[d] = "resolved" \/ (stopped /\ outstanding - 1 = 0)
      BY <1>0, <1>3, ResolvedFacts, Zenon
    <2>. QED
      BY <1>1, <1>3, <2>1, <2>2, <2>3, Zenon DEF Answered
  <1>4. CASE /\ pending > 0 /\ pending' = pending - 1 /\ outstanding' = outstanding - 1 /\ advancing' = advancing
             /\ drain' = Dispatcher!Resolved(outstanding - 1, stopped)
             /\ jobs = <<>> /\ running' = running - 1 /\ UNCHANGED <<jobs, hand, stage>>
    <2>1. Slots' = Slots /\ \A u \in Futures : Waits(u)' <=> Waits(u)
      BY <1>4, Zenon DEF Slots, Waits
    <2>2. InLine'
      BY <1>0, <1>4, <2>1, SameInLine, Zenon
    <2>3. /\ drain' \in [Drainers -> {"idle", "registered", "resolved"}] /\ Answered'
          /\ pending' \in Nat /\ running > 0
      BY <1>3, <1>4, Zenon
    <2>4. Numbers'
      <3>1. Cardinality(Slots) \in Nat
        BY <1>0, SlotsCount, Zenon DEF Numbers
      <3>2. /\ running' \in Nat /\ running' =< MaxRunning /\ running' = Cardinality(Slots) + pending'
            /\ outstanding' = running' + Len(jobs)
        BY <1>0, <1>4, <2>3, <3>1, BackendAssumption DEF Numbers
      <3>. QED
        BY <1>0, <1>1, <1>4, <2>1, <2>3, <3>2, Zenon DEF Numbers
    <2>5. JobTypes'
      BY <1>0, <1>1, <1>4, <2>3, Zenon DEF JobTypes
    <2>. QED
      BY <2>2, <2>3, <2>4, <2>5, Zenon DEF JobsInv
  <1>5. CASE /\ pending > 0 /\ pending' = pending - 1 /\ outstanding' = outstanding - 1 /\ advancing' = advancing
             /\ drain' = Dispatcher!Resolved(outstanding - 1, stopped)
             /\ jobs # <<>> /\ jobs' = Tail(jobs) /\ hand' = {Head(jobs)}
             /\ stage' = [stage EXCEPT ![Head(jobs)] = "starting"] /\ running' = running
    <2>. DEFINE h == Head(jobs)
    <2>1. /\ jobs' \in Seq(Futures) /\ Len(jobs') = Len(jobs) - 1 /\ Len(jobs) \in Nat \ {0} /\ h = jobs[1] /\ h \in Futures
      BY <1>0, <1>5, TailFacts, Zenon
    <2>2. h \notin Slots
      <3>1. 1 \in 1..Len(jobs)
        BY <2>1
      <3>2. stage[h] = "queued"
        BY <1>0, <2>1, <3>1, Zenon DEF InLine, Waits
      <3>. QED
        BY <3>2 DEF Slots
    <2>. HIDE DEF h
    <2>3. /\ stage' \in [Futures -> Dispatcher!Stages] /\ Slots' = Slots \cup {h}
          /\ stage'[h] = "starting" /\ \A u \in Futures \ {h} : stage'[u] = stage[u]
      <3>1. "starting" \in Dispatcher!Stages /\ stage' = [stage EXCEPT ![h] = "starting"]
        BY <1>5, Zenon DEF Dispatcher!Stages, h
      <3>. QED
        BY <1>0, <2>1, <3>1, SlotsStep, Zenon
    <2>4. IsFiniteSet(Slots') /\ Cardinality(Slots') = Cardinality(Slots) + 1 /\ Cardinality(Slots) \in Nat
      BY <1>0, <2>2, <2>3, SlotsCount, Zenon DEF Numbers
    <2>5. InLine'
      BY <1>0, <1>5, <2>3, TailInLine, Zenon DEF h
    <2>6. /\ drain' \in [Drainers -> {"idle", "registered", "resolved"}] /\ Answered'
          /\ pending' \in Nat /\ running > 0
      BY <1>3, <1>5, Zenon
    <2>7. Numbers'
      <3>1. /\ Len(jobs') \in Nat /\ Len(jobs') =< MaxJobs /\ running = Cardinality(Slots') + pending'
            /\ outstanding' = running + Len(jobs')
        <4>1. /\ running = Cardinality(Slots) + pending /\ outstanding = running + Len(jobs)
              /\ Len(jobs) =< MaxJobs /\ running \in Nat /\ pending \in Nat
          BY <1>0, Zenon DEF Numbers
        <4>2. pending' = pending - 1 /\ outstanding' = outstanding - 1 /\ MaxJobs \in Nat
          BY <1>5, BackendAssumption, Zenon
        <4>3. Len(jobs') = Len(jobs) - 1 /\ Len(jobs) \in Nat \ {0}
          BY <2>1, Zenon
        <4>. DEFINE old == Len(jobs)
                    new == Len(jobs')
                    before == Cardinality(Slots)
                    after == Cardinality(Slots')
        <4>4. after = before + 1 /\ before \in Nat /\ new = old - 1 /\ old \in Nat \ {0}
          BY <2>4, <4>3, Zenon
        <4>5. running = before + pending /\ outstanding = running + old /\ old =< MaxJobs /\ running \in Nat /\ pending \in Nat
          BY <4>1, Zenon
        <4>. HIDE DEF old, new, before, after
        <4>6. new \in Nat /\ new =< MaxJobs /\ running = after + pending' /\ outstanding' = running + new
          BY <4>2, <4>4, <4>5
        <4>. QED
          BY <4>6 DEF new, after
      <3>. QED
        BY <1>0, <1>1, <1>5, <2>4, <2>6, <3>1, Zenon DEF Numbers
    <2>8. JobTypes'
      <3>1. hand' \subseteq Futures
        BY <1>5, <2>1 DEF h
      <3>. QED
        BY <1>0, <1>1, <1>5, <2>1, <2>3, <2>6, <3>1, Zenon DEF JobTypes
    <2>. QED
      BY <2>5, <2>6, <2>7, <2>8, Zenon DEF JobsInv
  <1>. QED
    BY <1>2, <1>4, <1>5, Zenon DEF Dispatcher!Advance

LEMMA NextJobs ==
    ASSUME JobsInv, [BackendNext]_backend
    PROVE  JobsInv'
  <1>0. JobTypes /\ Numbers /\ InLine /\ Answered /\ jobs \in Seq(Futures)
    BY Zenon DEF JobsInv, JobTypes
  <1>1. ASSUME NEW t \in Futures, Dispatcher!Start(t) PROVE JobsInv'
    <2>1. /\ stage[t] = "starting" /\ UNCHANGED <<stopped, running, outstanding, jobs, pending, advancing, drain, up>>
          /\ stage' = [stage EXCEPT ![t] = IF up THEN "spawned" ELSE "ending"]
          /\ hand' = IF up THEN hand \ {t} ELSE hand
      BY <1>1, Zenon DEF Dispatcher!Start
    <2>2. t \in Slots /\ hand' \subseteq Futures
      BY <1>0, <1>1, <2>1 DEF Slots, JobTypes
    <2>3. CASE up
      BY <2>1, <2>2, <2>3, MoveJobs, Zenon
    <2>4. CASE ~up
      BY <2>1, <2>2, <2>4, MoveJobs, Zenon
    <2>. QED
      BY <2>3, <2>4
  <1>2. ASSUME NEW t \in Futures, Dispatcher!End(t) PROVE JobsInv'
    <2>1. /\ stage[t] = "spawned" /\ stage' = [stage EXCEPT ![t] = "ending"]
          /\ UNCHANGED <<stopped, running, outstanding, jobs, pending, advancing, hand, drain, up>>
      BY <1>2, Zenon DEF Dispatcher!End
    <2>2. t \in Slots /\ hand' \subseteq Futures
      BY <1>0, <1>2, <2>1 DEF Slots, JobTypes
    <2>. QED
      BY <2>1, <2>2, MoveJobs, Zenon
  <1>3. ASSUME UNCHANGED <<running, outstanding, jobs, pending, advancing, hand, stage>>, up' \in BOOLEAN, stopped' \in BOOLEAN,
               stopped => stopped', drain' \in [Drainers -> {"idle", "registered", "resolved"}],
               \A d \in Drainers : drain'[d] = "resolved" => drain[d] = "resolved" \/ (stopped' /\ outstanding = 0)
        PROVE  JobsInv'
    <2>1. Slots' = Slots /\ \A u \in Futures : Waits(u)' <=> Waits(u)
      BY <1>3, Zenon DEF Slots, Waits
    <2>2. InLine'
      BY <1>0, <1>3, <2>1, SameInLine, Zenon
    <2>3. Numbers'
      BY <1>0, <1>3, <2>1, Zenon DEF Numbers
    <2>4. JobTypes'
      BY <1>0, <1>3, Zenon DEF JobTypes
    <2>. QED
      BY <1>0, <1>3, <2>2, <2>3, <2>4, Zenon DEF JobsInv, Answered
  <1>4. CASE Dispatcher!Close
    <2>1. /\ stopped' = TRUE /\ drain' = Dispatcher!Resolved(outstanding, TRUE)
          /\ UNCHANGED <<running, outstanding, jobs, pending, advancing, hand, stage, up>>
      BY <1>4, Zenon DEF Dispatcher!Close
    <2>2. /\ drain' \in [Drainers -> {"idle", "registered", "resolved"}]
          /\ \A d \in Drainers : drain'[d] = "resolved" => drain[d] = "resolved" \/ (TRUE /\ outstanding = 0)
      BY <1>0, <2>1, ResolvedFacts, Zenon
    <2>3. up' \in BOOLEAN /\ stopped' \in BOOLEAN
      BY <1>0, <2>1, Zenon DEF JobTypes
    <2>. QED
      BY <1>3, <2>1, <2>2, <2>3, Zenon
  <1>5. ASSUME NEW d \in Drainers, Dispatcher!Drain(d) PROVE JobsInv'
    <2>1. /\ drain' = [drain EXCEPT ![d] = IF stopped /\ outstanding = 0 THEN "resolved" ELSE "registered"]
          /\ UNCHANGED <<stopped, running, outstanding, jobs, pending, advancing, hand, stage, up>>
      BY <1>5, Zenon DEF Dispatcher!Drain
    <2>2. drain \in [Drainers -> {"idle", "registered", "resolved"}] /\ up' \in BOOLEAN /\ stopped' \in BOOLEAN
      BY <1>0, <2>1, Zenon DEF JobTypes
    <2>3. /\ drain' \in [Drainers -> {"idle", "registered", "resolved"}]
          /\ \A e \in Drainers : drain'[e] = "resolved" => drain[e] = "resolved" \/ (stopped' /\ outstanding = 0)
      BY <2>1, <2>2
    <2>. QED
      BY <1>3, <2>1, <2>2, <2>3, Zenon
  <1>6. CASE Dispatcher!ShutDown
    <2>1. up' = FALSE /\ UNCHANGED <<stopped, running, outstanding, jobs, pending, advancing, hand, stage, drain>>
      BY <1>6, Zenon DEF Dispatcher!ShutDown
    <2>2. stopped' \in BOOLEAN /\ up' \in BOOLEAN /\ drain' \in [Drainers -> {"idle", "registered", "resolved"}]
      BY <1>0, <2>1, Zenon DEF JobTypes
    <2>. QED
      BY <1>3, <2>1, <2>2, Zenon
  <1>7. CASE UNCHANGED dispatcher
    <2>1. UNCHANGED <<stopped, running, outstanding, jobs, pending, advancing, hand, stage, drain, up>>
      BY <1>7, Zenon DEF dispatcher
    <2>2. stopped' \in BOOLEAN /\ up' \in BOOLEAN /\ drain' \in [Drainers -> {"idle", "registered", "resolved"}]
      BY <1>0, <2>1, Zenon DEF JobTypes
    <2>. QED
      BY <1>3, <2>1, <2>2, Zenon
  <1>. QED
    BY <1>1, <1>2, <1>4, <1>5, <1>6, <1>7, DispatcherStep, SubmitJobs, FinishedJobs, AdvanceJobs, Zenon DEF Dispatcher!Next

LEMMA InitJobs == BackendInit => JobsInv
  <1>. SUFFICES ASSUME Dispatcher!Init PROVE JobsInv
    BY DEF BackendInit
  <1>1. /\ stopped = FALSE /\ running = 0 /\ outstanding = 0 /\ jobs = <<>> /\ pending = 0 /\ advancing = FALSE
        /\ hand = {} /\ stage = [t \in Futures |-> "absent"] /\ drain = [d \in Drainers |-> "idle"] /\ up = TRUE
    BY Zenon DEF Dispatcher!Init
  <1>2. Slots = {} /\ Len(jobs) = 0 /\ jobs \in Seq(Futures)
    BY <1>1 DEF Slots
  <1>3. JobTypes
    BY <1>1, <1>2, Zenon DEF JobTypes, Dispatcher!Stages
  <1>4. IsFiniteSet(Slots) /\ Cardinality(Slots) = 0
    BY <1>2, FS_EmptySet, Zenon
  <1>5. Numbers
    BY <1>1, <1>2, <1>4, BackendAssumption DEF Numbers
  <1>6. InLine
    BY <1>1, <1>2 DEF InLine, Waits
  <1>7. Answered
    BY <1>1 DEF Answered
  <1>. QED
    BY <1>3, <1>5, <1>6, <1>7, Zenon DEF JobsInv

LEMMA AlwaysJobs == BackendSpec => []JobsInv
  BY InitJobs, NextJobs, PTL DEF BackendSpec

\* Every accepted job is counted once, from its submit until its completion was
\* worked off by whichever thread, and the counters stay within their limits:
\* the expects of finish_one_pending never fail.
THEOREM CountersAgree == BackendSpec => []JobsCounted
  <1>1. JobsInv => JobsCounted
    <2>. SUFFICES ASSUME JobsInv PROVE JobsCounted
      OBVIOUS
    <2>1. JobTypes /\ Numbers
      BY Zenon DEF JobsInv
    <2>2. Dispatcher!In({"starting", "spawned", "ending"}) = Slots
      BY Zenon DEF Dispatcher!In, Slots
    <2>3. running \in 0..MaxRunning /\ outstanding \in 0..(MaxRunning + MaxJobs)
      BY <2>1, BackendAssumption DEF Numbers
    <2>4. Dispatcher!TypeOK
      BY <2>1, <2>3, Zenon DEF Dispatcher!TypeOK, JobTypes, Numbers
    <2>5. \A S : Dispatcher!Cardinality(S) = Cardinality(S)
      BY Zenon DEF Dispatcher!Cardinality, Cardinality
    <2>. QED
      BY <2>1, <2>2, <2>4, <2>5, Zenon DEF JobsCounted, Dispatcher!Counted, Numbers
  <1>. QED
    BY <1>1, AlwaysJobs, PTL

\* No job waits for a slot while one is free.
THEOREM SlotsAreUsed == BackendSpec => []NoIdleSlot
  <1>1. JobsInv => NoIdleSlot
    BY Zenon DEF JobsInv, Numbers, NoIdleSlot, Dispatcher!NoIdleSlot
  <1>. QED
    BY <1>1, AlwaysJobs, PTL

-----------------------------------------------------------------------------
\* What the gate and the dispatcher have to do with each other.

\* The permit of a queue is with its accepted operation, or with the caller that
\* is going to submit one or whose job was refused; the gate closes first.
Held ==
    /\ \A f \in Futures : Accepted(f) => at[f] = "permit"
    /\ \A f \in refused : f \in Futures /\ at[f] = "permit" /\ stage[f] = "absent"
    /\ stopped => closed

\* A caller that moves is not one with an accepted or a refused job.
LEMMA HeldByOthers ==
    ASSUME Held, NEW f \in Futures, ~Accepted(f), f \notin refused', refused' \subseteq refused,
           \A g \in Futures \ {f} : at'[g] = at[g], UNCHANGED <<stage, stopped, closed>>
    PROVE  Held'
  BY DEF Held, Accepted

\* What the steps of the gate do to the callers.
LEMMA CallerMoves ==
    ASSUME Consistent, NEW f \in Futures, Acquire(f, key[f]) \/ Poll(f) \/ Drop(f) \/ Release(f)
    PROVE  /\ \A g \in Futures \ {f} : at'[g] = at[g]
           /\ closed' = closed
           /\ ~Release(f) => at[f] # "permit"
  <1>1. at \in [Futures -> Places]
    BY Zenon DEF Consistent, Types
  <1>2. at' = at \/ \E place \in Places : at' = [at EXCEPT ![f] = place]
    BY Zenon DEF Acquire, Poll, FirstPoll, PollAgain, Refused, Drop, Release, Places
  <1>3. closed' = closed
    BY Zenon DEF Acquire, Poll, FirstPoll, PollAgain, Drop, Release, gate
  <1>4. ~Release(f) => at[f] \in {"idle", "new", "waiting"}
    BY Zenon DEF Acquire, Poll, FirstPoll, PollAgain, Drop
  <1>. QED
    BY <1>1, <1>2, <1>3, <1>4, Zenon

LEMMA NextHeld ==
    ASSUME Consistent, JobsInv, Held, [BackendNext]_backend
    PROVE  Held'
  <1>0. stage \in [Futures -> Dispatcher!Stages] /\ jobs \in Seq(Futures) /\ InLine
    BY Zenon DEF JobsInv, JobTypes
  <1>1. ASSUME NEW f \in Futures, AwaitPermit(f) PROVE Held'
    <2>1. /\ Acquire(f, key[f]) \/ Poll(f) \/ Drop(f)
          /\ UNCHANGED <<stage, stopped, refused>>
      BY <1>1, Zenon DEF AwaitPermit, dispatcher
    <2>2. \A g \in Futures \ {f} : at'[g] = at[g] /\ closed' = closed
      BY <2>1, CallerMoves, Zenon
    <2>3. at[f] # "permit" /\ closed' = closed
      <3>1. at[f] \in {"idle", "new", "waiting"}
        BY <2>1, Zenon DEF Acquire, Poll, FirstPoll, PollAgain, Drop
      <3>. QED
        BY <2>1, <3>1, CallerMoves
    <2>4. ~Accepted(f) /\ f \notin refused
      BY <2>3, Zenon DEF Held
    <2>. QED
      BY <2>1, <2>2, <2>3, <2>4, HeldByOthers, Zenon
  <1>2. ASSUME NEW f \in Futures, Submit(f) PROVE Held'
    <2>1. /\ at[f] = "permit" /\ f \notin refused /\ UNCHANGED <<at, closed, refused, stopped>>
          /\ stage' = [stage EXCEPT ![f] = "starting"] \/ stage' = [stage EXCEPT ![f] = "queued"]
      BY <1>2, Zenon DEF Submit, Submitting, Dispatcher!Submit, vars
    <2>2. \A g \in Futures \ {f} : stage'[g] = stage[g]
      BY <1>0, <2>1, Zenon
    <2>. QED
      BY <2>1, <2>2 DEF Held, Accepted
  <1>3. ASSUME NEW f \in Futures, Refuse(f) PROVE Held'
    <2>1. at[f] = "permit" /\ stage[f] = "absent" /\ refused' = refused \cup {f} /\ UNCHANGED <<at, closed, stage, stopped>>
      BY <1>3, Zenon DEF Refuse, Submitting, vars, dispatcher
    <2>. QED
      BY <2>1 DEF Held, Accepted
  <1>4. ASSUME NEW f \in Futures, GiveBack(f) PROVE Held'
    <2>1. f \in refused /\ refused' = refused \ {f} /\ Release(f) /\ UNCHANGED <<stage, stopped>>
      BY <1>4, Zenon DEF GiveBack, dispatcher
    <2>2. ~Accepted(f)
      BY <2>1 DEF Held, Accepted
    <2>3. (\A g \in Futures \ {f} : at'[g] = at[g]) /\ closed' = closed
      BY <2>1, CallerMoves, Zenon
    <2>4. f \notin refused' /\ refused' \subseteq refused
      BY <2>1, Zenon
    <2>. QED
      BY <2>1, <2>2, <2>3, <2>4, HeldByOthers, Zenon
  <1>5. ASSUME NEW f \in Futures, NEW place \in {"ending", "absent"}, stage' = [stage EXCEPT ![f] = place],
               stage[f] # "absent", \A g \in Futures \ {f} : at'[g] = at[g], UNCHANGED <<refused, closed, stopped>>
        PROVE  Held'
    <2>1. stage'[f] = place /\ \A g \in Futures \ {f} : stage'[g] = stage[g]
      BY <1>0, <1>5
    <2>2. f \notin refused
      BY <1>5, Zenon DEF Held
    <2>. QED
      BY <1>5, <2>1, <2>2, Zenon DEF Held, Accepted
  <1>6. ASSUME NEW f \in Futures, Start(f) PROVE Held'
    <2>1. stage[f] = "starting" /\ UNCHANGED <<refused, stopped>>
      BY <1>6, Zenon DEF Start, Dispatcher!Start
    <2>2. CASE up
      <3>1. stage' = [stage EXCEPT ![f] = "spawned"] /\ UNCHANGED <<at, closed>>
        BY <1>6, <2>2, Zenon DEF Start, Dispatcher!Start, vars
      <3>2. stage'[f] = "spawned" /\ \A g \in Futures \ {f} : stage'[g] = stage[g]
        BY <1>0, <3>1
      <3>. QED
        BY <2>1, <3>1, <3>2 DEF Held, Accepted
    <2>3. CASE ~up
      <3>1. stage' = [stage EXCEPT ![f] = "ending"] /\ Release(f)
        BY <1>6, <2>3, Zenon DEF Start, Dispatcher!Start
      <3>2. (\A g \in Futures \ {f} : at'[g] = at[g]) /\ closed' = closed
        BY <3>1, CallerMoves, Zenon
      <3>3. stage[f] # "absent"
        BY <2>1
      <3>. QED
        BY <1>5, <2>1, <3>1, <3>2, <3>3, Zenon
    <2>. QED
      BY <2>2, <2>3
  <1>7. ASSUME NEW f \in Futures, End(f) PROVE Held'
    <2>1. stage[f] = "spawned" /\ stage' = [stage EXCEPT ![f] = "ending"] /\ Release(f) /\ UNCHANGED <<refused, stopped>>
      BY <1>7, Zenon DEF End, Dispatcher!End
    <2>2. (\A g \in Futures \ {f} : at'[g] = at[g]) /\ closed' = closed /\ stage[f] # "absent"
      BY <2>1, CallerMoves
    <2>. QED
      BY <1>5, <2>1, <2>2, Zenon
  <1>8. ASSUME NEW f \in Futures, Finished(f) PROVE Held'
    <2>1. /\ stage[f] = "ending" /\ stage' = [stage EXCEPT ![f] = "absent"]
          /\ UNCHANGED <<refused, stopped, closed, at>>
      BY <1>8, Zenon DEF Finished, Dispatcher!Finished, vars
    <2>2. stage[f] # "absent"
      BY <2>1
    <2>. QED
      BY <1>5, <2>1, <2>2, Zenon
  <1>9. CASE Advance
    <2>1. UNCHANGED <<at, closed, stopped, refused>>
      BY <1>9, Zenon DEF Advance, Dispatcher!Advance, vars
    <2>2. CASE stage' = stage
      BY <2>1, <2>2, Zenon DEF Held, Accepted
    <2>3. CASE stage' = [stage EXCEPT ![Head(jobs)] = "starting"] /\ jobs # <<>>
      <3>1. Head(jobs) \in Futures /\ Head(jobs) = jobs[1] /\ 1 \in 1..Len(jobs)
        BY <1>0, <2>3, TailFacts
      <3>2. stage[Head(jobs)] = "queued"
        BY <1>0, <3>1, ZenonT(30) DEF InLine, Waits
      <3>. DEFINE h == Head(jobs)
      <3>3. stage'[h] = "starting" /\ \A g \in Futures \ {h} : stage'[g] = stage[g]
        BY <1>0, <2>3, <3>1, Zenon
      <3>4. h \in Futures /\ stage[h] = "queued"
        BY <3>1, <3>2
      <3>. HIDE DEF h
      <3>. QED
        BY <2>1, <3>3, <3>4, Zenon DEF Held, Accepted
    <2>. QED
      BY <1>9, <2>2, <2>3, Zenon DEF Advance, Dispatcher!Advance
  <1>10. CASE CloseAdmission
    <2>1. closed' = TRUE /\ UNCHANGED <<at, stage, stopped, refused>>
      BY <1>10, Zenon DEF CloseAdmission, Close, dispatcher
    <2>. QED
      BY <2>1, Zenon DEF Held, Accepted
  <1>11. CASE CloseDispatcher
    <2>1. closed /\ UNCHANGED <<at, closed, stage, refused>>
      BY <1>11, Zenon DEF CloseDispatcher, Dispatcher!Close, vars
    <2>. QED
      BY <2>1, Zenon DEF Held, Accepted
  <1>12. CASE ShutDown \/ (\E d \in Drainers : Drain(d)) \/ UNCHANGED backend
    <2>1. UNCHANGED <<at, closed, stage, stopped, refused>>
      BY <1>12, Zenon DEF ShutDown, Dispatcher!ShutDown, Drain, Dispatcher!Drain, vars, backend, dispatcher
    <2>. QED
      BY <2>1, Zenon DEF Held, Accepted
  <1>. QED
    BY <1>1, <1>2, <1>3, <1>4, <1>6, <1>7, <1>8, <1>9, <1>10, <1>11, <1>12, Zenon DEF BackendNext

LEMMA AlwaysHeld == BackendSpec => [](Consistent /\ JobsInv /\ Held)
  <1>1. BackendInit => Held
    BY DEF BackendInit, Init, Dispatcher!Init, Held, Accepted
  <1>. QED
    BY <1>1, NextHeld, BackendConsistent, AlwaysJobs, PTL DEF BackendSpec

\* The operations of one queue are serial: an accepted operation owns its queue
\* until it ended, whatever became of its caller, so that no two operations of a
\* queue are in the dispatcher together.
THEOREM OperationsAreSerial == BackendSpec => []SerialOperations
  <1>1. Consistent /\ Held => SerialOperations
    <2>. SUFFICES ASSUME Consistent, Held PROVE SerialOperations
      OBVIOUS
    <2>1. \A f \in Futures : key[f] \in Keys
      BY Zenon DEF Consistent, Types
    <2>2. \A f \in Futures : Accepted(f) => Owns(f, key[f])
      BY Zenon DEF Held, Owns
    <2>3. ASSUME NEW f \in Futures, NEW g \in Futures, Accepted(f), Accepted(g), key[f] = key[g] PROVE f = g
      <3>1. Owns(f, key[f]) /\ Owns(g, key[f])
        BY <2>2, <2>3, Zenon DEF Owns
      <3>. QED
        BY <2>1, <3>1, Zenon DEF Consistent, OneOwner
    <2>. QED
      BY <2>2, <2>3, Zenon DEF SerialOperations
  <1>. QED
    BY <1>1, AlwaysHeld, PTL

\* Once a drain was answered the backend is closed and no operation is in it, and
\* it stays so: an acquire that outlived the close gets its job refused.
THEOREM DrainIsFinal == BackendSpec => []DrainedForGood
  <1>1. JobsInv /\ Held => DrainedForGood
    <2>. SUFFICES ASSUME JobsInv, Held, NEW d \in Drainers, drain[d] = "resolved"
                  PROVE  closed /\ \A f \in Futures : stage[f] = "absent"
      BY Zenon DEF DrainedForGood
    <2>1. stopped /\ outstanding = 0 /\ closed /\ Numbers /\ InLine /\ JobTypes
      BY Zenon DEF JobsInv, Answered, Held
    <2>2. Cardinality(Slots) = 0 /\ Len(jobs) = 0
      <3>1. Cardinality(Slots) \in Nat
        BY <2>1, SlotsCount, Zenon DEF Numbers
      <3>. QED
        BY <2>1, <3>1 DEF Numbers
    <2>3. Slots = {}
      BY <2>1, <2>2, FS_EmptySet, Zenon DEF Numbers
    <2>4. \A f \in Futures : ~Waits(f)
      BY <2>1, <2>2 DEF InLine
    <2>. QED
      BY <2>1, <2>3, <2>4 DEF JobTypes, Dispatcher!Stages, Slots, Waits
  <1>. QED
    BY <1>1, AlwaysHeld, PTL
=============================================================================
