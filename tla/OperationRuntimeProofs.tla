----------------------- MODULE OperationRuntimeProofs -----------------------
(***************************************************************************)
(* The admission of storage operations, for any number of jobs, charges and  *)
(* drainers and any limits: its two counters are exactly what the living     *)
(* guards hold, no charge outlives the slot of its job, and a drain that     *)
(* returned is final.                                                        *)
(*                                                                         *)
(* The inductive invariant has four parts: Types; Guards, which kinds of     *)
(* guard can exist at which stage of a job; Counts, what the counters are;   *)
(* and Closing, what a drainer has done to get where it is.                  *)
(***************************************************************************)
EXTENDS OperationRuntime, UnitsProofs

-----------------------------------------------------------------------------
(***************************************************************************)
(* The inductive invariant.                                                  *)
(***************************************************************************)
Stages == {"absent", "live", "last", "released"}
Places == {"idle", "loop", "armed", "await", "drained"}

Types ==
    /\ closed \in BOOLEAN
    /\ stage \in [Jobs -> Stages]
    /\ owner \in [Jobs -> BOOLEAN] /\ base \in [Jobs -> Nat]
    /\ kind \in [Charges -> Kinds] /\ held \in [Charges -> Nat]
    /\ work \in [Jobs -> 0..MaxWork]
    /\ drain \in [Drainers -> Places]
    /\ listening \subseteq Drainers

\* The operation and every charge keep the job live; the bytes of the reservation
\* itself stay until its own drop.
Guards ==
    /\ \A j \in Jobs : owner[j] => stage[j] = "live"
    /\ \A j \in Jobs : j \notin Admitted => base[j] = 0
    /\ \A c \in Charges : kind[c] = "none" => held[c] = 0
    /\ \A c \in Charges : kind[c] # "none" => stage[JobOf[c]] = "live"

\* The counters and what they count.
SlotCount ==
    /\ IsFiniteSet(Admitted)
    /\ slots = Cardinality(Admitted) /\ slots \in 0..MaxSlots
ByteCount ==
    /\ IsFiniteSet(Units(base)) /\ IsFiniteSet(Units(held))
    /\ bytes = Cardinality(Units(base)) + Cardinality(Units(held)) /\ bytes \in 0..MaxBytes

\* A drainer closed the admission before anything else, and returned on no usage.
Closing ==
    /\ \A d \in Drainers : drain[d] # "idle" => closed
    /\ \A d \in Drainers : drain[d] = "drained" => slots = 0

Inv == Types /\ Guards /\ SlotCount /\ ByteCount /\ Closing

\* Guards and slots: what a step that leaves a job admitted, or not, leaves as it is.
LEMMA SameSlots ==
    ASSUME SlotCount, slots' = slots, \A j \in Jobs : (j \in Admitted)' <=> j \in Admitted
    PROVE  SlotCount'
<1>1. Admitted' = Admitted
  BY Zenon DEF Admitted
<1> QED
  BY <1>1 DEF SlotCount

\* A job that is admitted takes a slot.
LEMMA SlotTaken ==
    ASSUME SlotCount, NEW j \in Jobs, j \notin Admitted, Admitted' = Admitted \cup {j},
           slots < MaxSlots, slots' = slots + 1
    PROVE  SlotCount'
<1>1. IsFiniteSet(Admitted)
  BY Zenon DEF SlotCount
<1>2. IsFiniteSet(Admitted \cup {j}) /\ Cardinality(Admitted \cup {j}) = Cardinality(Admitted) + 1
  <2>1. /\ IsFiniteSet(Admitted \cup {j})
        /\ Cardinality(Admitted \cup {j}) = IF j \in Admitted THEN Cardinality(Admitted) ELSE Cardinality(Admitted) + 1
    BY <1>1, FS_AddElement, Zenon
  <2> QED
    BY <2>1, Zenon
<1>3. IsFiniteSet(Admitted') /\ Cardinality(Admitted') = slots'
  BY <1>2, Zenon DEF SlotCount
<1>4. slots' \in 0..MaxSlots
  BY RuntimeAssumption DEF SlotCount
<1> QED
  BY <1>3, <1>4, Zenon DEF SlotCount

\* A job that is released gives its slot back.
LEMMA SlotGiven ==
    ASSUME SlotCount, NEW j \in Admitted, Admitted' = Admitted \ {j}, slots' = slots - 1
    PROVE  SlotCount'
<1>1. IsFiniteSet(Admitted)
  BY Zenon DEF SlotCount
<1>2. IsFiniteSet(Admitted \ {j}) /\ Cardinality(Admitted \ {j}) = Cardinality(Admitted) - 1
  <2>1. /\ IsFiniteSet(Admitted \ {j})
        /\ Cardinality(Admitted \ {j}) = IF j \in Admitted THEN Cardinality(Admitted) - 1 ELSE Cardinality(Admitted)
    BY <1>1, FS_RemoveElement, Zenon
  <2> QED
    BY <2>1, Zenon
<1>3. IsFiniteSet(Admitted') /\ Cardinality(Admitted') = slots'
  BY <1>2, Zenon DEF SlotCount
<1>4. slots' \in Nat
  BY <1>3, FS_CardinalityType, Zenon
<1>5. slots' \in 0..MaxSlots
  BY <1>4, RuntimeAssumption DEF SlotCount
<1> QED
  BY <1>3, <1>5, Zenon DEF SlotCount

\* The bytes of one reservation change, and the counter by as much.
LEMMA BaseSet ==
    ASSUME Types, ByteCount, NEW j \in Jobs, held' = held,
           base' \in [Jobs -> Nat], \A y \in Jobs \ {j} : base'[y] = base[y]
    PROVE  bytes' = bytes - base[j] + base'[j] /\ bytes' <= MaxBytes => ByteCount'
<1>1. base \in [Jobs -> Nat] /\ IsFiniteSet(Units(base)) /\ IsFiniteSet(Units(held))
  BY Zenon DEF Types, ByteCount
<1>2. IsFiniteSet(Units(base'))
  BY <1>1, UnitsChange, Zenon
<1>3. PICK rest \in Nat : Rest(base, j, rest) /\ Rest(base', j, rest)
  BY <1>1, UnitsChange, Zenon
<1> HAVE bytes' = bytes - base[j] + base'[j] /\ bytes' <= MaxBytes
<1> DEFINE p == Cardinality(Units(base))
           q == Cardinality(Units(held))
           p2 == Cardinality(Units(base'))
           old == base[j]
           new == base'[j]
<1>4. p \in Nat /\ q \in Nat /\ old \in Nat /\ new \in Nat
  <2>1. base[j] \in Nat /\ base'[j] \in Nat
    BY <1>1
  <2> QED
    BY <1>1, <2>1, FS_CardinalityType, Zenon
<1>5. bytes = p + q /\ p = old + rest /\ p2 = new + rest /\ bytes' = bytes - old + new
  BY <1>3, Zenon DEF ByteCount, Rest
<1> HIDE DEF p, q, p2, old, new
<1>6. bytes' = p2 + q /\ bytes' \in 0..MaxBytes
  BY <1>4, <1>5, RuntimeAssumption
<1>7. bytes' = Cardinality(Units(base')) + Cardinality(Units(held'))
  BY <1>6, Zenon DEF p2, q
<1> QED
  BY <1>1, <1>2, <1>6, <1>7, Zenon DEF ByteCount

\* The same for the bytes of one charge.
LEMMA HeldSet ==
    ASSUME Types, ByteCount, NEW c \in Charges, base' = base,
           held' \in [Charges -> Nat], \A y \in Charges \ {c} : held'[y] = held[y]
    PROVE  bytes' = bytes - held[c] + held'[c] /\ bytes' <= MaxBytes => ByteCount'
<1>1. held \in [Charges -> Nat] /\ IsFiniteSet(Units(base)) /\ IsFiniteSet(Units(held))
  BY Zenon DEF Types, ByteCount
<1>2. IsFiniteSet(Units(held'))
  BY <1>1, UnitsChange, Zenon
<1>3. PICK rest \in Nat : Rest(held, c, rest) /\ Rest(held', c, rest)
  BY <1>1, UnitsChange, Zenon
<1> HAVE bytes' = bytes - held[c] + held'[c] /\ bytes' <= MaxBytes
<1> DEFINE p == Cardinality(Units(base))
           q == Cardinality(Units(held))
           q2 == Cardinality(Units(held'))
           old == held[c]
           new == held'[c]
<1>4. p \in Nat /\ q \in Nat /\ old \in Nat /\ new \in Nat
  <2>1. held[c] \in Nat /\ held'[c] \in Nat
    BY <1>1
  <2> QED
    BY <1>1, <2>1, FS_CardinalityType, Zenon
<1>5. bytes = p + q /\ q = old + rest /\ q2 = new + rest /\ bytes' = bytes - old + new
  BY <1>3, Zenon DEF ByteCount, Rest
<1> HIDE DEF p, q, q2, old, new
<1>6. bytes' = p + q2 /\ bytes' \in 0..MaxBytes
  BY <1>4, <1>5, RuntimeAssumption
<1>7. bytes' = Cardinality(Units(base')) + Cardinality(Units(held'))
  BY <1>6, Zenon DEF q2, p
<1> QED
  BY <1>1, <1>2, <1>6, <1>7, Zenon DEF ByteCount

\* What one charge gives to another is not lost.
LEMMA HeldMoved ==
    ASSUME Types, ByteCount, NEW c \in Charges, NEW d \in Charges, c # d,
           held' = [held EXCEPT ![c] = held[c] + held[d], ![d] = 0],
           base' = base, bytes' = bytes
    PROVE  ByteCount' /\ held' \in [Charges -> Nat]
<1> DEFINE m == [held EXCEPT ![d] = 0]
<1>1. held \in [Charges -> Nat] /\ IsFiniteSet(Units(held)) /\ held[c] \in Nat /\ held[d] \in Nat
  BY DEF Types, ByteCount
<1>2. m \in [Charges -> Nat] /\ m[c] = held[c] /\ m[d] = 0 /\ \A y \in Charges \ {d} : m[y] = held[y]
  BY <1>1
<1>3. held' \in [Charges -> Nat] /\ held'[c] = held[c] + held[d] /\ \A y \in Charges \ {c} : held'[y] = m[y]
  BY <1>1
<1> HIDE DEF m
<1>4. /\ IsFiniteSet(Units(m))
      /\ \E rest \in Nat : Rest(held, d, rest) /\ Rest(m, d, rest)
  BY <1>1, <1>2, UnitsChange, Zenon
<1>5. /\ IsFiniteSet(Units(held'))
      /\ \E rest \in Nat : Rest(m, c, rest) /\ Rest(held', c, rest)
  BY <1>2, <1>3, <1>4, UnitsChange, Zenon
<1> DEFINE h == Cardinality(Units(held))
           h2 == Cardinality(Units(held'))
           k == Cardinality(Units(m))
           x == held[c]
           y == held[d]
<1>6. /\ \E rest \in Nat : h = y + rest /\ k = 0 + rest
      /\ \E rest \in Nat : k = x + rest /\ h2 = x + y + rest
      /\ x \in Nat /\ y \in Nat
  BY <1>1, <1>2, <1>3, <1>4, <1>5 DEF Rest
<1> HIDE DEF h, h2, k, x, y
<1>7. h2 = h
  BY <1>6
<1>8. Cardinality(Units(held')) = Cardinality(Units(held))
  BY <1>7, Zenon DEF h, h2
<1> QED
  BY <1>3, <1>5, <1>8, Zenon DEF ByteCount

-----------------------------------------------------------------------------
(***************************************************************************)
(* The steps of the jobs.                                                    *)
(***************************************************************************)

\* Steps that leave the drainers and the number of admitted jobs alone.
LEMMA SameClosing ==
    ASSUME Closing, closed' = closed, drain' = drain, slots' = slots
    PROVE  Closing'
BY Zenon DEF Closing

LEMMA ReserveInv ==
    ASSUME Inv, NEW j \in Jobs, NEW n \in Amounts, Reserve(j, n)
    PROVE  Inv'
<1>1. /\ stage[j] = "absent" /\ ~closed /\ slots < MaxSlots /\ n <= MaxBytes - bytes
      /\ slots' = slots + 1 /\ bytes' = bytes + n
      /\ stage' = [stage EXCEPT ![j] = "live"]
      /\ owner' = [owner EXCEPT ![j] = TRUE]
      /\ base' = [base EXCEPT ![j] = n]
      /\ work' = [work EXCEPT ![j] = MaxWork]
      /\ closed' = closed /\ kind' = kind /\ held' = held /\ drain' = drain /\ listening' = listening
  BY Zenon DEF Reserve, Room
<1>2. n \in Nat /\ MaxWork \in Nat /\ MaxBytes \in Nat /\ JobOf \in [Charges -> Jobs]
  BY RuntimeAssumption
<1>3. Types /\ Guards /\ SlotCount /\ ByteCount /\ Closing
  BY Zenon DEF Inv
<1>4. Types'
  BY <1>1, <1>2, <1>3 DEF Types, Stages
<1>5. j \notin Admitted /\ base[j] = 0
  BY <1>1, <1>3 DEF Admitted, Guards
<1>6. Admitted' = Admitted \cup {j}
  BY <1>1, <1>3 DEF Admitted, Types
<1>7. SlotCount'
  BY <1>1, <1>3, <1>5, <1>6, SlotTaken, Zenon
<1>8. ByteCount'
  <2>1. base' \in [Jobs -> Nat] /\ \A y \in Jobs \ {j} : base'[y] = base[y]
    BY <1>1, <1>2, <1>3 DEF Types
  <2>2. base'[j] = n
    BY <1>1, <1>3 DEF Types
  <2>3. bytes' = bytes - base[j] + base'[j] /\ bytes' <= MaxBytes
    BY <1>1, <1>2, <1>3, <1>5, <2>2 DEF ByteCount
  <2> QED
    BY <1>1, <1>3, <2>1, <2>3, BaseSet, Zenon
<1>9. Guards'
  <2>1. \A i \in Jobs : owner'[i] => stage'[i] = "live"
    BY <1>1, <1>3 DEF Guards, Types
  <2>2. \A i \in Jobs : i \notin Admitted' => base'[i] = 0
    BY <1>1, <1>3, <1>6 DEF Guards, Types
  <2>3. \A c \in Charges : kind'[c] # "none" => stage'[JobOf[c]] = "live"
    BY <1>1, <1>2, <1>3 DEF Guards, Types
  <2> QED
    BY <1>1, <1>3, <2>1, <2>2, <2>3, Zenon DEF Guards
<1>10. Closing'
  BY <1>1, <1>3 DEF Closing
<1> QED
  BY <1>4, <1>7, <1>8, <1>9, <1>10, Zenon DEF Inv

\* An allocation: the room that was found is enough, and it is all that is taken.
LEMMA AllocateFacts ==
    ASSUME Inv, NEW j \in Jobs, NEW n \in Amounts, Allocate(j, n)
    PROVE  /\ n \in Nat /\ bytes \in Nat /\ bytes' = bytes + n /\ bytes' <= MaxBytes
           /\ work' \in [Jobs -> 0..MaxWork]
           /\ slots' = slots /\ closed' = closed /\ stage' = stage /\ owner' = owner
           /\ drain' = drain /\ listening' = listening
           /\ SlotCount' /\ Closing'
<1>1. /\ n <= MaxBytes - bytes /\ work[j] > 0 /\ work' = [work EXCEPT ![j] = @ - 1] /\ bytes' = bytes + n
      /\ slots' = slots /\ closed' = closed /\ stage' = stage /\ owner' = owner
      /\ drain' = drain /\ listening' = listening
  BY DEF Allocate, Room
<1>2. n \in Nat /\ bytes \in Nat /\ bytes' <= MaxBytes
  BY <1>1, RuntimeAssumption DEF Inv, ByteCount
<1>3. work' \in [Jobs -> 0..MaxWork]
  BY <1>1, RuntimeAssumption DEF Inv, Types
<1>4. SlotCount'
  <2>1. Admitted' = Admitted
    BY <1>1, Zenon DEF Admitted
  <2> QED
    BY <1>1, <2>1, Zenon DEF Inv, SlotCount
<1>5. Closing'
  BY <1>1, SameClosing, Zenon DEF Inv
<1> QED
  BY <1>1, <1>2, <1>3, <1>4, <1>5, Zenon

LEMMA GrowInv ==
    ASSUME Inv, NEW j \in Jobs, NEW n \in Amounts, Grow(j, n)
    PROVE  Inv'
<1>1. stage[j] = "live" /\ Allocate(j, n) /\ base' = [base EXCEPT ![j] = @ + n] /\ kind' = kind /\ held' = held
  BY Zenon DEF Grow
<1>2. /\ n \in Nat /\ bytes \in Nat /\ bytes' = bytes + n /\ bytes' <= MaxBytes
      /\ work' \in [Jobs -> 0..MaxWork]
      /\ slots' = slots /\ closed' = closed /\ stage' = stage /\ owner' = owner
      /\ drain' = drain /\ listening' = listening
      /\ SlotCount' /\ Closing'
  BY <1>1, AllocateFacts, Zenon
<1>3. Types /\ Guards /\ ByteCount
  BY Zenon DEF Inv
<1>4. /\ base' \in [Jobs -> Nat] /\ base[j] \in Nat /\ base'[j] = base[j] + n
      /\ \A y \in Jobs \ {j} : base'[y] = base[y]
  BY <1>1, <1>2, <1>3 DEF Types
<1>5. Types'
  BY <1>1, <1>2, <1>3, <1>4, Zenon DEF Types
<1>6. ByteCount'
  <2>1. bytes' = bytes - base[j] + base'[j] /\ bytes' <= MaxBytes
    BY <1>2, <1>4
  <2> QED
    BY <1>1, <1>3, <1>4, <2>1, BaseSet, Zenon
<1>7. Guards'
  <2>1. Admitted' = Admitted /\ j \in Admitted
    BY <1>1, <1>2 DEF Admitted
  <2>2. \A i \in Jobs : i \notin Admitted' => base'[i] = 0
    BY <1>3, <1>4, <2>1 DEF Guards
  <2> QED
    BY <1>1, <1>2, <1>3, <2>2, Zenon DEF Guards
<1> QED
  BY <1>2, <1>5, <1>6, <1>7, Zenon DEF Inv

LEMMA BufferInv ==
    ASSUME Inv, NEW c \in Charges, NEW n \in Amounts, Buffer(c, n)
    PROVE  Inv'
<1>1. /\ stage[JobOf[c]] = "live" /\ kind[c] = "none" /\ Allocate(JobOf[c], n)
      /\ kind' = [kind EXCEPT ![c] = "borrowed"] /\ held' = [held EXCEPT ![c] = n] /\ base' = base
  BY Zenon DEF Buffer
<1>2. JobOf \in [Charges -> Jobs] /\ JobOf[c] \in Jobs
  BY RuntimeAssumption
<1>3. /\ n \in Nat /\ bytes \in Nat /\ bytes' = bytes + n /\ bytes' <= MaxBytes
      /\ work' \in [Jobs -> 0..MaxWork]
      /\ slots' = slots /\ closed' = closed /\ stage' = stage /\ owner' = owner
      /\ drain' = drain /\ listening' = listening
      /\ SlotCount' /\ Closing'
  BY <1>1, <1>2, AllocateFacts, Zenon
<1>4. Types /\ Guards /\ ByteCount
  BY Zenon DEF Inv
<1>5. /\ held' \in [Charges -> Nat] /\ held[c] = 0 /\ held'[c] = n
      /\ \A y \in Charges \ {c} : held'[y] = held[y]
  BY <1>1, <1>3, <1>4 DEF Types, Guards
<1>6. kind' \in [Charges -> Kinds] /\ kind'[c] = "borrowed" /\ \A y \in Charges \ {c} : kind'[y] = kind[y]
  BY <1>1, <1>4 DEF Types, Kinds
<1>7. Types'
  BY <1>1, <1>3, <1>4, <1>5, <1>6, Zenon DEF Types
<1>8. ByteCount'
  <2>1. bytes' = bytes - held[c] + held'[c] /\ bytes' <= MaxBytes
    BY <1>3, <1>5
  <2> QED
    BY <1>1, <1>4, <1>5, <2>1, HeldSet, Zenon
<1>9. Guards'
  <2>1. Admitted' = Admitted
    BY <1>3, Zenon DEF Admitted
  <2>2. \A e \in Charges : kind'[e] = "none" => held'[e] = 0
    BY <1>4, <1>5, <1>6 DEF Guards
  <2>3. \A e \in Charges : kind'[e] # "none" => stage'[JobOf[e]] = "live"
    BY <1>1, <1>3, <1>4, <1>6 DEF Guards
  <2> QED
    BY <1>1, <1>3, <1>4, <2>1, <2>2, <2>3, Zenon DEF Guards
<1> QED
  BY <1>3, <1>7, <1>8, <1>9, Zenon DEF Inv

LEMMA GrowChargeInv ==
    ASSUME Inv, NEW c \in Charges, NEW n \in Amounts, GrowCharge(c, n)
    PROVE  Inv'
<1>1. /\ kind[c] = "owned" /\ Allocate(JobOf[c], n)
      /\ held' = [held EXCEPT ![c] = @ + n] /\ base' = base /\ kind' = kind
  BY Zenon DEF GrowCharge
<1>2. JobOf[c] \in Jobs
  BY RuntimeAssumption
<1>3. /\ n \in Nat /\ bytes \in Nat /\ bytes' = bytes + n /\ bytes' <= MaxBytes
      /\ work' \in [Jobs -> 0..MaxWork]
      /\ slots' = slots /\ closed' = closed /\ stage' = stage /\ owner' = owner
      /\ drain' = drain /\ listening' = listening
      /\ SlotCount' /\ Closing'
  BY <1>1, <1>2, AllocateFacts, Zenon
<1>4. Types /\ Guards /\ ByteCount
  BY Zenon DEF Inv
<1>5. /\ held' \in [Charges -> Nat] /\ held[c] \in Nat /\ held'[c] = held[c] + n
      /\ \A y \in Charges \ {c} : held'[y] = held[y]
  BY <1>1, <1>3, <1>4 DEF Types
<1>6. Types'
  BY <1>1, <1>3, <1>4, <1>5, Zenon DEF Types
<1>7. ByteCount'
  <2>1. bytes' = bytes - held[c] + held'[c] /\ bytes' <= MaxBytes
    BY <1>3, <1>5
  <2> QED
    BY <1>1, <1>4, <1>5, <2>1, HeldSet, Zenon
<1>8. Guards'
  <2>1. Admitted' = Admitted
    BY <1>3, Zenon DEF Admitted
  <2>2. \A e \in Charges : kind'[e] = "none" => held'[e] = 0
    BY <1>1, <1>4, <1>5 DEF Guards
  <2> QED
    BY <1>1, <1>3, <1>4, <2>1, <2>2, Zenon DEF Guards
<1> QED
  BY <1>3, <1>6, <1>7, <1>8, Zenon DEF Inv

LEMMA MergeInv ==
    ASSUME Inv, NEW c \in Charges, NEW d \in Charges, Merge(c, d)
    PROVE  Inv'
<1>1. /\ c # d /\ kind[c] = "borrowed"
      /\ kind' = [kind EXCEPT ![d] = "none"]
      /\ held' = [held EXCEPT ![c] = held[c] + held[d], ![d] = 0]
      /\ work' = work /\ slots' = slots /\ bytes' = bytes /\ closed' = closed /\ stage' = stage
      /\ owner' = owner /\ base' = base /\ drain' = drain /\ listening' = listening
  BY Zenon DEF Merge, admission
<1>2. Types /\ Guards /\ SlotCount /\ ByteCount /\ Closing
  BY Zenon DEF Inv
<1>3. ByteCount' /\ held' \in [Charges -> Nat]
  BY <1>1, <1>2, HeldMoved, Zenon
<1>4. kind' \in [Charges -> Kinds] /\ kind'[d] = "none" /\ \A y \in Charges \ {d} : kind'[y] = kind[y]
  BY <1>1, <1>2 DEF Types, Kinds
<1>5. Types'
  BY <1>1, <1>2, <1>3, <1>4, Zenon DEF Types
<1>6. Admitted' = Admitted
  BY <1>1, Zenon DEF Admitted
<1>7. Guards'
  <2>1. held'[d] = 0 /\ \A e \in Charges \ {c, d} : held'[e] = held[e]
    BY <1>1, <1>2 DEF Types
  <2>2. \A e \in Charges : kind'[e] = "none" => held'[e] = 0
    BY <1>1, <1>2, <1>4, <2>1, Zenon DEF Guards
  <2>3. \A e \in Charges : kind'[e] # "none" => stage'[JobOf[e]] = "live"
    BY <1>1, <1>2, <1>4 DEF Guards
  <2> QED
    BY <1>1, <1>2, <1>6, <2>2, <2>3, Zenon DEF Guards
<1>8. SlotCount' /\ Closing'
  BY <1>1, <1>2, <1>6, SameClosing, Zenon DEF SlotCount
<1> QED
  BY <1>3, <1>5, <1>7, <1>8, Zenon DEF Inv

LEMMA IntoOwnedInv ==
    ASSUME Inv, NEW c \in Charges, IntoOwned(c)
    PROVE  Inv'
<1>1. /\ kind[c] = "borrowed" /\ kind' = [kind EXCEPT ![c] = "owned"]
      /\ work' = work /\ slots' = slots /\ bytes' = bytes /\ closed' = closed /\ stage' = stage
      /\ owner' = owner /\ base' = base /\ held' = held /\ drain' = drain /\ listening' = listening
  BY Zenon DEF IntoOwned, admission
<1>2. Types /\ Guards /\ SlotCount /\ ByteCount /\ Closing
  BY Zenon DEF Inv
<1>3. kind' \in [Charges -> Kinds] /\ kind'[c] = "owned" /\ \A y \in Charges \ {c} : kind'[y] = kind[y]
  BY <1>1, <1>2 DEF Types, Kinds
<1>4. Types'
  BY <1>1, <1>2, <1>3, Zenon DEF Types
<1>5. Admitted' = Admitted
  BY <1>1, Zenon DEF Admitted
<1>6. Guards'
  <2>1. \A e \in Charges : kind'[e] = "none" => held'[e] = 0
    BY <1>1, <1>2, <1>3 DEF Guards
  <2>2. \A e \in Charges : kind'[e] # "none" => stage'[JobOf[e]] = "live"
    BY <1>1, <1>2, <1>3 DEF Guards
  <2> QED
    BY <1>1, <1>2, <1>5, <2>1, <2>2, Zenon DEF Guards
<1>7. SlotCount' /\ ByteCount' /\ Closing'
  BY <1>1, <1>2, <1>5, SameClosing, Zenon DEF SlotCount, ByteCount
<1> QED
  BY <1>4, <1>6, <1>7, Zenon DEF Inv

\* The last owner of a live job goes: the job still has its slot.
LEMMA LastGone ==
    ASSUME Types, SlotCount, NEW j \in Jobs, stage[j] = "live", slots' = slots,
           stage' = [stage EXCEPT ![j] = "last"]
    PROVE  SlotCount' /\ Admitted' = Admitted /\ stage' \in [Jobs -> Stages]
           /\ \A i \in Jobs \ {j} : stage'[i] = stage[i]
<1>1. stage' \in [Jobs -> Stages] /\ stage'[j] = "last" /\ \A i \in Jobs \ {j} : stage'[i] = stage[i]
  BY DEF Types, Stages
<1>2. Admitted' = Admitted
  BY <1>1 DEF Admitted
<1> QED
  BY <1>1, <1>2, Zenon DEF SlotCount

LEMMA DropOwnerInv ==
    ASSUME Inv, NEW j \in Jobs, DropOwner(j)
    PROVE  Inv'
<1>1. /\ owner[j] /\ Has(j, "borrowed") = {}
      /\ owner' = [owner EXCEPT ![j] = FALSE]
      /\ work' = work /\ slots' = slots /\ bytes' = bytes /\ closed' = closed
      /\ base' = base /\ kind' = kind /\ held' = held /\ drain' = drain /\ listening' = listening
  BY Zenon DEF DropOwner, admission
<1>2. \/ Has(j, "owned") = {} /\ stage' = [stage EXCEPT ![j] = "last"]
      \/ Has(j, "owned") # {} /\ stage' = stage
  BY Zenon DEF DropOwner
<1>3. Types /\ Guards /\ SlotCount /\ ByteCount /\ Closing
  BY Zenon DEF Inv
<1>4. owner' \in [Jobs -> BOOLEAN] /\ ~owner'[j] /\ \A i \in Jobs \ {j} : owner'[i] = owner[i]
  BY <1>1, <1>3 DEF Types
<1>5. ByteCount' /\ Closing'
  BY <1>1, <1>3, SameClosing, Zenon DEF ByteCount
<1>6. stage[j] = "live"
  BY <1>1, <1>3, Zenon DEF Guards
<1>7. CASE Has(j, "owned") = {} /\ stage' = [stage EXCEPT ![j] = "last"]
  <2>1. /\ SlotCount' /\ Admitted' = Admitted /\ stage' \in [Jobs -> Stages]
        /\ \A i \in Jobs \ {j} : stage'[i] = stage[i]
    BY <1>1, <1>3, <1>6, <1>7, LastGone, Zenon
  <2>2. Types'
    BY <1>1, <1>3, <1>4, <2>1, Zenon DEF Types
  <2>3. \A i \in Jobs : owner'[i] => stage'[i] = "live"
    BY <1>3, <1>4, <2>1, Zenon DEF Guards
  <2>4. ASSUME NEW c \in Charges, kind'[c] # "none" PROVE stage'[JobOf[c]] = "live"
    <3>1. JobOf[c] \in Jobs
      BY RuntimeAssumption
    <3>2. kind[c] \in Kinds /\ kind[c] # "none"
      BY <1>1, <1>3, <2>4 DEF Types
    <3>3. JobOf[c] # j
      BY <1>1, <1>7, <3>2, Zenon DEF Has, Kinds
    <3> QED
      BY <1>3, <2>1, <3>1, <3>2, <3>3, Zenon DEF Guards
  <2>5. Guards'
    BY <1>1, <1>3, <2>1, <2>3, <2>4, Zenon DEF Guards
  <2> QED
    BY <1>5, <2>1, <2>2, <2>5, Zenon DEF Inv
<1>8. CASE stage' = stage
  <2>1. Admitted' = Admitted
    BY <1>8, Zenon DEF Admitted
  <2>2. Types'
    BY <1>1, <1>3, <1>4, <1>8, Zenon DEF Types
  <2>3. \A i \in Jobs : owner'[i] => stage'[i] = "live"
    BY <1>3, <1>4, <1>8, Zenon DEF Guards
  <2>4. Guards' /\ SlotCount'
    BY <1>1, <1>3, <1>8, <2>1, <2>3, Zenon DEF Guards, SlotCount
  <2> QED
    BY <1>5, <2>2, <2>4, Zenon DEF Inv
<1> QED
  BY <1>2, <1>7, <1>8, Zenon

LEMMA DropChargeInv ==
    ASSUME Inv, NEW c \in Charges, DropCharge(c)
    PROVE  Inv'
<1> DEFINE j == JobOf[c]
<1>1. /\ bytes' = bytes - held[c]
      /\ kind' = [kind EXCEPT ![c] = "none"]
      /\ held' = [held EXCEPT ![c] = 0]
      /\ work' = work /\ slots' = slots /\ closed' = closed
      /\ owner' = owner /\ base' = base /\ drain' = drain /\ listening' = listening
      /\ kind[c] # "none"
  BY DEF DropCharge
<1>2. \/ kind[c] = "owned" /\ ~Shared(j, c) /\ Has(j, "borrowed") = {} /\ stage' = [stage EXCEPT ![j] = "last"]
      \/ stage' = stage
  BY Zenon DEF DropCharge
<1>3. Types /\ Guards /\ SlotCount /\ ByteCount /\ Closing
  BY Zenon DEF Inv
<1>4. j \in Jobs
  BY RuntimeAssumption
<1>5. stage[j] = "live"
  BY <1>1, <1>3, Zenon DEF Guards
<1> HIDE DEF j
<1>6. kind' \in [Charges -> Kinds] /\ kind'[c] = "none" /\ \A y \in Charges \ {c} : kind'[y] = kind[y]
  BY <1>1, <1>3 DEF Types, Kinds
<1>7. /\ held' \in [Charges -> Nat] /\ held[c] \in Nat /\ held'[c] = 0
      /\ \A y \in Charges \ {c} : held'[y] = held[y]
  BY <1>1, <1>3 DEF Types
<1>8. ByteCount'
  <2>1. bytes' = bytes - held[c] + held'[c] /\ bytes' <= MaxBytes
    BY <1>1, <1>3, <1>7, RuntimeAssumption DEF ByteCount
  <2> QED
    BY <1>1, <1>3, <1>7, <2>1, HeldSet, Zenon
<1>9. Closing'
  BY <1>1, <1>3, SameClosing, Zenon
<1>10. \A e \in Charges : kind'[e] = "none" => held'[e] = 0
  BY <1>3, <1>6, <1>7, Zenon DEF Guards
<1>11. CASE stage' = stage
  <2>1. Admitted' = Admitted
    BY <1>11, Zenon DEF Admitted
  <2>2. Types' /\ SlotCount'
    BY <1>1, <1>3, <1>6, <1>7, <1>11, <2>1, Zenon DEF Types, SlotCount
  <2>3. \A e \in Charges : kind'[e] # "none" => stage'[JobOf[e]] = "live"
    BY <1>3, <1>6, <1>11, Zenon DEF Guards
  <2>4. Guards'
    BY <1>1, <1>3, <1>10, <1>11, <2>1, <2>3, Zenon DEF Guards
  <2> QED
    BY <1>8, <1>9, <2>2, <2>4, Zenon DEF Inv
<1>12. CASE /\ kind[c] = "owned" /\ ~Shared(j, c) /\ Has(j, "borrowed") = {}
            /\ stage' = [stage EXCEPT ![j] = "last"]
  <2>1. /\ SlotCount' /\ Admitted' = Admitted /\ stage' \in [Jobs -> Stages]
        /\ \A i \in Jobs \ {j} : stage'[i] = stage[i]
    BY <1>1, <1>3, <1>4, <1>5, <1>12, LastGone, Zenon
  <2>2. Types'
    BY <1>1, <1>3, <1>6, <1>7, <2>1, Zenon DEF Types
  <2>3. ~owner[j] /\ \A e \in Charges \ {c} : ~(JobOf[e] = j /\ kind[e] = "owned")
    BY <1>12, Zenon DEF Shared, Has
  <2>4. ASSUME NEW e \in Charges, kind'[e] # "none" PROVE stage'[JobOf[e]] = "live"
    <3>1. JobOf[e] \in Jobs
      BY RuntimeAssumption
    <3>2. e # c /\ kind[e] \in Kinds /\ kind[e] # "none"
      BY <1>3, <1>6, <2>4 DEF Types
    <3>3. JobOf[e] # j
      BY <1>12, <2>3, <3>2, Zenon DEF Has, Kinds
    <3> QED
      BY <1>3, <2>1, <3>1, <3>2, <3>3, Zenon DEF Guards
  <2>5. \A i \in Jobs : owner'[i] => stage'[i] = "live"
    BY <1>1, <1>3, <2>1, <2>3, Zenon DEF Guards
  <2>6. Guards'
    BY <1>1, <1>3, <1>10, <2>1, <2>4, <2>5, Zenon DEF Guards
  <2> QED
    BY <1>8, <1>9, <2>1, <2>2, <2>6, Zenon DEF Inv
<1> QED
  BY <1>2, <1>11, <1>12, Zenon

\* No slot is taken when the counter is zero.
LEMMA NoSlots ==
    ASSUME SlotCount, slots = 0
    PROVE  Admitted = {}
<1>1. IsFiniteSet(Admitted) /\ Cardinality(Admitted) = 0
  BY Zenon DEF SlotCount
<1> QED
  BY <1>1, FS_EmptySet, Zenon

LEMMA FinishInv ==
    ASSUME Inv, NEW j \in Jobs, Finish(j)
    PROVE  Inv'
<1>1. /\ stage[j] = "last" /\ slots' = slots - 1 /\ bytes' = bytes - base[j]
      /\ base' = [base EXCEPT ![j] = 0]
      /\ stage' = [stage EXCEPT ![j] = "released"]
      /\ work' = work /\ closed' = closed /\ owner' = owner /\ kind' = kind /\ held' = held
      /\ drain' = drain /\ listening' = listening
  BY Zenon DEF Finish
<1>2. Types /\ Guards /\ SlotCount /\ ByteCount /\ Closing
  BY Zenon DEF Inv
<1>3. /\ base' \in [Jobs -> Nat] /\ base[j] \in Nat /\ base'[j] = 0
      /\ \A i \in Jobs \ {j} : base'[i] = base[i]
  BY <1>1, <1>2 DEF Types
<1>4. stage' \in [Jobs -> Stages] /\ stage'[j] = "released" /\ \A i \in Jobs \ {j} : stage'[i] = stage[i]
  BY <1>1, <1>2 DEF Types, Stages
<1>5. j \in Admitted /\ Admitted' = Admitted \ {j}
  BY <1>1, <1>4 DEF Admitted
<1>6. Types'
  BY <1>1, <1>2, <1>3, <1>4, Zenon DEF Types
<1>7. SlotCount'
  BY <1>1, <1>2, <1>5, SlotGiven, Zenon
<1>8. ByteCount'
  <2>1. bytes' = bytes - base[j] + base'[j] /\ bytes' <= MaxBytes
    BY <1>1, <1>2, <1>3, RuntimeAssumption DEF ByteCount
  <2> QED
    BY <1>1, <1>2, <1>3, <2>1, BaseSet, Zenon
<1>9. Guards'
  <2>1. \A i \in Jobs : i \notin Admitted' => base'[i] = 0
    BY <1>2, <1>3, <1>5, Zenon DEF Guards
  <2>2. ASSUME NEW i \in Jobs, stage[i] = "live" PROVE stage'[i] = "live"
    BY <1>1, <1>4, <2>2
  <2>3. ASSUME NEW c \in Charges, kind'[c] # "none" PROVE stage'[JobOf[c]] = "live"
    <3>1. JobOf[c] \in Jobs
      BY RuntimeAssumption
    <3> QED
      BY <1>1, <1>2, <2>2, <2>3, <3>1, Zenon DEF Guards
  <2> QED
    BY <1>1, <1>2, <2>1, <2>2, <2>3, Zenon DEF Guards
<1>10. Closing'
  <2>1. slots # 0
    BY <1>2, <1>5, NoSlots, Zenon
  <2> QED
    BY <1>1, <1>2, <2>1, Zenon DEF Closing
<1> QED
  BY <1>6, <1>7, <1>8, <1>9, <1>10, Zenon DEF Inv

LEMMA SignalInv ==
    ASSUME Inv, NEW j \in Jobs, Signal(j)
    PROVE  Inv'
<1>1. /\ stage[j] = "released" /\ stage' = [stage EXCEPT ![j] = "absent"] /\ listening' = {}
      /\ work' = work /\ slots' = slots /\ bytes' = bytes /\ closed' = closed
      /\ owner' = owner /\ base' = base /\ kind' = kind /\ held' = held /\ drain' = drain
  BY Zenon DEF Signal, admission
<1>2. Types /\ Guards /\ SlotCount /\ ByteCount /\ Closing
  BY Zenon DEF Inv
<1>3. stage' \in [Jobs -> Stages] /\ stage'[j] = "absent" /\ \A i \in Jobs \ {j} : stage'[i] = stage[i]
  BY <1>1, <1>2 DEF Types, Stages
<1>4. Admitted' = Admitted
  BY <1>1, <1>3 DEF Admitted
<1>5. Types'
  BY <1>1, <1>2, <1>3, Zenon DEF Types
<1>6. Guards'
  <2>1. ASSUME NEW i \in Jobs, stage[i] = "live" PROVE stage'[i] = "live"
    BY <1>1, <1>3, <2>1
  <2>2. ASSUME NEW c \in Charges, kind'[c] # "none" PROVE stage'[JobOf[c]] = "live"
    <3>1. JobOf[c] \in Jobs
      BY RuntimeAssumption
    <3> QED
      BY <1>1, <1>2, <2>1, <2>2, <3>1, Zenon DEF Guards
  <2> QED
    BY <1>1, <1>2, <1>4, <2>1, <2>2, Zenon DEF Guards
<1>7. SlotCount' /\ ByteCount' /\ Closing'
  BY <1>1, <1>2, <1>4, SameClosing, Zenon DEF SlotCount, ByteCount
<1> QED
  BY <1>5, <1>6, <1>7, Zenon DEF Inv

-----------------------------------------------------------------------------
(***************************************************************************)
(* The steps of the drainers.                                                *)
(***************************************************************************)

\* A drainer that moves once the admission is closed, and returns only on no usage.
LEMMA DrainerMoves ==
    ASSUME Inv, NEW d \in Drainers, NEW place \in Places,
           drain' = [drain EXCEPT ![d] = place],
           place # "idle" => closed', place = "drained" => slots = 0,
           closed' \in BOOLEAN, closed => closed', listening' \subseteq Drainers,
           slots' = slots, bytes' = bytes, stage' = stage, owner' = owner, base' = base,
           kind' = kind, held' = held, work' = work
    PROVE  Inv'
<1>1. Types /\ Guards /\ SlotCount /\ ByteCount /\ Closing
  BY Zenon DEF Inv
<1>2. drain' \in [Drainers -> Places] /\ drain'[d] = place /\ \A e \in Drainers \ {d} : drain'[e] = drain[e]
  BY <1>1 DEF Types
<1>3. Types'
  BY <1>1, <1>2, Zenon DEF Types
<1>4. Admitted' = Admitted
  BY Zenon DEF Admitted
<1>5. Guards' /\ SlotCount' /\ ByteCount'
  BY <1>1, <1>4, Zenon DEF Guards, SlotCount, ByteCount
<1>6. \A e \in Drainers : drain'[e] # "idle" => closed'
  BY <1>1, <1>2, Zenon DEF Closing
<1>7. \A e \in Drainers : drain'[e] = "drained" => slots' = 0
  BY <1>1, <1>2, Zenon DEF Closing
<1> QED
  BY <1>3, <1>5, <1>6, <1>7, Zenon DEF Inv, Closing

LEMMA DrainerInv ==
    ASSUME Inv, NEW d \in Drainers, Close(d) \/ Arm(d) \/ Check(d) \/ Resume(d) \/ Cancel(d)
    PROVE  Inv'
<1>1. closed \in BOOLEAN /\ listening \subseteq Drainers /\ (drain[d] # "idle" => closed)
  BY Zenon DEF Inv, Types, Closing
<1>2. CASE Close(d)
  <2>1. /\ closed' = TRUE /\ drain' = [drain EXCEPT ![d] = "loop"] /\ listening' = listening
        /\ slots' = slots /\ bytes' = bytes /\ stage' = stage /\ owner' = owner /\ base' = base
        /\ kind' = kind /\ held' = held /\ work' = work
    BY <1>2, Zenon DEF Close, job
  <2>2. "loop" \in Places
    BY DEF Places
  <2> QED
    BY <1>1, <2>1, <2>2, DrainerMoves, Zenon
<1>3. CASE Arm(d)
  <2>1. /\ closed' = closed /\ drain[d] = "loop" /\ drain' = [drain EXCEPT ![d] = "armed"]
        /\ listening' = listening \cup {d}
        /\ slots' = slots /\ bytes' = bytes /\ stage' = stage /\ owner' = owner /\ base' = base
        /\ kind' = kind /\ held' = held /\ work' = work
    BY <1>3, Zenon DEF Arm, job, admission
  <2>2. "armed" \in Places
    BY DEF Places
  <2>3. closed' /\ listening' \subseteq Drainers
    BY <1>1, <2>1
  <2> QED
    BY <1>1, <2>1, <2>2, <2>3, DrainerMoves, Zenon
<1>4. CASE Check(d)
  <2>1. /\ closed' = closed /\ drain[d] = "armed" /\ listening' \in {listening, listening \ {d}}
        /\ slots' = slots /\ bytes' = bytes /\ stage' = stage /\ owner' = owner /\ base' = base
        /\ kind' = kind /\ held' = held /\ work' = work
    BY <1>4, Zenon DEF Check, job, admission
  <2>2. PICK place \in Places :
            drain' = [drain EXCEPT ![d] = place] /\ (place = "drained" => slots = 0)
    <3>1. CASE slots = 0
      BY <1>4, <3>1 DEF Check, Places, NoUsage
    <3>2. CASE slots # 0
      BY <1>4, <3>2 DEF Check, Places, NoUsage
    <3> QED
      BY <3>1, <3>2, Zenon
  <2>3. closed' /\ listening' \subseteq Drainers
    BY <1>1, <2>1
  <2> QED
    BY <1>1, <2>1, <2>2, <2>3, DrainerMoves, Zenon
<1>5. CASE Resume(d)
  <2>1. /\ closed' = closed /\ drain[d] = "await" /\ drain' = [drain EXCEPT ![d] = "loop"]
        /\ listening' = listening
        /\ slots' = slots /\ bytes' = bytes /\ stage' = stage /\ owner' = owner /\ base' = base
        /\ kind' = kind /\ held' = held /\ work' = work
    BY <1>5, Zenon DEF Resume, job, admission
  <2>2. "loop" \in Places
    BY DEF Places
  <2>3. closed' /\ listening' \subseteq Drainers
    BY <1>1, <2>1
  <2> QED
    BY <1>1, <2>1, <2>2, <2>3, DrainerMoves, Zenon
<1>6. CASE Cancel(d)
  <2>1. /\ closed' = closed /\ drain[d] = "await" /\ drain' = [drain EXCEPT ![d] = "idle"]
        /\ listening' = listening \ {d}
        /\ slots' = slots /\ bytes' = bytes /\ stage' = stage /\ owner' = owner /\ base' = base
        /\ kind' = kind /\ held' = held /\ work' = work
    BY <1>6, Zenon DEF Cancel, job, admission
  <2>2. "idle" \in Places
    BY DEF Places
  <2>3. listening' \subseteq Drainers
    BY <1>1, <2>1
  <2> QED
    BY <1>1, <2>1, <2>2, <2>3, DrainerMoves, Zenon
<1> QED
  BY <1>2, <1>3, <1>4, <1>5, <1>6, Zenon

-----------------------------------------------------------------------------
(***************************************************************************)
(* The theorems.                                                             *)
(***************************************************************************)

LEMMA InitInv == Init => Inv
<1> SUFFICES ASSUME Init PROVE Inv
  OBVIOUS
<1>1. Types
  <2>1. stage \in [Jobs -> Stages] /\ owner \in [Jobs -> BOOLEAN] /\ base \in [Jobs -> Nat]
    BY DEF Init, Stages
  <2>2. kind \in [Charges -> Kinds] /\ held \in [Charges -> Nat]
    BY DEF Init, Kinds
  <2>3. drain \in [Drainers -> Places] /\ listening \subseteq Drainers /\ closed \in BOOLEAN
    BY Zenon DEF Init, Places
  <2>4. work \in [Jobs -> 0..MaxWork]
    BY RuntimeAssumption DEF Init
  <2> QED
    BY <2>1, <2>2, <2>3, <2>4, Zenon DEF Types
<1>2. Admitted = {}
  BY DEF Init, Admitted
<1>3. SlotCount
  <2>1. 0 \in 0..MaxSlots
    BY RuntimeAssumption
  <2> QED
    BY <1>2, <2>1, FS_EmptySet, Zenon DEF Init, SlotCount
<1>4. ByteCount
  <2>1. 0 \in 0..MaxBytes /\ 0 = 0 + 0
    BY RuntimeAssumption
  <2>2. (\A j \in Jobs : base[j] = 0) /\ (\A c \in Charges : held[c] = 0)
    BY DEF Init
  <2>3. base \in [Jobs -> Nat] /\ held \in [Charges -> Nat]
    BY <1>1, Zenon DEF Types
  <2>4. IsFiniteSet(Units(base)) /\ Cardinality(Units(base)) = 0
    BY <2>2, <2>3, UnitsNone, Zenon
  <2>5. IsFiniteSet(Units(held)) /\ Cardinality(Units(held)) = 0
    BY <2>2, <2>3, UnitsNone, Zenon
  <2> QED
    BY <2>1, <2>4, <2>5, Zenon DEF Init, ByteCount
<1>5. Guards
  BY <1>2 DEF Init, Guards
<1>6. Closing
  BY DEF Init, Closing
<1> QED
  BY <1>1, <1>3, <1>4, <1>5, <1>6, Zenon DEF Inv

LEMMA NextInv ==
    ASSUME Inv, [Next]_vars
    PROVE  Inv'
<1>1. CASE UNCHANGED vars
  <2>1. /\ slots' = slots /\ bytes' = bytes /\ closed' = closed /\ stage' = stage /\ owner' = owner
        /\ base' = base /\ kind' = kind /\ held' = held /\ work' = work /\ drain' = drain
        /\ listening' = listening
    BY <1>1, Zenon DEF vars
  <2>2. Admitted' = Admitted
    BY <2>1, Zenon DEF Admitted
  <2> QED
    BY <2>1, <2>2, Zenon DEF Inv, Types, Guards, SlotCount, ByteCount, Closing
<1>2. CASE \E j \in Jobs : \/ \E n \in Amounts : Reserve(j, n) \/ Grow(j, n)
                           \/ DropSome(j) \/ Finish(j) \/ Signal(j)
  <2>1. PICK j \in Jobs : \/ \E n \in Amounts : Reserve(j, n) \/ Grow(j, n)
                          \/ DropSome(j) \/ Finish(j) \/ Signal(j)
    BY <1>2, Zenon
  <2>2. CASE DropSome(j)
    BY <2>2, DropOwnerInv, DropChargeInv, Zenon DEF DropSome
  <2> QED
    BY <2>1, <2>2, ReserveInv, GrowInv, FinishInv, SignalInv, Zenon
<1>3. CASE \E c \in Charges : \/ \E n \in Amounts : Buffer(c, n) \/ GrowCharge(c, n)
                              \/ \E d \in Charges : Merge(c, d)
                              \/ IntoOwned(c)
  BY <1>3, BufferInv, GrowChargeInv, MergeInv, IntoOwnedInv, Zenon
<1>4. CASE \E d \in Drainers : Close(d) \/ Arm(d) \/ Check(d) \/ Resume(d) \/ Cancel(d)
  BY <1>4, DrainerInv, Zenon
<1> QED
  BY <1>1, <1>2, <1>3, <1>4, Zenon DEF Next

\* The inductive invariant holds of every reachable state of the admission.
THEOREM AlwaysInv == Spec => []Inv
BY InitInv, NextInv, PTL DEF Spec

\* The two counters of QueueAdmission are at every moment exactly what the living
\* reservations and charges hold, and within max_slots and max_bytes: the
\* subtractions of the Drop implementations never underflow and nothing leaks.
THEOREM AdmissionIsExact == Spec => []CountersExact
<1>1. Inv => CountersExact
  <2> SUFFICES ASSUME Inv PROVE CountersExact
    OBVIOUS
  <2>1. Types /\ SlotCount /\ ByteCount
    BY Zenon DEF Inv
  <2> DEFINE p == Cardinality(Units(base))
             q == Cardinality(Units(held))
  <2>2. base \in [Jobs -> Nat] /\ held \in [Charges -> Nat] /\ IsFiniteSet(Units(base)) /\ IsFiniteSet(Units(held))
    BY <2>1, Zenon DEF Types, ByteCount
  <2>3. (\A j \in Jobs : base[j] <= p) /\ (\A c \in Charges : held[c] <= q)
    BY <2>2, UnitsBound, Zenon
  <2>4. p \in Nat /\ q \in Nat
    BY <2>2, FS_CardinalityType, Zenon
  <2>5. bytes = p + q /\ bytes \in 0..MaxBytes
    BY <2>1, Zenon DEF ByteCount
  <2> HIDE DEF p, q
  <2>6. p <= MaxBytes /\ q <= MaxBytes /\ MaxBytes \in Nat
    BY <2>4, <2>5, RuntimeAssumption
  <2>7. base \in [Jobs -> 0..MaxBytes]
    <3>1. \A j \in Jobs : base[j] \in 0..MaxBytes
      BY <2>2, <2>3, <2>4, <2>6
    <3> QED
      BY <2>2, <3>1
  <2>8. held \in [Charges -> 0..MaxBytes]
    <3>1. \A c \in Charges : held[c] \in 0..MaxBytes
      BY <2>2, <2>3, <2>4, <2>6
    <3> QED
      BY <2>2, <3>1
  <2>9. TypeOK
    BY <2>1, <2>7, <2>8, Zenon DEF TypeOK, Types, SlotCount, ByteCount, Stages, Places
  <2> QED
    BY <2>1, <2>9, Zenon DEF CountersExact, SlotCount, ByteCount
<1> QED
  BY <1>1, AlwaysInv, PTL

\* Bytes are retained only under a slot: a charge never outlives its job.
THEOREM ChargesStayUnderSlots == Spec => []ChargesUnderSlots
<1>1. Inv => ChargesUnderSlots
  <2> SUFFICES ASSUME Inv PROVE ChargesUnderSlots
    OBVIOUS
  <2>1. Types /\ Guards
    BY Zenon DEF Inv
  <2>2. \A j \in Jobs : base[j] > 0 => j \in Admitted
    BY <2>1 DEF Guards
  <2>3. ASSUME NEW c \in Charges, held[c] > 0 PROVE JobOf[c] \in Admitted
    <3>1. kind[c] # "none" /\ JobOf[c] \in Jobs
      BY <2>1, <2>3, RuntimeAssumption DEF Guards
    <3> QED
      BY <2>1, <3>1, Zenon DEF Guards, Admitted
  <2> QED
    BY <2>2, <2>3, Zenon DEF ChargesUnderSlots
<1> QED
  BY <1>1, AlwaysInv, PTL

\* Once close_and_drain has returned to anyone, no operation is admitted and no
\* byte is held, then and for ever: the admission is closed, and bytes are held
\* only under slots.
THEOREM RuntimeDrainIsFinal == Spec => []DrainedForGood
<1>1. Inv => DrainedForGood
  <2> SUFFICES ASSUME Inv, NEW d \in Drainers, drain[d] = "drained"
               PROVE  closed /\ slots = 0 /\ bytes = 0
    BY Zenon DEF DrainedForGood
  <2>1. Types /\ Guards /\ SlotCount /\ ByteCount /\ Closing
    BY Zenon DEF Inv
  <2>2. closed /\ slots = 0
    BY <2>1 DEF Closing
  <2>3. Admitted = {}
    BY <2>1, <2>2, NoSlots, Zenon
  <2>4. \A j \in Jobs : base[j] = 0
    BY <2>1, <2>3, Zenon DEF Guards
  <2>5. ASSUME NEW c \in Charges PROVE held[c] = 0
    <3>1. JobOf[c] \in Jobs
      BY RuntimeAssumption
    <3> QED
      BY <2>1, <2>3, <3>1, Zenon DEF Guards, Admitted
  <2>6. base \in [Jobs -> Nat] /\ held \in [Charges -> Nat]
    BY <2>1, Zenon DEF Types
  <2>7. Cardinality(Units(base)) = 0 /\ Cardinality(Units(held)) = 0
    BY <2>4, <2>5, <2>6, UnitsNone, Zenon
  <2>8. bytes = 0 + 0
    BY <2>1, <2>7, Zenon DEF ByteCount
  <2> QED
    BY <2>2, <2>8
<1> QED
  BY <1>1, AlwaysInv, PTL

=============================================================================
