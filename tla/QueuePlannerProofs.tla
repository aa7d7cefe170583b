------------------------- MODULE QueuePlannerProofs -------------------------
(***************************************************************************)
(* What the operators of QueuePlanner preserve, for every row and request.  *)
(***************************************************************************)
EXTENDS QueuePlanner, FiniteSetTheorems, WellFoundedInduction, TLAPS

\* The length and the elements of a sequence.
LEMMA SeqElements ==
    ASSUME NEW S, NEW s \in Seq(S)
    PROVE  Len(s) \in Nat /\ \A i \in 1..Len(s) : s[i] \in S
  OBVIOUS

\* A claim yields a row of the right type (plan_claim_metadata).
LEMMA PlanClaimType ==
    ASSUME NEW row \in Row, NEW token \in Nat, NEW expires \in Time, Claimable(row)
    PROVE  PlanClaim(row, token, expires) \in Row
<1> DEFINE r1 == [row EXCEPT !.version = @ + 1, !.attempts = @ + 1]
           r2 == [r1 EXCEPT !.lifecycle = "Leased"]
           r3 == [r2 EXCEPT !.expires = expires, !.token = token]
<1>1. row.version + 1 \in U64 /\ row.attempts + 1 \in U32
  BY PlannerAssumption DEF Row, U64, U32, Claimable
<1>2. r1 \in Row
  BY <1>1, Zenon DEF Row
<1>3. r2 \in Row
  BY <1>2, Zenon DEF Row, Lifecycle
<1>4. r3 \in Row
  BY <1>3, Zenon DEF Row
<1>5. PlanClaim(row, token, expires) = r3
  BY DEF PlanClaim, Row
<1> QED BY <1>4, <1>5

\* The widths are ranges of natural numbers, or of integers, that contain zero.
LEMMA ConstantTypes ==
    /\ 0 \in U64 /\ 0 \in U32 /\ 0 \in I64 /\ 0 \in Time
    /\ U64 \subseteq Nat /\ U32 \subseteq Nat /\ Time \subseteq Nat /\ I64 \subseteq Int /\ Time \subseteq I64
BY PlannerAssumption DEF U64, U32, I64, Time

\* The row of a deleted record is a row.
LEMMA InactiveRowType ==
    ASSUME NEW version \in U64
    PROVE  InactiveRow(version) \in Row
BY ConstantTypes DEF InactiveRow, Row, Lifecycle

\* A patched row is a row.
LEMMA PatchWorkType ==
    ASSUME NEW row \in Row, NEW patch \in Patch
    PROVE  PatchWork(row, patch) \in Row
BY Zenon DEF PatchWork, Patched, Row, Patch

\* A row without its lease is a row.
LEMMA ClearLeaseType ==
    ASSUME NEW row \in Row
    PROVE  ClearLease(row) \in Row
BY ConstantTypes, Zenon DEF ClearLease, Row

\* New work is a row when its version and its place fit their widths.
LEMMA FreshWorkType ==
    ASSUME NEW version \in U64, NEW item \in Item, NEW sequence \in U64, NEW now \in Time
    PROVE  FreshWork(version, item, sequence, now) \in Row
<1> DEFINE r0 == InactiveRow(version)
           r1 == [r0 EXCEPT !.active = TRUE, !.sequence = sequence, !.priority = item.priority]
           r2 == [r1 EXCEPT !.available = item.available, !.since = Larger(now, item.available)]
           r3 == [r2 EXCEPT !.uniq = item.uniq]
<1>1. r0 \in Row
  BY InactiveRowType
<1>2. r1 \in Row
  BY <1>1, Zenon DEF Row, Item
<1>3. Larger(now, item.available) \in I64
  BY ConstantTypes DEF Larger, Item
<1>4. r2 \in Row
  BY <1>2, <1>3, Zenon DEF Row, Item
<1>5. r3 \in Row
  BY <1>4, Zenon DEF Row, Item
<1>6. FreshWork(version, item, sequence, now) = r3
  BY DEF FreshWork, InactiveRow
<1> QED BY <1>5, <1>6
-----------------------------------------------------------------------------
\* What a group may do to a row: the result is a well-formed row, every
\* change raises the version by one, and a row that is leased afterwards was
\* leased before, with the same token, and for longer only if its lease was
\* current.
RowStep(row, new, now) ==
    /\ new \in Row
    /\ ValidLease(new)
    /\ new # row => new.version = row.version + 1
    /\ new.lifecycle = "Leased" =>
         /\ row.lifecycle = "Leased"
         /\ new.token = row.token
         /\ new.active = row.active
         /\ new.expires = row.expires \/ ActiveLease(row, now)

\* A patch leaves the columns of the lease, the version and the place alone.
LEMMA PatchedFields ==
    ASSUME NEW row \in Row, NEW patch \in Patch
    PROVE  LET new == [PatchWork(row, patch) EXCEPT !.version = @ + 1] IN
           /\ row.version + 1 \in U64 => new \in Row
           /\ new.version = row.version + 1
           /\ new.lifecycle = row.lifecycle /\ new.expires = row.expires /\ new.token = row.token
           /\ new.active = row.active /\ new.sequence = row.sequence
<1> DEFINE mid == PatchWork(row, patch)
           new == [mid EXCEPT !.version = @ + 1]
<1>1. mid \in Row
  BY PatchWorkType
<1>2. /\ mid.version = row.version /\ mid.lifecycle = row.lifecycle /\ mid.expires = row.expires
      /\ mid.token = row.token /\ mid.active = row.active /\ mid.sequence = row.sequence
  BY DEF PatchWork, Row
<1>3. row.version + 1 \in U64 => new \in Row
  BY <1>1, <1>2 DEF Row
<1>4. /\ new.version = mid.version + 1 /\ new.lifecycle = mid.lifecycle /\ new.expires = mid.expires
      /\ new.token = mid.token /\ new.active = mid.active /\ new.sequence = mid.sequence
  BY <1>1 DEF Row
<1> QED BY <1>2, <1>3, <1>4

\* Dropping the lease of a row whose lifecycle is not Leased.
LEMMA ClearedStep ==
    ASSUME NEW row, NEW now, NEW mid \in Row, mid.lifecycle # "Leased", mid.version = row.version + 1
    PROVE  /\ RowStep(row, ClearLease(mid), now)
           /\ ClearLease(mid).active = mid.active /\ ClearLease(mid).sequence = mid.sequence
           /\ ClearLease(mid).version = mid.version
<1> DEFINE new == ClearLease(mid)
<1>1. new \in Row
  BY ClearLeaseType
<1>2. /\ new.expires = 0 /\ new.token = 0 /\ new.lifecycle = mid.lifecycle /\ new.version = mid.version
      /\ new.active = mid.active /\ new.sequence = mid.sequence
  BY DEF ClearLease, Row
<1> QED BY <1>1, <1>2 DEF RowStep, ValidLease

\* A deletion is a row step: the version goes on and the lease is gone.
LEMMA DeletedStep ==
    ASSUME NEW row \in Row, NEW now, row.version + 1 \in U64
    PROVE  RowStep(row, DeletedRow(row), now) /\ ~DeletedRow(row).active
<1>1. DeletedRow(row) \in Row
  BY InactiveRowType DEF DeletedRow
<1>2. /\ DeletedRow(row).version = row.version + 1 /\ DeletedRow(row).expires = 0
      /\ DeletedRow(row).token = 0 /\ DeletedRow(row).lifecycle = "Pending" /\ ~DeletedRow(row).active
  BY DEF DeletedRow, InactiveRow
<1> QED BY <1>1, <1>2 DEF RowStep, ValidLease

\* A claimed update is a row step.
LEMMA ClaimedStep ==
    ASSUME NEW u \in Update, u.change \in ClaimedChanges, u.change = "Renew" => u.time > 0,
           NEW row \in Row, ValidLease(row), NEW now \in Time,
           ClaimedVerdict(u, row, now) = "Ok"
    PROVE  LET new == ClaimedRow(u, row, now) IN
           /\ RowStep(row, new, now)
           /\ new.active => row.active /\ new.sequence = row.sequence
<1> DEFINE new == ClaimedRow(u, row, now)
           patched == [PatchWork(row, u.patch) EXCEPT !.version = @ + 1]
<1>1. row.active /\ ActiveLease(row, now) /\ row.token = u.token
  BY DEF ClaimedVerdict, Credential, Owns
<1>2. CASE u.change = "Check"
  <2>1. new = row
    BY <1>2 DEF ClaimedRow
  <2> QED BY <2>1, <1>1 DEF RowStep, ActiveLease
<1>3. CASE u.change # "Check"
  <2>1. row.version + 1 \in U64
    BY <1>1, <1>3, PlannerAssumption DEF ClaimedVerdict, VersionExhausted, Credential, Owns, Row, U64
  <2>2. u.patch \in Patch /\ u.time \in I64
    BY DEF Update
  <2>3. /\ patched \in Row /\ patched.version = row.version + 1
        /\ patched.lifecycle = row.lifecycle /\ patched.expires = row.expires
        /\ patched.token = row.token /\ patched.active = row.active /\ patched.sequence = row.sequence
    BY <2>1, <2>2, PatchedFields
  <2> HIDE DEF patched
  <2>4. CASE u.change = "Delete"
    <3>1. new = DeletedRow(row)
      BY <2>4 DEF ClaimedRow
    <3> QED BY <3>1, <2>1, DeletedStep
  <2>5. CASE u.change \in {"Complete", "Fail", "Release"}
    <3> DEFINE L == CASE u.change = "Complete" -> "Completed" [] u.change = "Fail" -> "Failed"
                      [] u.change = "Release" -> "Pending"
               mid == [patched EXCEPT !.lifecycle = L]
    <3>1. new = ClearLease(mid)
      BY <2>5, Zenon DEF ClaimedRow, patched
    <3>2. L \in Lifecycle /\ L # "Leased"
      BY <2>5 DEF Lifecycle, Terminal
    <3>3. mid \in Row /\ mid.lifecycle = L /\ mid.version = row.version + 1
          /\ mid.active = row.active /\ mid.sequence = row.sequence
      BY <2>3, <3>2, Zenon DEF Row
    <3> QED BY <3>1, <3>2, <3>3, <1>1, ClearedStep, Zenon
  <2>6. CASE u.change = "RetryAt"
    <3> DEFINE m1 == [patched EXCEPT !.lifecycle = "Failed"]
               m2 == [patched EXCEPT !.lifecycle = "Pending", !.available = u.time, !.since = u.time]
               mid == IF row.attempts >= MaxAttempts THEN m1 ELSE m2
    <3>1. new = ClearLease(mid)
      BY <2>6 DEF ClaimedRow, patched
    <3>2. /\ m1 \in Row /\ m1.lifecycle # "Leased" /\ m1.version = row.version + 1
          /\ m1.active = row.active /\ m1.sequence = row.sequence
      BY <2>3 DEF Row, Lifecycle, Terminal
    <3>3. /\ m2 \in Row /\ m2.lifecycle # "Leased" /\ m2.version = row.version + 1
          /\ m2.active = row.active /\ m2.sequence = row.sequence
      BY <2>2, <2>3, Zenon DEF Row, Lifecycle, Terminal
    <3>4. /\ mid \in Row /\ mid.lifecycle # "Leased" /\ mid.version = row.version + 1
          /\ mid.active = row.active /\ mid.sequence = row.sequence
      BY <3>2, <3>3
    <3> HIDE DEF mid
    <3> QED BY <3>1, <3>4, <1>1, ClearedStep
  <2>7. CASE u.change = "Renew"
    <3>1. new = [patched EXCEPT !.expires = now + u.time]
      BY <2>7 DEF ClaimedRow, patched
    <3>2. now + u.time \in Time /\ now + u.time # 0
      BY <1>1, <2>2, <2>7, PlannerAssumption
         DEF ClaimedVerdict, Credential, Owns, Time, I64
    <3>3. /\ new \in Row /\ new.expires = now + u.time /\ new.version = row.version + 1
          /\ new.lifecycle = row.lifecycle /\ new.token = row.token
          /\ new.active = row.active /\ new.sequence = row.sequence
      BY <3>1, <3>2, <2>3 DEF Row
    <3>4. RowStep(row, new, now)
      <4> HIDE DEF new
      <4> QED BY <3>2, <3>3, <1>1 DEF RowStep, ValidLease, ActiveLease
    <3> QED BY <3>3, <3>4, <1>1
  <2>8. CASE u.change = "Retain"
    <3>1. new = patched
      BY <2>8 DEF ClaimedRow, patched
    <3>2. RowStep(row, new, now) /\ new.active = row.active /\ new.sequence = row.sequence
      <4> HIDE DEF new
      <4> QED BY <3>1, <2>3, <1>1 DEF RowStep, ValidLease, ActiveLease
    <3> QED BY <3>2, <1>1
  <2> QED BY <1>3, <2>4, <2>5, <2>6, <2>7, <2>8 DEF ClaimedChanges
<1> QED BY <1>2, <1>3

\* A compare-and-set on a state record is a row step.
LEMMA StateStep ==
    ASSUME NEW u \in Update, u.change \in StateChanges,
           NEW row \in Row, ValidLease(row), NEW now, row.lifecycle # "Leased",
           StateVerdict(u, row) = "Ok"
    PROVE  LET new == StateRow(u, row) IN
           RowStep(row, new, now) /\ new.lifecycle # "Leased"
<1> DEFINE new == StateRow(u, row)
<1>1. CASE u.change = "Check"
  <2>1. new = row
    BY <1>1 DEF StateRow
  <2>2. RowStep(row, new, now) /\ new.lifecycle # "Leased"
    <3> HIDE DEF new
    <3> QED BY <2>1 DEF RowStep
  <2> QED BY <2>2
<1>2. CASE u.change # "Check"
  <2>1. row.version + 1 \in U64
    <3>1. ~VersionExhausted(row)
      BY <1>2 DEF StateVerdict
    <3> QED BY <3>1, PlannerAssumption DEF VersionExhausted, Row, U64
  <2>2. CASE u.change = "Delete"
    <3>1. new = DeletedRow(row)
      BY <2>2 DEF StateRow
    <3>2. DeletedRow(row).lifecycle # "Leased"
      BY DEF DeletedRow, InactiveRow
    <3> QED BY <3>1, <3>2, <2>1, DeletedStep
  <2>3. CASE u.change = "Put"
    <3> DEFINE base == InactiveRow(row.version + 1)
    <3>1. new = [base EXCEPT !.active = TRUE, !.uniq = u.item.uniq]
      BY <2>3 DEF StateRow
    <3>2. base \in Row /\ base.version = row.version + 1 /\ base.expires = 0 /\ base.token = 0
          /\ base.lifecycle = "Pending"
      BY <2>1, InactiveRowType DEF InactiveRow
    <3>3. u.item \in Item
      BY DEF Update
    <3>4. new \in Row /\ new.version = row.version + 1 /\ new.expires = 0 /\ new.token = 0
          /\ new.lifecycle = "Pending"
      BY <3>1, <3>2, <3>3, Zenon DEF Row, Item
    <3>5. RowStep(row, new, now)
      <4> HIDE DEF new
      <4> QED BY <3>4 DEF RowStep, ValidLease
    <3> QED BY <3>4, <3>5
  <2> QED BY <1>2, <2>2, <2>3 DEF StateChanges
<1> QED BY <1>1, <1>2

\* New work, inserted or replacing a row that is not leased, is a row step.
LEMMA FreshStep ==
    ASSUME NEW row \in Row, NEW item \in Item, NEW sequence \in U64, NEW now \in Time,
           row.version + 1 \in U64
    PROVE  LET new == FreshWork(row.version + 1, item, sequence, now) IN
           RowStep(row, new, now) /\ new.sequence = sequence
<1> DEFINE new == FreshWork(row.version + 1, item, sequence, now)
<1>1. new \in Row
  BY FreshWorkType
<1>2. /\ new.version = row.version + 1 /\ new.sequence = sequence
      /\ new.expires = 0 /\ new.token = 0 /\ new.lifecycle = "Pending"
  BY DEF FreshWork, InactiveRow
<1>3. RowStep(row, new, now)
  <2> HIDE DEF new
  <2> QED BY <1>1, <1>2 DEF RowStep, ValidLease
<1> QED BY <1>2, <1>3

\* An unclaimed patch, replacement or deletion is a row step.
LEMMA WorkStep ==
    ASSUME NEW u \in Update, u.change \in WorkChanges,
           NEW row \in Row, ValidLease(row), NEW now \in Time, NEW sequence \in Nat,
           WorkVerdict(u, row, now, sequence) = "Ok"
    PROVE  LET new == WorkRow(u, row, now, sequence) IN
           /\ RowStep(row, new, now)
           /\ row.active
           /\ new.active /\ u.change # "Replace" => new.sequence = row.sequence
           /\ u.change = "Replace" => new.sequence = sequence
<1> DEFINE new == WorkRow(u, row, now, sequence)
<1>1. row.active /\ ~ActiveLease(row, now) /\ ~VersionExhausted(row)
  BY DEF WorkVerdict
<1>2. row.version + 1 \in U64
  BY <1>1, PlannerAssumption DEF VersionExhausted, Row, U64
<1>3. CASE u.change = "Delete"
  <2>1. new = DeletedRow(row)
    BY <1>3 DEF WorkRow
  <2> QED BY <2>1, <1>1, <1>2, <1>3, DeletedStep
<1>4. CASE u.change = "Replace"
  <2>1. new = FreshWork(row.version + 1, u.item, sequence, now)
    BY <1>4 DEF WorkRow
  <2>2. sequence \in U64
    BY <1>4, PlannerAssumption DEF WorkVerdict, U64
  <2>3. u.item \in Item
    BY DEF Update
  <2> QED BY <2>1, <2>2, <2>3, <1>1, <1>2, <1>4, FreshStep
<1>5. CASE u.change = "Patch"
  <2> DEFINE mid == [row EXCEPT !.lifecycle = "Pending"]
             reclaimed == IF row.lifecycle = "Leased" THEN ClearLease(mid) ELSE row
  <2>1. new = [PatchWork(reclaimed, u.patch) EXCEPT !.version = @ + 1]
    BY <1>5 DEF WorkRow
  <2>2. mid \in Row /\ mid.version = row.version /\ mid.active = row.active /\ mid.sequence = row.sequence
        /\ mid.lifecycle = "Pending"
    BY Zenon DEF Row, Lifecycle
  <2>3. ClearLease(mid) \in Row /\ ClearLease(mid).version = row.version /\ ClearLease(mid).active = row.active
        /\ ClearLease(mid).sequence = row.sequence /\ ClearLease(mid).lifecycle = "Pending"
        /\ ClearLease(mid).expires = 0 /\ ClearLease(mid).token = 0
    BY <2>2, ClearLeaseType, Zenon DEF ClearLease, Row
  <2>4. reclaimed \in Row /\ reclaimed.version = row.version /\ reclaimed.active = row.active
        /\ reclaimed.sequence = row.sequence /\ reclaimed.lifecycle # "Leased" /\ ValidLease(reclaimed)
    <3>1. CASE row.lifecycle = "Leased"
      BY <2>3, <3>1 DEF ValidLease
    <3>2. CASE row.lifecycle # "Leased"
      BY <3>2
    <3> QED BY <3>1, <3>2
  <2> HIDE DEF reclaimed
  <2>5. u.patch \in Patch
    BY DEF Update
  <2>6. /\ new \in Row /\ new.version = row.version + 1 /\ new.lifecycle = reclaimed.lifecycle
        /\ new.expires = reclaimed.expires /\ new.token = reclaimed.token
        /\ new.active = reclaimed.active /\ new.sequence = reclaimed.sequence
    BY <2>1, <2>4, <2>5, <1>2, PatchedFields
  <2>7. RowStep(row, new, now)
    <3> HIDE DEF new
    <3> QED BY <2>4, <2>6 DEF RowStep, ValidLease
  <2> QED BY <2>4, <2>6, <2>7, <1>1, <1>5
<1> QED BY <1>3, <1>4, <1>5 DEF WorkChanges

\* An administrative change is a row step.
LEMMA AdminStep ==
    ASSUME NEW u \in Update, u.change \in AdminChanges,
           NEW row \in Row, ValidLease(row), NEW now \in Time,
           AdminVerdict(u, row, now) = "Ok"
    PROVE  LET new == AdminRow(u, row, now) IN
           /\ RowStep(row, new, now)
           /\ row.active /\ new.active
           /\ new.sequence = row.sequence
<1> DEFINE target == AdminTarget(u, row)
           mid == PatchWork(row, u.patch)
           moved == [mid EXCEPT !.lifecycle = target]
           aged == [moved EXCEPT !.since = Larger(now, moved.available)]
           effect == AdminEffect(u, row, now)
           new == AdminRow(u, row, now)
<1>1. row.active
  BY DEF AdminVerdict
<1>2. target \in Lifecycle /\ (target = "Leased" => row.lifecycle = "Leased")
  BY Zenon DEF AdminTarget, AdminChanges, Lifecycle, Terminal, Row
<1>3. mid \in Row /\ mid.version = row.version /\ mid.expires = row.expires /\ mid.token = row.token
      /\ mid.active = row.active /\ mid.sequence = row.sequence
  <2>1. u.patch \in Patch
    BY DEF Update
  <2> QED BY <2>1, PatchWorkType, Zenon DEF PatchWork, Row
<1>4. moved \in Row /\ moved.version = row.version /\ moved.expires = row.expires /\ moved.token = row.token
      /\ moved.active = row.active /\ moved.sequence = row.sequence /\ moved.lifecycle = target
  <2> HIDE DEF mid, target
  <2> QED BY <1>2, <1>3 DEF Row
<1>5. aged \in Row /\ aged.version = row.version /\ aged.expires = row.expires /\ aged.token = row.token
      /\ aged.active = row.active /\ aged.sequence = row.sequence /\ aged.lifecycle = target
  <2> HIDE DEF moved
  <2>1. Larger(now, moved.available) \in I64
    BY <1>4, ConstantTypes DEF Larger, Row
  <2> QED BY <1>4, <2>1 DEF Row
<1>6. PICK m \in {moved, aged} : effect = ClearUnlessLeased(m)
  BY DEF AdminEffect
<1>7. m \in Row /\ m.version = row.version /\ m.expires = row.expires /\ m.token = row.token
      /\ m.active = row.active /\ m.sequence = row.sequence /\ m.lifecycle = target
  BY <1>4, <1>5, <1>6, Zenon
<1>8. /\ effect \in Row /\ ValidLease(effect) /\ effect.version = row.version
      /\ effect.active = row.active /\ effect.sequence = row.sequence
      /\ effect.lifecycle = "Leased" =>
           row.lifecycle = "Leased" /\ effect.token = row.token /\ effect.expires = row.expires
  <2> HIDE DEF effect, target
  <2>1. CASE m.lifecycle = "Leased"
    <3>1. effect = m
      BY <1>6, <2>1 DEF ClearUnlessLeased
    <3> QED BY <3>1, <1>2, <1>7, <2>1 DEF ValidLease
  <2>2. CASE m.lifecycle # "Leased"
    <3>1. effect = ClearLease(m)
      BY <1>6, <2>2 DEF ClearUnlessLeased
    <3>2. effect \in Row
      BY <3>1, <1>7, ClearLeaseType
    <3>3. /\ effect.expires = 0 /\ effect.token = 0 /\ effect.lifecycle = m.lifecycle
          /\ effect.version = m.version /\ effect.active = m.active /\ effect.sequence = m.sequence
      BY <3>1, <1>7 DEF ClearLease, Row
    <3> QED BY <3>2, <3>3, <1>7, <2>2 DEF ValidLease
  <2> QED BY <2>1, <2>2
<1>9. CASE effect = row
  <2>1. new = row
    BY <1>9 DEF AdminRow
  <2>2. RowStep(row, new, now) /\ new.active = row.active /\ new.sequence = row.sequence
    <3> HIDE DEF new
    <3> QED BY <2>1 DEF RowStep
  <2> QED BY <2>2, <1>1
<1>10. CASE effect # row
  <2>1. new = [effect EXCEPT !.version = @ + 1]
    BY <1>10 DEF AdminRow
  <2>2. row.version + 1 \in U64
    <3>1. ~VersionExhausted(row)
      BY <1>10 DEF AdminVerdict
    <3> QED BY <3>1, PlannerAssumption DEF VersionExhausted, Row, U64
  <2>3. /\ new \in Row /\ new.version = row.version + 1 /\ new.lifecycle = effect.lifecycle
        /\ new.expires = effect.expires /\ new.token = effect.token
        /\ new.active = effect.active /\ new.sequence = effect.sequence
    <3> HIDE DEF effect, new
    <3> QED BY <1>8, <2>1, <2>2 DEF Row
  <2>4. RowStep(row, new, now) /\ new.active = row.active /\ new.sequence = row.sequence
    <3> HIDE DEF effect, new
    <3> QED BY <1>8, <2>3 DEF RowStep, ValidLease
  <2> QED BY <2>4, <1>1
<1> QED BY <1>9, <1>10

-----------------------------------------------------------------------------
\* A set of naturals has a least element, a bounded one a greatest.
LEMMA LeastElement ==
    ASSUME NEW T \in SUBSET Nat, T # {}
    PROVE  \E x \in T : \A y \in T : x =< y
<1>1. \E x \in T : \A y \in T : ~(<<y, x>> \in OpToRel(<, Nat))
  BY WFMin, NatLessThanWellFounded, Zenon
<1>2. \A x, y \in Nat : y < x => <<y, x>> \in OpToRel(<, Nat)
  BY DEF OpToRel
<1>3. PICK x \in T : \A y \in T : ~(<<y, x>> \in OpToRel(<, Nat))
  BY <1>1, Zenon
<1>4. \A y \in T : ~(y < x)
  BY <1>2, <1>3, Zenon
<1> QED BY <1>4

\* A bounded, non-empty set of numbers has a greatest element.
LEMMA GreatestElement ==
    ASSUME NEW n \in Nat, NEW T \in SUBSET (1..n), T # {}
    PROVE  \E x \in T : \A y \in T : y =< x
<1> DEFINE D == {d \in Nat : n - d \in T}
<1>1. D # {}
  <2>1. PICK x \in T : TRUE
    BY Zenon
  <2>2. n - x \in Nat /\ n - (n - x) = x
    OBVIOUS
  <2> QED BY <2>1, <2>2, Zenon
<1>2. PICK d \in D : \A e \in D : d =< e
  BY <1>1, LeastElement, Zenon
<1>3. \A y \in T : n - y \in D
  OBVIOUS
<1>4. ASSUME NEW y \in T PROVE y =< n - d
  <2>1. d =< n - y
    BY <1>2, <1>3
  <2> QED BY <2>1
<1> QED BY <1>2, <1>4

\* Insertion sequences are drawn in order, starting after the head.
LEMMA SequenceOrder ==
    ASSUME NEW updates, Len(updates) \in Nat, NEW head \in Nat, NEW i \in 0..Len(updates), NEW j \in i..Len(updates)
    PROVE  /\ SequenceAt(updates, i, head) \in Nat
           /\ head =< SequenceAt(updates, i, head)
           /\ SequenceAt(updates, i, head) =< SequenceAt(updates, j, head)
           /\ i < j /\ Draws(updates[j]) => SequenceAt(updates, i, head) < SequenceAt(updates, j, head)
           /\ (\A k \in (i + 1)..j : ~Draws(updates[k])) => SequenceAt(updates, i, head) = SequenceAt(updates, j, head)
<1> DEFINE D(m) == {k \in 1..m : Draws(updates[k])}
<1>1. \A m \in 0..Len(updates) : IsFiniteSet(D(m)) /\ Cardinality(D(m)) \in Nat
  <2> TAKE m \in 0..Len(updates)
  <2>1. IsFiniteSet(1..m)
    BY FS_Interval
  <2>2. D(m) \in SUBSET (1..m)
    OBVIOUS
  <2>3. IsFiniteSet(D(m))
    BY <2>1, <2>2, FS_Subset
  <2> QED BY <2>3, FS_CardinalityType
<1>2. D(i) \in SUBSET D(j)
  OBVIOUS
<1>3. Cardinality(D(i)) =< Cardinality(D(j)) /\ (Cardinality(D(j)) = Cardinality(D(i)) => D(i) = D(j))
  BY <1>1, <1>2, FS_Subset
<1>4. i < j /\ Draws(updates[j]) => j \in D(j) /\ j \notin D(i)
  OBVIOUS
<1>5. (\A k \in (i + 1)..j : ~Draws(updates[k])) => D(i) = D(j)
  OBVIOUS
<1>6. SequenceAt(updates, i, head) = head + Cardinality(D(i)) /\ SequenceAt(updates, j, head) = head + Cardinality(D(j))
  BY DEF SequenceAt
<1> HIDE DEF D
<1>7. Cardinality(D(i)) \in Nat /\ Cardinality(D(j)) \in Nat
  <2>1. i \in 0..Len(updates) /\ j \in 0..Len(updates)
    OBVIOUS
  <2> QED BY <1>1, <2>1
<1> QED BY <1>3, <1>4, <1>5, <1>6, <1>7

-----------------------------------------------------------------------------
\* What validate_commit_groups establishes for one update.
FormedUpdate(u) ==
    /\ u \in Update
    /\ u.change \in ChangesOf(u.kind)
    /\ (u.kind = "state") <=> (u.rec \in StateKeys)
    /\ u.change = "Renew" => u.time > 0

\* Every accepted update is a row step, and live work keeps its place in the
\* queue unless the update draws a new one.
LEMMA UpdatedStep ==
    ASSUME NEW u, FormedUpdate(u), NEW row \in Row, ValidLease(row), NEW now \in Time, NEW sequence \in Nat,
           u.kind = "state" => row.lifecycle # "Leased",
           Verdict(u, row, now, sequence) = "Ok"
    PROVE  LET new == UpdatedRow(u, row, now, sequence) IN
           /\ RowStep(row, new, now)
           /\ u.kind = "state" => new.lifecycle # "Leased"
           /\ u.kind # "state" /\ new.active =>
                IF Draws(u) THEN new.sequence = sequence ELSE row.active /\ new.sequence = row.sequence
           /\ Draws(u) => sequence \in U64
<1> DEFINE new == UpdatedRow(u, row, now, sequence)
<1>0. u \in Update /\ u.kind \in {"claimed", "state", "admin", "work", "insert"}
  BY DEF FormedUpdate, Update
<1>1. CASE u.kind = "claimed"
  <2>1. new = ClaimedRow(u, row, now) /\ ClaimedVerdict(u, row, now) = "Ok"
    BY <1>1 DEF UpdatedRow, Verdict
  <2>2. u.change \in ClaimedChanges /\ (u.change = "Renew" => u.time > 0)
    BY <1>1 DEF FormedUpdate, ChangesOf
  <2>3. ~Draws(u)
    BY <2>2 DEF Draws, ClaimedChanges
  <2> QED BY <2>1, <2>2, <2>3, <1>0, <1>1, ClaimedStep
<1>2. CASE u.kind = "state"
  <2>1. new = StateRow(u, row) /\ StateVerdict(u, row) = "Ok"
    BY <1>2 DEF UpdatedRow, Verdict
  <2>2. u.change \in StateChanges
    BY <1>2 DEF FormedUpdate, ChangesOf
  <2>3. ~Draws(u)
    BY <2>2 DEF Draws, StateChanges
  <2> QED BY <2>1, <2>2, <2>3, <1>0, <1>2, StateStep
<1>3. CASE u.kind = "admin"
  <2>1. new = AdminRow(u, row, now) /\ AdminVerdict(u, row, now) = "Ok"
    BY <1>3 DEF UpdatedRow, Verdict
  <2>2. u.change \in AdminChanges
    BY <1>3 DEF FormedUpdate, ChangesOf
  <2>3. ~Draws(u)
    BY <2>2 DEF Draws, AdminChanges
  <2> QED BY <2>1, <2>2, <2>3, <1>0, <1>3, AdminStep
<1>4. CASE u.kind = "work"
  <2>1. new = WorkRow(u, row, now, sequence) /\ WorkVerdict(u, row, now, sequence) = "Ok"
    BY <1>4 DEF UpdatedRow, Verdict
  <2>2. u.change \in WorkChanges
    BY <1>4 DEF FormedUpdate, ChangesOf
  <2>3. Draws(u) <=> u.change = "Replace"
    BY <2>2 DEF Draws, WorkChanges
  <2>4. u.change = "Replace" => sequence \in U64
    BY <2>1, PlannerAssumption DEF WorkVerdict, U64
  <2> QED BY <2>1, <2>2, <2>3, <2>4, <1>0, <1>4, WorkStep
<1>5. CASE u.kind = "insert"
  <2>1. new = FreshWork(row.version + 1, u.item, sequence, now) /\ InsertVerdict(row, sequence) = "Ok"
    BY <1>5 DEF UpdatedRow, Verdict
  <2>2. Draws(u)
    BY <1>5 DEF FormedUpdate, ChangesOf, Draws
  <2>3. row.version + 1 \in U64 /\ sequence \in U64
    BY <2>1, PlannerAssumption DEF InsertVerdict, VersionExhausted, Row, U64
  <2>4. u.item \in Item
    BY <1>0, Zenon DEF Update
  <2> QED BY <2>1, <2>2, <2>3, <2>4, <1>5, FreshStep
<1> QED BY <1>0, <1>1, <1>2, <1>3, <1>4, <1>5, Zenon

-----------------------------------------------------------------------------
\* The snapshots a planner may be given: every row has its type and can be
\* loaded, and state records are never leased.
ValidSnapshot(s) ==
    /\ s \in Snapshot
    /\ \A r \in Records : Loadable(s, r)
    /\ \A r \in StateKeys : s.rows[r].lifecycle # "Leased"

\* The rows of a group all of whose updates are accepted.
LEMMA GroupRows ==
    ASSUME NEW updates \in Seq(Update), WellFormed(updates), NEW s, ValidSnapshot(s), NEW now \in Time,
           \A i \in 1..Len(updates) : VerdictAt(updates, i, s, now) = "Ok"
    PROVE  LET rows == PlannedRows(updates, s, now)
               head == SequenceAt(updates, Len(updates), s.sequence)
           IN  /\ rows \in [Records -> Row]
               /\ head \in U64 /\ s.sequence =< head
               /\ \A r \in Records : RowStep(s.rows[r], rows[r], now)
               /\ ValidSnapshot([rows |-> rows, owners |-> s.owners, sequence |-> head])
               /\ OwnPlaces(s.rows) => OwnPlaces(rows)
<1> DEFINE rows == PlannedRows(updates, s, now)
           n == Len(updates)
           head == SequenceAt(updates, n, s.sequence)
           At(i) == SequenceAt(updates, i, s.sequence)
<1>0. n \in Nat /\ n # 0
  BY DEF WellFormed
<1>1. s.rows \in [Records -> Row] /\ s.sequence \in U64 /\ s.sequence \in Nat /\ s.owners \in [Tuples -> Records \cup {NoOwner}]
  BY ConstantTypes, Zenon DEF ValidSnapshot, Snapshot
<1>2. ASSUME NEW i \in 1..n
      PROVE  /\ FormedUpdate(updates[i]) /\ updates[i].rec \in Records
             /\ At(i) \in Nat /\ s.sequence =< At(i) /\ At(i) =< head
             /\ Draws(updates[i]) => s.sequence < At(i)
  <2>1. FormedUpdate(updates[i]) /\ updates[i].rec \in Records
    BY <1>2 DEF FormedUpdate, WellFormed, Update
  <2>2. At(i) \in Nat /\ s.sequence =< At(i) /\ At(i) =< head
    <3>1. n \in Nat /\ i \in 0..n /\ n \in i..n
      BY <1>0
    <3> QED BY <3>1, <1>1, SequenceOrder, Zenon
  <2>3. Draws(updates[i]) => At(0) < At(i)
    <3>1. n \in Nat /\ 0 \in 0..n /\ i \in 0..n /\ 0 < i
      BY <1>0
    <3> QED BY <3>1, <1>1, SequenceOrder, Zenon
  <2>4. s.sequence =< At(0) /\ At(0) \in Nat
    <3>1. n \in Nat /\ 0 \in 0..n /\ n \in 0..n
      BY <1>0
    <3> QED BY <3>1, <1>1, SequenceOrder, Zenon
  <2> QED BY <2>1, <2>2, <2>3, <2>4, <1>1
<1>3. ASSUME NEW i \in 1..n, NEW row, row = s.rows[updates[i].rec], NEW new, new = UpdatedRow(updates[i], row, now, At(i))
      PROVE  /\ RowStep(row, new, now)
             /\ updates[i].rec \in StateKeys => new.lifecycle # "Leased"
             /\ updates[i].rec \in Keys /\ new.active =>
                  IF Draws(updates[i]) THEN new.sequence = At(i) ELSE row.active /\ new.sequence = row.sequence
             /\ Draws(updates[i]) => At(i) \in U64
  <2>1. Verdict(updates[i], row, now, At(i)) = "Ok"
    BY <1>3, Zenon DEF VerdictAt
  <2>2. row \in Row /\ ValidLease(row)
    BY <1>1, <1>2, <1>3 DEF ValidSnapshot, Loadable
  <2>3. updates[i].kind = "state" <=> updates[i].rec \in StateKeys
    BY <1>2, Zenon DEF FormedUpdate
  <2>4. updates[i].kind = "state" => row.lifecycle # "Leased"
    BY <1>3, <2>3 DEF ValidSnapshot
  <2>5. updates[i].rec \in Keys => updates[i].kind # "state"
    BY <2>3, PlannerAssumption, Zenon
  <2> DEFINE u == updates[i]
             at == At(i)
  <2>6. FormedUpdate(u) /\ at \in Nat /\ new = UpdatedRow(u, row, now, at) /\ Verdict(u, row, now, at) = "Ok"
    BY <1>2, <1>3, <2>1
  <2>7. u.kind = "state" => row.lifecycle # "Leased"
    BY <2>4
  <2>8. /\ RowStep(row, new, now)
        /\ u.kind = "state" => new.lifecycle # "Leased"
        /\ u.kind # "state" /\ new.active =>
             IF Draws(u) THEN new.sequence = at ELSE row.active /\ new.sequence = row.sequence
        /\ Draws(u) => at \in U64
    <3> HIDE DEF u, at
    <3> QED BY <2>2, <2>6, <2>7, UpdatedStep
  <2> QED BY <2>3, <2>5, <2>8, Zenon
<1>4. head \in U64 /\ s.sequence =< head
  <2> DEFINE T == {i \in 1..n : Draws(updates[i])}
  <2>1. CASE T = {}
    <3>1. \A k \in 1..n : ~Draws(updates[k])
      BY <2>1, Zenon
    <3>2. At(0) = head
      BY <3>1, <1>0, <1>1, SequenceOrder
    <3>3. At(0) = s.sequence
      <4>1. {k \in 1..0 : Draws(updates[k])} = {}
        OBVIOUS
      <4> QED BY <4>1, <1>1, FS_EmptySet DEF SequenceAt
    <3> QED BY <3>2, <3>3, <1>1
  <2>2. CASE T # {}
    <3>1. PICK i \in T : \A j \in T : j =< i
      BY <1>0, <2>2, GreatestElement, Zenon
    <3>2. \A k \in (i + 1)..n : ~Draws(updates[k])
      BY <3>1, <1>0
    <3>3. At(i) = head
      <4>1. n \in Nat /\ i \in 0..n /\ n \in i..n
        BY <1>0, <3>1
      <4> QED BY <4>1, <3>2, <1>1, SequenceOrder, Zenon
    <3> QED BY <3>1, <3>3, <1>2, <1>3
  <2> QED BY <2>1, <2>2, Zenon
<1>5. ASSUME NEW r \in Records
      PROVE  /\ RowStep(s.rows[r], rows[r], now)
             /\ r \in StateKeys => rows[r].lifecycle # "Leased"
             /\ r \in Keys /\ rows[r].active =>
                  \/ s.rows[r].active /\ rows[r].sequence = s.rows[r].sequence
                  \/ \E i \in 1..n : updates[i].rec = r /\ Draws(updates[i]) /\ rows[r].sequence = At(i)
  <2>1. CASE \E i \in 1..n : updates[i].rec = r
    <3> DEFINE i == CHOOSE i \in 1..n : updates[i].rec = r
    <3>1. i \in 1..n /\ updates[i].rec = r
      BY <2>1
    <3>2. rows[r] = UpdatedRow(updates[i], s.rows[r], now, At(i))
      BY <2>1, Zenon DEF PlannedRows
    <3> HIDE DEF i, rows
    <3>3. RowStep(s.rows[r], rows[r], now) /\ (r \in StateKeys => rows[r].lifecycle # "Leased")
      BY <3>1, <3>2, <1>3
    <3>4. r \in Keys /\ rows[r].active =>
            IF Draws(updates[i]) THEN rows[r].sequence = At(i) ELSE s.rows[r].active /\ rows[r].sequence = s.rows[r].sequence
      BY <3>1, <3>2, <1>3, Zenon
    <3> QED BY <3>1, <3>3, <3>4
  <2>2. CASE ~\E i \in 1..n : updates[i].rec = r
    <3>1. rows[r] = s.rows[r]
      BY <2>2, Zenon DEF PlannedRows
    <3>2. s.rows[r] \in Row /\ ValidLease(s.rows[r])
      BY <1>1 DEF ValidSnapshot, Loadable
    <3>3. r \in StateKeys => s.rows[r].lifecycle # "Leased"
      BY Zenon DEF ValidSnapshot
    <3>4. RowStep(s.rows[r], rows[r], now)
      <4> HIDE DEF rows
      <4> QED BY <3>1, <3>2, Zenon DEF RowStep
    <3> QED BY <3>1, <3>3, <3>4, Zenon
  <2> QED BY <2>1, <2>2, Zenon
<1>6. rows \in [Records -> Row]
  <2>1. \A r \in Records : rows[r] \in Row
    BY <1>5 DEF RowStep
  <2> QED BY <2>1, Zenon DEF PlannedRows
<1>7. ValidSnapshot([rows |-> rows, owners |-> s.owners, sequence |-> head])
  <2> DEFINE t == [rows |-> rows, owners |-> s.owners, sequence |-> head]
  <2> HIDE DEF rows, head
  <2>1. t \in Snapshot
    BY <1>1, <1>4, <1>6, Zenon DEF Snapshot
  <2>2. ASSUME NEW r \in Records PROVE Loadable(t, r)
    <3>1. ValidLease(rows[r])
      BY <1>5, Zenon DEF RowStep
    <3>2. rows[r].active => rows[r].version # 0
      <4>1. CASE rows[r] = s.rows[r]
        BY <4>1 DEF ValidSnapshot, Loadable
      <4>2. CASE rows[r] # s.rows[r]
        <5>1. rows[r].version = s.rows[r].version + 1
          BY <4>2, <1>5, Zenon DEF RowStep
        <5>2. s.rows[r].version \in Nat
          BY <1>1, ConstantTypes, Zenon DEF Row
        <5> QED BY <5>1, <5>2
      <4> QED BY <4>1, <4>2
    <3>3. ASSUME r \in Keys, rows[r].active PROVE rows[r].sequence \in 1..head
      <4>1. head \in Nat /\ s.sequence =< head
        BY <1>4, ConstantTypes, Zenon DEF head
      <4>2. CASE s.rows[r].active /\ rows[r].sequence = s.rows[r].sequence
        <5>1. s.rows[r].sequence \in 1..s.sequence
          BY <3>3, <4>2 DEF ValidSnapshot, Loadable
        <5> QED BY <5>1, <4>1, <4>2, <1>1
      <4>3. CASE \E i \in 1..n : updates[i].rec = r /\ Draws(updates[i]) /\ rows[r].sequence = At(i)
        <5>1. PICK i \in 1..n : Draws(updates[i]) /\ rows[r].sequence = At(i)
          BY <4>3, Zenon
        <5>2. At(i) \in Nat /\ s.sequence < At(i) /\ At(i) =< head
          BY <5>1, <1>2, Zenon DEF head
        <5> QED BY <5>1, <5>2, <4>1, <1>1
      <4> QED BY <3>3, <4>2, <4>3, <1>5
    <3> QED BY <3>1, <3>2, <3>3, Zenon DEF Loadable
  <2>3. \A r \in StateKeys : t.rows[r].lifecycle # "Leased"
    BY <1>5, Zenon DEF Records
  <2> QED BY <2>1, <2>2, <2>3, Zenon DEF ValidSnapshot
<1>8. ASSUME OwnPlaces(s.rows), NEW j \in Keys, NEW k \in Keys, j # k, rows[j].active, rows[k].active
      PROVE  rows[j].sequence # rows[k].sequence
  <2> DEFINE Kept(r) == s.rows[r].active /\ rows[r].sequence = s.rows[r].sequence
             Drew(r, i) == updates[i].rec = r /\ Draws(updates[i]) /\ rows[r].sequence = At(i)
  <2> HIDE DEF rows
  <2>1. \A r \in {j, k} : Kept(r) \/ \E i \in 1..n : Drew(r, i)
    BY <1>5, <1>8, Zenon DEF Records
  <2>2. \A r \in {j, k} : Kept(r) => rows[r].sequence \in 1..s.sequence
    BY <1>8 DEF ValidSnapshot, Loadable, Records
  <2>3. \A r \in {j, k} : \A i \in 1..n : Drew(r, i) => rows[r].sequence \in Nat /\ s.sequence < rows[r].sequence
    BY <1>2
  <2>4. CASE Kept(j) /\ Kept(k)
    BY <2>4, <1>8 DEF OwnPlaces
  <2>5. CASE Kept(j) /\ \E i \in 1..n : Drew(k, i)
    <3>1. rows[j].sequence \in 1..s.sequence
      BY <2>2, <2>5, Zenon
    <3>2. rows[k].sequence \in Nat /\ s.sequence < rows[k].sequence
      BY <2>3, <2>5, Zenon
    <3> QED BY <3>1, <3>2, <1>1
  <2>6. CASE Kept(k) /\ \E i \in 1..n : Drew(j, i)
    <3>1. rows[k].sequence \in 1..s.sequence
      BY <2>2, <2>6, Zenon
    <3>2. rows[j].sequence \in Nat /\ s.sequence < rows[j].sequence
      BY <2>3, <2>6, Zenon
    <3> QED BY <3>1, <3>2, <1>1
  <2>7. ASSUME NEW i \in 1..n, NEW m \in 1..n, i < m, Draws(updates[m]) PROVE At(i) < At(m)
    <3>1. n \in Nat /\ i \in 0..n /\ m \in i..n
      BY <1>0, <2>7
    <3> QED BY <3>1, <2>7, <1>1, SequenceOrder, Zenon
  <2>8. ASSUME NEW i \in 1..n, Drew(j, i), NEW m \in 1..n, Drew(k, m) PROVE rows[j].sequence # rows[k].sequence
    <3>1. i # m
      BY <1>8, <2>8
    <3>2. At(i) \in Nat /\ At(m) \in Nat
      BY <1>2
    <3>3. At(i) < At(m) \/ At(m) < At(i)
      BY <2>7, <2>8, <3>1
    <3> HIDE DEF At
    <3> QED BY <2>8, <3>2, <3>3
  <2> QED BY <2>1, <2>4, <2>5, <2>6, <2>8, Zenon
<1>9. OwnPlaces(s.rows) => OwnPlaces(rows)
  BY <1>8 DEF OwnPlaces
<1> QED BY <1>4, <1>5, <1>6, <1>7, <1>9

\* The unique index still names exactly the holders after a group without a
\* conflict, whatever values its records released, took over or swapped.
LEMMA MergedOwnersMatch ==
    ASSUME NEW old, NEW new, NEW owners \in [Tuples -> Records \cup {NoOwner}],
           OwnersMatch(old, owners), ~UniqueConflict(old, new, owners)
    PROVE  LET merged == MergedOwners(old, new, owners) IN
           merged \in [Tuples -> Records \cup {NoOwner}] /\ OwnersMatch(new, merged)
<1> DEFINE merged == MergedOwners(old, new, owners)
           Takes(t, q) == t \in Claims(q, old[q], new[q])
           Drops(t, q) == t \in Releases(q, old[q], new[q])
<1>0. NoOwner \notin Records
  BY PlannerAssumption DEF Records
<1>1. ASSUME NEW t \in Tuples, NEW q \in Records, Takes(t, q)
      PROVE  /\ \A r \in Records : Takes(t, r) => r = q
             /\ owners[t] \in {NoOwner, q} \/ Drops(t, owners[t])
  BY <1>1 DEF UniqueConflict
<1>2. ASSUME NEW t \in Tuples, NEW r \in Records
      PROVE  /\ Takes(t, r) <=> t \in TupleOf(r, new[r]) /\ t \notin TupleOf(r, old[r])
             /\ Drops(t, r) <=> t \in TupleOf(r, old[r]) /\ t \notin TupleOf(r, new[r])
             /\ owners[t] = r <=> t \in TupleOf(r, old[r])
  BY Zenon DEF Claims, Releases, OwnersMatch
<1>3. ASSUME NEW t \in Tuples
      PROVE  /\ merged[t] \in Records \cup {NoOwner}
             /\ \A r \in Records : merged[t] = r <=> t \in TupleOf(r, new[r])
  <2>1. CASE \E q \in Records : Takes(t, q)
    <3> DEFINE q == CHOOSE q \in Records : Takes(t, q)
    <3>1. q \in Records /\ Takes(t, q)
      BY <2>1
    <3>2. merged[t] = q
      BY <2>1 DEF MergedOwners
    <3> HIDE DEF q, merged, Takes, Drops
    <3>3. ASSUME NEW r \in Records, t \in TupleOf(r, new[r]), r # q PROVE FALSE
      <4>1. ~Takes(t, r)
        BY <3>1, <3>3, <1>1
      <4>2. owners[t] = r
        BY <4>1, <3>3, <1>2
      <4>3. Drops(t, r)
        BY <4>2, <3>1, <3>3, <1>0, <1>1
      <4> QED BY <4>3, <3>3, <1>2
    <3> QED BY <3>1, <3>2, <3>3, <1>2
  <2>2. CASE (~\E q \in Records : Takes(t, q)) /\ \E q \in Records : Drops(t, q)
    <3>1. merged[t] = NoOwner
      BY <2>2 DEF MergedOwners
    <3> HIDE DEF merged, Takes, Drops
    <3>2. PICK q \in Records : Drops(t, q)
      BY <2>2
    <3>3. ASSUME NEW r \in Records, t \in TupleOf(r, new[r]) PROVE FALSE
      <4>1. owners[t] = r
        BY <2>2, <3>3, <1>2, Zenon
      <4>2. owners[t] = q /\ t \notin TupleOf(q, new[q])
        BY <3>2, <1>2, Zenon
      <4> QED BY <4>1, <4>2, <3>3, Zenon
    <3> QED BY <3>1, <3>3, <1>0
  <2>3. CASE (~\E q \in Records : Takes(t, q)) /\ ~\E q \in Records : Drops(t, q)
    <3>1. merged[t] = owners[t]
      BY <2>3 DEF MergedOwners
    <3> HIDE DEF merged, Takes, Drops
    <3> QED BY <2>3, <3>1, <1>2, Zenon
  <2> QED BY <2>1, <2>2, <2>3, Zenon
<1>4. merged \in [Tuples -> Records \cup {NoOwner}]
  BY <1>3 DEF MergedOwners
<1>5. OwnersMatch(new, merged)
  <2> HIDE DEF merged
  <2> QED BY <1>3 DEF OwnersMatch
<1> QED BY <1>4, <1>5

\* A verdict is a reason that a receipt can hold.
LEMMA VerdictType ==
    ASSUME NEW u \in Update, NEW row, NEW now, NEW sequence
    PROVE  Verdict(u, row, now, sequence) \in Rejection \cup {"Ok"}
<1>0. u.kind \in {"claimed", "state", "admin", "work", "insert"}
  BY DEF Update
<1>1. ExpectVerdict(row, u.expect) \in Rejection \cup {"Ok"}
  BY DEF Rejection, ExpectVerdict
<1>2. ClaimedVerdict(u, row, now) \in Rejection \cup {"Ok"}
  BY DEF Rejection, ClaimedVerdict
<1>3. StateVerdict(u, row) \in Rejection \cup {"Ok"}
  BY <1>1 DEF Rejection, StateVerdict
<1>4. AdminVerdict(u, row, now) \in Rejection \cup {"Ok"}
  BY <1>1 DEF Rejection, AdminVerdict
<1>5. WorkVerdict(u, row, now, sequence) \in Rejection \cup {"Ok"}
  BY <1>1 DEF Rejection, WorkVerdict
<1>6. InsertVerdict(row, sequence) \in Rejection \cup {"Ok"}
  BY Zenon DEF Rejection, InsertVerdict
<1> QED BY <1>0, <1>2, <1>3, <1>4, <1>5, <1>6 DEF Verdict

\* A snapshot that the store may be in.
Sound(s) == ValidSnapshot(s) /\ OwnersMatch(s.rows, s.owners) /\ OwnPlaces(s.rows)

\* plan_commit_group takes a sound snapshot to a sound one, changes nothing
\* but what it reports as committed, and raises the version of every row it
\* changes.
LEMMA PlanStep ==
    ASSUME NEW updates \in Seq(Update), WellFormed(updates),
           NEW s, Sound(s), NEW now \in Time
    PROVE  LET plan == PlanCommitGroup(updates, s, now) IN
           /\ Sound(plan.snapshot)
           /\ plan.outcome \in GroupOutcome
           /\ IF plan.outcome.tag = "Rejected" THEN plan.snapshot = s
              ELSE (\E i \in 1..Len(updates) : updates[i].change # "Check") => plan.outcome.versions # {}
           /\ \A r \in Records : RowStep(s.rows[r], plan.snapshot.rows[r], now)
<1> DEFINE plan == PlanCommitGroup(updates, s, now)
           n == Len(updates)
           refused == {i \in 1..n : VerdictAt(updates, i, s, now) # "Ok"}
           first == CHOOSE i \in refused : \A j \in refused : i =< j
           rows == PlannedRows(updates, s, now)
           owners == MergedOwners(s.rows, rows, s.owners)
           head == SequenceAt(updates, n, s.sequence)
           modified == {updates[i].rec : i \in {j \in 1..n : updates[j].change # "Check"}}
<1> SUFFICES /\ Sound(plan.snapshot)
             /\ plan.outcome \in GroupOutcome
             /\ IF plan.outcome.tag = "Rejected" THEN plan.snapshot = s
                ELSE (\E i \in 1..n : updates[i].change # "Check") => plan.outcome.versions # {}
             /\ \A r \in Records : RowStep(s.rows[r], plan.snapshot.rows[r], now)
  OBVIOUS
<1>0. n \in Nat /\ (\A i \in 1..n : updates[i] \in Update) /\ ValidSnapshot(s) /\ s \in Snapshot
  <2>1. ValidSnapshot(s) /\ s \in Snapshot
    BY DEF Sound, ValidSnapshot
  <2> QED BY <2>1, SeqElements
<1>1. ASSUME NEW reason \in Rejection, plan = [snapshot |-> s, outcome |-> Rejected(reason)]
      PROVE  /\ Sound(plan.snapshot)
             /\ plan.outcome \in GroupOutcome
             /\ IF plan.outcome.tag = "Rejected" THEN plan.snapshot = s
                ELSE (\E i \in 1..n : updates[i].change # "Check") => plan.outcome.versions # {}
             /\ \A r \in Records : RowStep(s.rows[r], plan.snapshot.rows[r], now)
  <2> HIDE DEF plan
  <2>1. plan.snapshot = s /\ plan.outcome = Rejected(reason)
    BY <1>1
  <2>2. Rejected(reason) \in GroupOutcome
    BY DEF Rejected, GroupOutcome
  <2>3. \A r \in Records : s.rows[r] \in Row /\ ValidLease(s.rows[r])
    BY <1>0, Zenon DEF ValidSnapshot, Snapshot, Loadable
  <2>4. \A r \in Records : RowStep(s.rows[r], s.rows[r], now)
    BY <2>3 DEF RowStep
  <2>5. plan.outcome.tag = "Rejected"
    BY <2>1 DEF Rejected
  <2> QED BY <2>1, <2>2, <2>4, <2>5
<1>2. CASE refused # {}
  <2>1. plan = [snapshot |-> s, outcome |-> Rejected(VerdictAt(updates, first, s, now))]
    BY <1>2 DEF PlanCommitGroup
  <2>2. first \in 1..n /\ VerdictAt(updates, first, s, now) # "Ok"
    <3>1. refused \in SUBSET Nat
      BY <1>0
    <3>2. \E i \in refused : \A j \in refused : i =< j
      <4> HIDE DEF refused
      <4> QED BY <1>2, <3>1, LeastElement
    <3>3. first \in refused
      <4> HIDE DEF refused
      <4> QED BY <3>2, Zenon
    <3> HIDE DEF first
    <3> QED BY <3>3
  <2>3. VerdictAt(updates, first, s, now) \in Rejection
    <3> HIDE DEF first
    <3> QED BY <1>0, <2>2, VerdictType, Zenon DEF VerdictAt
  <2> HIDE DEF plan, first
  <2> QED BY <1>1, <2>1, <2>3, Zenon
<1>3. CASE refused = {} /\ UniqueConflict(s.rows, rows, s.owners)
  <2>1. plan = [snapshot |-> s, outcome |-> Rejected("UniqueConflict")]
    BY <1>3, Zenon DEF PlanCommitGroup
  <2> HIDE DEF plan
  <2> QED BY <1>1, <2>1, Zenon DEF Rejection
<1>4. CASE refused = {} /\ ~UniqueConflict(s.rows, rows, s.owners)
  <2> DEFINE t == [rows |-> rows, owners |-> owners, sequence |-> head]
             versions == {<<r, rows[r].version>> : r \in modified}
  <2>1. plan = [snapshot |-> t, outcome |-> Committed(versions)]
    BY <1>4, Zenon DEF PlanCommitGroup
  <2>2. /\ rows \in [Records -> Row]
        /\ \A r \in Records : RowStep(s.rows[r], rows[r], now)
        /\ ValidSnapshot([rows |-> rows, owners |-> s.owners, sequence |-> head])
        /\ OwnPlaces(rows)
    <3>1. \A i \in 1..n : VerdictAt(updates, i, s, now) = "Ok"
      BY <1>4, Zenon
    <3> HIDE DEF n
    <3> QED BY <1>0, <3>1, GroupRows DEF Sound, n
  <2>3. owners \in [Tuples -> Records \cup {NoOwner}] /\ OwnersMatch(rows, owners)
    <3>1. s.owners \in [Tuples -> Records \cup {NoOwner}] /\ OwnersMatch(s.rows, s.owners)
      BY <1>0 DEF Snapshot, Sound
    <3> HIDE DEF rows
    <3> QED BY <1>4, <3>1, MergedOwnersMatch
  <2>4. versions \in SUBSET (Records \X U64)
    <3>1. modified \subseteq Records
      BY <1>0 DEF Update
    <3>2. \A row \in Row : row.version \in U64
      BY DEF Row
    <3> HIDE DEF rows, modified
    <3>3. \A r \in modified : r \in Records /\ rows[r].version \in U64
      BY <3>1, <3>2, <2>2, Zenon
    <3> QED BY <3>3
  <2>5. Sound(t)
    <3> HIDE DEF rows, owners, head
    <3>1. t \in Snapshot
      BY <2>2, <2>3, Zenon DEF ValidSnapshot, Snapshot
    <3>2. ValidSnapshot(t)
      BY <3>1, <2>2 DEF ValidSnapshot, Loadable
    <3> QED BY <3>2, <2>2, <2>3, Zenon DEF Sound
  <2>6. /\ Committed(versions) \in GroupOutcome
        /\ Committed(versions).tag # "Rejected"
        /\ Committed(versions).versions = versions
    <3> HIDE DEF versions
    <3> QED BY <2>4, Zenon DEF Committed, GroupOutcome
  <2>7. /\ Sound(plan.snapshot)
        /\ plan.outcome \in GroupOutcome
        /\ plan.outcome.tag # "Rejected"
        /\ plan.outcome.versions = versions
        /\ \A r \in Records : RowStep(s.rows[r], plan.snapshot.rows[r], now)
    <3> HIDE DEF rows, owners, head, versions, plan
    <3> QED BY <2>1, <2>2, <2>5, <2>6
  <2>8. (\E i \in 1..n : updates[i].change # "Check") => versions # {}
    BY Zenon
  <2> HIDE DEF plan, versions
  <2> QED BY <2>7, <2>8, Zenon
<1> QED BY <1>2, <1>3, <1>4, Zenon

\* One item of an insert is a group of one update that passes validation.
LEMMA InsertUpdateFormed ==
    ASSUME NEW key \in Keys, NEW item \in Item, NEW mode, NEW s, Sound(s)
    PROVE  LET u == InsertUpdate(key, item, mode, s.rows[key]) IN
           /\ u \in Update /\ WellFormed(<<u>>)
           /\ u.kind \in {"work", "insert"} /\ u.change \in {"Replace", "Insert"}
<1> DEFINE row == s.rows[key]
           u == InsertUpdate(key, item, mode, row)
<1>1. row \in Row /\ (row.active => row.version # 0) /\ key \in Records
  BY Zenon DEF Sound, ValidSnapshot, Snapshot, Loadable, Records
<1>2. u \in Update
  <2>1. 0 \in U64 /\ 0 \in I64 /\ 0 \in Nat /\ row.version \in U64
    BY <1>1, ConstantTypes DEF Row, U64, I64
  <2>2. [priority |-> NoChange, available |-> NoChange, uniq |-> NoChange] \in Patch
    BY DEF Patch
  <2> HIDE DEF row
  <2> QED BY <1>1, <2>1, <2>2, Zenon DEF InsertUpdate, Update, Guards, WorkChanges
<1>3. /\ u.rec = key /\ u.kind \in {"work", "insert"} /\ u.change \in ChangesOf(u.kind)
      /\ u.change \in {"Replace", "Insert"}
      /\ u.kind = "work" => u.expect # 0
  BY <1>1 DEF InsertUpdate, ChangesOf, WorkChanges
<1>4. WellFormed(<<u>>)
  <2> HIDE DEF u
  <2> DEFINE updates == <<u>>
  <2>1. Len(updates) = 1 /\ updates[1] = u /\ updates # << >>
    OBVIOUS
  <2> HIDE DEF updates
  <2>2. WellFormed(updates)
    BY <1>2, <1>3, <2>1, PlannerAssumption DEF WellFormed
  <2> QED BY <2>2 DEF updates
<1> QED BY <1>2, <1>3, <1>4

\* An item of an insert keeps the snapshot sound.
LEMMA InsertItemStep ==
    ASSUME NEW key \in Keys, NEW item \in Item, NEW mode, NEW s, Sound(s), NEW now \in Time
    PROVE  LET plan == PlanInsertItem(key, item, mode, s, now) IN
           /\ Sound(plan.snapshot)
           /\ plan.outcome \in GroupOutcome
           /\ IF plan.outcome.tag = "Rejected" THEN plan.snapshot = s ELSE plan.outcome.versions # {}
           /\ \A r \in Records : RowStep(s.rows[r], plan.snapshot.rows[r], now)
<1> DEFINE u == InsertUpdate(key, item, mode, s.rows[key])
           updates == <<u>>
<1>1. u \in Update /\ WellFormed(updates) /\ u.change \in {"Replace", "Insert"}
  BY InsertUpdateFormed
<1>2. PlanInsertItem(key, item, mode, s, now) = PlanCommitGroup(updates, s, now)
  BY DEF PlanInsertItem
<1> HIDE DEF u
<1>3. updates \in Seq(Update) /\ Len(updates) = 1 /\ updates[1] = u
  BY <1>1
<1> HIDE DEF updates
<1>4. \E i \in 1..Len(updates) : updates[i].change # "Check"
  BY <1>1, <1>3
<1> QED BY <1>1, <1>2, <1>3, <1>4, PlanStep, Zenon

\* The selected rows are leased with one of the new tokens each.
Handed(old, new, n, selected, last) ==
    \A r \in Records :
        \/ new[r] = old[r]
        \/ \E i \in 1..n :
             /\ selected[i] = r
             /\ new[r].active /\ new[r].lifecycle = "Leased"
             /\ new[r].token = last + i /\ new[r].version = old[r].version + 1

\* A claim keeps the snapshot sound, and a claimed row carries a new version,
\* the new expiry and one of the new tokens.
LEMMA ClaimRowsStep ==
    ASSUME NEW s, Sound(s), NEW n \in Nat, NEW selected \in [1..n -> Keys], NEW last \in Nat,
           NEW expires \in Time, expires # 0,
           \A i \in 1..n : Claimable(s.rows[selected[i]]) /\ s.rows[selected[i]].active,
           NEW t, t = [s EXCEPT !.rows = ClaimRows(@, selected, last, expires)]
    PROVE  /\ Sound(t)
           /\ Handed(s.rows, t.rows, n, selected, last)
<1> DEFINE rows == ClaimRows(s.rows, selected, last, expires)
<1>0. s \in Snapshot /\ ValidSnapshot(s) /\ \A r \in Records : s.rows[r] \in Row
  BY DEF Sound, ValidSnapshot, Snapshot
<1>1. ASSUME NEW r \in Records
      PROVE  \/ rows[r] = s.rows[r] /\ \A i \in 1..n : selected[i] # r
             \/ \E i \in 1..n : selected[i] = r /\ rows[r] = PlanClaim(s.rows[r], last + i, expires)
  BY Zenon DEF ClaimRows
<1>2. ASSUME NEW r \in Records, NEW i \in 1..n, selected[i] = r, rows[r] = PlanClaim(s.rows[r], last + i, expires)
      PROVE  /\ rows[r] \in Row
             /\ rows[r].active /\ rows[r].lifecycle = "Leased" /\ rows[r].expires = expires
             /\ rows[r].token = last + i /\ rows[r].version = s.rows[r].version + 1
             /\ ValidLease(rows[r]) /\ rows[r].version # 0
             /\ rows[r].sequence = s.rows[r].sequence /\ rows[r].uniq = s.rows[r].uniq
  <2> DEFINE row == s.rows[r]
  <2>1. row \in Row /\ Claimable(row) /\ row.active
    BY <1>0, <1>2
  <2>2. last + i \in Nat /\ last + i # 0
    BY <1>2
  <2> HIDE DEF row, rows
  <2>3. row.version + 1 # 0
    BY <2>1 DEF Row, U64
  <2>4. rows[r] = PlanClaim(row, last + i, expires)
    BY <1>2 DEF row
  <2>5. PlanClaim(row, last + i, expires) \in Row
    BY <2>1, <2>2, <2>3, PlanClaimType DEF Claimable
  <2>6. rows[r].active /\ rows[r].lifecycle = "Leased" /\ rows[r].expires = expires
        /\ rows[r].token = last + i /\ rows[r].version = row.version + 1
        /\ rows[r].sequence = row.sequence /\ rows[r].uniq = row.uniq
    BY <2>1, <2>4 DEF PlanClaim, Row
  <2> QED BY <2>2, <2>3, <2>4, <2>5, <2>6 DEF ValidLease, row
<1>3. ASSUME NEW r \in Records
      PROVE  /\ rows[r] \in Row /\ ValidLease(rows[r])
             /\ rows[r].active = s.rows[r].active /\ rows[r].sequence = s.rows[r].sequence
             /\ rows[r].uniq = s.rows[r].uniq
             /\ rows[r].active => rows[r].version # 0
             /\ r \in StateKeys => rows[r].lifecycle # "Leased"
  <2>1. CASE rows[r] = s.rows[r]
    <3> HIDE DEF rows
    <3> QED BY <2>1, <1>0 DEF ValidSnapshot, Loadable
  <2>2. ASSUME NEW i \in 1..n, selected[i] = r, rows[r] = PlanClaim(s.rows[r], last + i, expires)
        PROVE  /\ rows[r] \in Row /\ ValidLease(rows[r])
               /\ rows[r].active = s.rows[r].active /\ rows[r].sequence = s.rows[r].sequence
               /\ rows[r].uniq = s.rows[r].uniq
               /\ rows[r].active => rows[r].version # 0
               /\ r \in StateKeys => rows[r].lifecycle # "Leased"
    <3>1. r \in Keys /\ r \notin StateKeys
      BY <2>2, PlannerAssumption
    <3>2. s.rows[r].active /\ s.rows[r].active \in BOOLEAN /\ rows[r].active \in BOOLEAN
      BY <2>2, <1>0, <1>2 DEF Row
    <3> HIDE DEF rows
    <3> QED BY <2>2, <3>1, <3>2, <1>2, Zenon
  <2> HIDE DEF rows
  <2> QED BY <2>1, <2>2, <1>1
<1>4. rows \in [Records -> Row]
  BY <1>3 DEF ClaimRows
<1>5. t \in Snapshot /\ t.rows = rows /\ t.owners = s.owners /\ t.sequence = s.sequence
  <2>1. t = [s EXCEPT !.rows = rows]
    OBVIOUS
  <2> HIDE DEF rows
  <2> QED BY <1>0, <1>4, <2>1, Zenon DEF Snapshot
<1>6. Sound(t)
  <2> HIDE DEF rows
  <2>1. \A r \in Records : Loadable(t, r)
    BY <1>0, <1>3, <1>5 DEF ValidSnapshot, Loadable
  <2>2. \A r \in Records : TupleOf(r, rows[r]) = TupleOf(r, s.rows[r])
    BY <1>3, Zenon DEF TupleOf
  <2>3. OwnersMatch(t.rows, t.owners)
    BY <1>5, <2>2 DEF Sound, OwnersMatch
  <2>4. OwnPlaces(t.rows)
    BY <1>3, <1>5 DEF Sound, OwnPlaces, Records
  <2> QED BY <1>3, <1>5, <2>1, <2>3, <2>4, Zenon DEF Sound, ValidSnapshot, Records
<1>7. Handed(s.rows, rows, n, selected, last)
  <2> HIDE DEF rows
  <2> QED BY <1>1, <1>2 DEF Handed
<1> HIDE DEF rows
<1> QED BY <1>5, <1>6, <1>7

-----------------------------------------------------------------------------
(***************************************************************************)
(* Who may end a live lease.                                               *)
(***************************************************************************)

\* The group holds an update of the record that presents its token, or is
\* administrative and does not ask that live leases are kept.
Permitted(updates, r, row) ==
    \E i \in 1..Len(updates) :
        /\ updates[i].rec = r
        /\ \/ updates[i].kind = "claimed" /\ updates[i].token = row.token
           \/ updates[i].kind = "admin" /\ updates[i].guard # "RejectActive"

\* An accepted update of a row with a live lease is one of those.
LEMMA UpdateFence ==
    ASSUME NEW u \in Update, NEW row, row.active, NEW now, ActiveLease(row, now), NEW sequence,
           u.kind # "state", Verdict(u, row, now, sequence) = "Ok"
    PROVE  \/ u.kind = "claimed" /\ u.token = row.token
           \/ u.kind = "admin" /\ u.guard # "RejectActive"
<1>0. u.kind \in {"claimed", "state", "admin", "work", "insert"}
  BY DEF Update
<1>1. CASE u.kind = "claimed"
  <2>1. ClaimedVerdict(u, row, now) = "Ok"
    BY <1>1 DEF Verdict
  <2>2. Credential(u, row, now)
    BY <2>1 DEF ClaimedVerdict
  <2> QED BY <1>1, <2>2 DEF Credential, Owns
<1>2. CASE u.kind = "admin"
  <2>1. AdminVerdict(u, row, now) = "Ok"
    BY <1>2 DEF Verdict
  <2>2. ExpectVerdict(row, u.expect) = "Ok"
    BY <2>1 DEF AdminVerdict
  <2> QED BY <1>2, <2>1, <2>2 DEF AdminVerdict
<1>3. CASE u.kind = "work"
  <2>1. WorkVerdict(u, row, now, sequence) = "Ok"
    BY <1>3 DEF Verdict
  <2>2. ExpectVerdict(row, u.expect) = "Ok"
    BY <2>1 DEF WorkVerdict
  <2> QED BY <2>1, <2>2 DEF WorkVerdict
<1>4. CASE u.kind = "insert"
  BY <1>4, Zenon DEF Verdict, InsertVerdict
<1> QED BY <1>0, <1>1, <1>2, <1>3, <1>4

\* A commit group that takes a live lease from a row is permitted to.
LEMMA PlanFence ==
    ASSUME NEW updates \in Seq(Update), WellFormed(updates), NEW s, Sound(s), NEW now,
           NEW k \in Keys, s.rows[k].active, ActiveLease(s.rows[k], now),
           PlanCommitGroup(updates, s, now).snapshot.rows[k].token # s.rows[k].token
    PROVE  Permitted(updates, k, s.rows[k])
<1> DEFINE plan == PlanCommitGroup(updates, s, now)
           n == Len(updates)
           refused == {i \in 1..n : VerdictAt(updates, i, s, now) # "Ok"}
           rows == PlannedRows(updates, s, now)
<1>0. k \in Records /\ k \notin StateKeys /\ n \in Nat
  BY PlannerAssumption, SeqElements DEF Records
<1>1. CASE refused # {} \/ UniqueConflict(s.rows, rows, s.owners)
  <2>1. plan.snapshot = s
    BY <1>1, Zenon DEF PlanCommitGroup
  <2> HIDE DEF plan
  <2> QED BY <2>1, Zenon DEF plan
<1>2. CASE refused = {} /\ ~UniqueConflict(s.rows, rows, s.owners)
  <2>1. plan.snapshot.rows = rows
    BY <1>2, Zenon DEF PlanCommitGroup
  <2>2. rows[k].token # s.rows[k].token
    <3> HIDE DEF plan, rows
    <3> QED BY <2>1, Zenon DEF plan
  <2>3. PICK i \in 1..n : updates[i].rec = k
    BY <1>0, <2>2, Zenon DEF PlannedRows
  <2>4. updates[i] \in Update /\ updates[i].kind # "state"
    BY <1>0, <2>3, Zenon DEF WellFormed
  <2>5. VerdictAt(updates, i, s, now) = "Ok"
    BY <1>2, Zenon
  <2>6. \/ updates[i].kind = "claimed" /\ updates[i].token = s.rows[k].token
        \/ updates[i].kind = "admin" /\ updates[i].guard # "RejectActive"
    BY <2>3, <2>4, <2>5, UpdateFence DEF VerdictAt
  <2> QED BY <2>3, <2>6, Zenon DEF Permitted
<1> QED BY <1>1, <1>2, Zenon

\* No item of an insert takes a live lease.
LEMMA InsertFence ==
    ASSUME NEW key \in Keys, NEW item \in Item, NEW mode, NEW s, Sound(s), NEW now,
           NEW k \in Keys, s.rows[k].active, ActiveLease(s.rows[k], now)
    PROVE  PlanInsertItem(key, item, mode, s, now).snapshot.rows[k].token = s.rows[k].token
<1> DEFINE u == InsertUpdate(key, item, mode, s.rows[key])
<1>1. u \in Update /\ WellFormed(<<u>>) /\ u.kind \in {"work", "insert"}
  BY InsertUpdateFormed
<1> HIDE DEF u
<1>2. <<u>> \in Seq(Update) /\ Len(<<u>>) = 1 /\ <<u>>[1] = u
  BY <1>1
<1>3. ~Permitted(<<u>>, k, s.rows[k])
  BY <1>1, <1>2 DEF Permitted
<1> QED BY <1>1, <1>2, <1>3, PlanFence, Zenon DEF PlanInsertItem, u

=============================================================================
