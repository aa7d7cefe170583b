---------------------------- MODULE QueuePlanner ----------------------------
(***************************************************************************)
(* The shared semantic planner of a work queue: what one commit group, one  *)
(* inserted item and one claim do to the rows of a queue, as pure operators *)
(* on a snapshot (crates/fireweed-engine/src/queue_planner.rs and           *)
(* queue_claim.rs).  There are no variables here: the store that calls the  *)
(* planner under its queue fence is module QueueStore.                      *)
(*                                                                         *)
(* A snapshot has one row per record identity.  As in the store's records  *)
(* table a deleted record keeps its row, inactive, so that row.version is   *)
(* the planner's `versions` high-water mark.  Bodies and non-indexed fields *)
(* are left out; the one indexed field of a record is its `uniq` value.     *)
(***************************************************************************)
EXTENDS Integers, Sequences, FiniteSets

CONSTANTS
    Keys,          \* identities of work records
    StateKeys,     \* identities of state records (one state collection)
    Values,        \* values of the uniquely indexed field
    NoValue,       \* the field is missing: the record owns no tuple
    NoOwner,       \* no record owns the tuple
    NoChange,      \* a patch leaves the field alone
    MaxAttempts,   \* schema.max_attempts
    ProgressBound, \* schema.progress_bound_nanos / 4 * 3
    MaxU64,        \* u64::MAX, for versions and insertion sequences
    MaxU32,        \* u32::MAX, for attempts
    MaxI64         \* i64::MAX, for timestamps

U64 == 0..MaxU64
U32 == 0..MaxU32
I64 == (-MaxI64 - 1)..MaxI64
Time == 0..MaxI64  \* what the operational clock shows

ASSUME PlannerAssumption ==
    /\ Keys \cap StateKeys = {}
    /\ NoValue \notin Values
    /\ NoOwner \notin Keys \cup StateKeys
    /\ MaxAttempts \in Nat /\ ProgressBound \in Nat
    /\ MaxU64 \in Nat /\ MaxU32 \in Nat /\ MaxI64 \in Nat
    /\ NoChange \notin I64 \cup Values \cup {NoValue}

Records == Keys \cup StateKeys
Terminal == {"Completed", "Failed"}
Lifecycle == {"Pending", "Leased"} \cup Terminal

\* expires = 0 and token = 0 stand for NULL (lease_until, lease_hash): an
\* expiry is a positive time, and the tokens that are issued start at 1.
\* A token stands for its own hash.
Row == [active : BOOLEAN, version : U64, sequence : U64, lifecycle : Lifecycle,
        priority : I64, available : I64, since : I64, attempts : U32,
        expires : Time, token : Nat, uniq : Values \cup {NoValue}]

\* Tuples of the unique index, one index per collection.
Tuples == {"work", "state"} \X Values
Collection(r) == IF r \in Keys THEN "work" ELSE "state"

Snapshot == [rows : [Records -> Row],
             owners : [Tuples -> Records \cup {NoOwner}],
             sequence : U64]

\* The row of a record that is not there: the columns that persist_delta
\* writes for a deleted identity.  Version 0: never inserted.
InactiveRow(version) ==
    [active |-> FALSE, version |-> version, sequence |-> 0,
     lifecycle |-> "Pending", priority |-> 0, available |-> 0, since |-> 0,
     attempts |-> 0, expires |-> 0, token |-> 0, uniq |-> NoValue]

\* A deletion keeps the version high-water mark.
DeletedRowForgets(row) == InactiveRow(0)
DeletedRow(row) == InactiveRow(row.version + 1)

EmptySnapshot == [rows |-> [r \in Records |-> InactiveRow(0)],
                  owners |-> [t \in Tuples |-> NoOwner],
                  sequence |-> 0]

Larger(a, b) == IF a > b THEN a ELSE b

-----------------------------------------------------------------------------
(***************************************************************************)
(* Leases.                                                                 *)
(***************************************************************************)

\* A lease that is current at `now`.  Expiry is lazy: an expired lease stays
\* in the row, Leased, until the next operation on the row.
ActiveLease(row, now) == row.lifecycle = "Leased" /\ row.expires > now

\* ClaimOwnership::validate, and the credential test of a claimed update.
Owns(row, token, now) == row.active /\ ActiveLease(row, now) /\ row.token = token

\* validate_raw_work_lease: the lease columns are set exactly for leased rows.
ValidLease(row) ==
    /\ (row.lifecycle = "Leased") <=> (row.expires # 0)
    /\ (row.lifecycle = "Leased") <=> (row.token # 0)

\* validate_snapshot: what a row must be like for any operation to load it.
Loadable(snapshot, r) ==
    LET row == snapshot.rows[r] IN
    /\ ValidLease(row)
    /\ row.active => row.version # 0
    /\ (row.active /\ r \in Keys) => row.sequence \in 1..snapshot.sequence

ClearLeaseKeepsExpiry(row) == [row EXCEPT !.token = 0]
ClearLease(row) == [row EXCEPT !.expires = 0, !.token = 0]

ClearUnlessLeased(row) == IF row.lifecycle = "Leased" THEN row ELSE ClearLease(row)

-----------------------------------------------------------------------------
(***************************************************************************)
(* The updates of a commit group.  An update is a record with the fields    *)
(*   rec     the record it addresses                                       *)
(*   kind    the vector of the group it comes from                         *)
(*   change  what it asks for                                              *)
(*   expect  the expected version; 0 stands for Absent                     *)
(*   token   the presented lease token (claimed updates)                   *)
(*   time    the time of RetryAt, the duration of a renewing Retain        *)
(*   patch   [priority, available, uniq], each a value or NoChange         *)
(*   guard   the administrative lease guard                                *)
(*   item    the new work of an insert or a replacement, the state of Put  *)
(***************************************************************************)

ClaimedChanges == {"Complete", "Fail", "Release", "RetryAt", "Renew", "Retain", "Delete", "Check"}
StateChanges == {"Put", "Delete", "Check"}
AdminChanges == {"Keep", "Pending", "Completed", "Failed"}
WorkChanges == {"Patch", "Replace", "Delete"}
Guards == {"RejectActive", "RequireActive", "InvalidateActive"}

Patch == [priority : I64 \cup {NoChange}, available : I64 \cup {NoChange},
          uniq : Values \cup {NoValue, NoChange}]
Item == [priority : I64, available : I64, uniq : Values \cup {NoValue}]

Update ==
    [rec : Records, kind : {"claimed", "state", "admin", "work", "insert"},
     change : ClaimedChanges \cup StateChanges \cup AdminChanges \cup WorkChanges \cup {"Insert"},
     expect : U64, token : Nat, time : I64, patch : Patch, guard : Guards, item : Item]

\* The vectors of a group in the order apply_group takes them.
Phase(u) == CASE u.kind = "claimed" -> 1
              [] u.kind = "state" -> 2
              [] u.kind \in {"work", "admin"} -> 3
              [] u.kind = "insert" -> 4

ChangesOf(kind) == CASE kind = "claimed" -> ClaimedChanges
                     [] kind = "state" -> StateChanges
                     [] kind = "admin" -> AdminChanges
                     [] kind = "work" -> WorkChanges
                     [] kind = "insert" -> {"Insert"}

\* What validate_commit_groups lets through: at least one update, no record
\* twice, a claimed update carries a credential, an unclaimed one a version.
\* The updates are listed in the order in which they are applied.
WellFormed(updates) ==
    /\ updates # << >>
    /\ \A i \in 1..Len(updates) :
         LET u == updates[i] IN
         /\ u \in Update
         /\ u.change \in ChangesOf(u.kind)
         /\ (u.kind = "state") <=> (u.rec \in StateKeys)
         /\ u.kind = "claimed" => u.token # 0 /\ u.expect # 0
         /\ u.kind \in {"work", "admin"} => u.expect # 0
         /\ u.change = "Renew" => u.time > 0
         /\ (u.change = "RetryAt" /\ u.patch.available # NoChange) => u.patch.available = u.time
         /\ \A j \in 1..Len(updates) : i < j => /\ u.rec # updates[j].rec
                                                /\ Phase(u) =< Phase(updates[j])

Patched(old, new) == IF new = NoChange THEN old ELSE new

\* patch_work: the eligible age is kept.
PatchWork(row, patch) ==
    [row EXCEPT !.priority = Patched(@, patch.priority),
                !.available = Patched(@, patch.available),
                !.uniq = Patched(@, patch.uniq)]

\* next_version is the row's version plus one, which must not overflow.
VersionExhausted(row) == row.version >= MaxU64

ExpectVerdict(row, expect) ==
    CASE ~row.active /\ expect = 0 -> "Ok"
      [] row.active /\ expect = 0 -> "AlreadyExists"
      [] ~row.active /\ expect # 0 -> "NotFound"
      [] OTHER -> IF row.version = expect THEN "Ok" ELSE "VersionConflict"

\* The credential of a claimed update is current.
CredentialIgnoresExpiry(u, row, now) == row.lifecycle = "Leased" /\ row.token = u.token
Credential(u, row, now) == Owns(row, u.token, now)

\* A claimed update: the credential is tested before the version, and a
\* renewal fails when its expiry overflows.
ClaimedVerdict(u, row, now) ==
    CASE ~row.active -> "NotFound"
      [] row.active /\ ~Credential(u, row, now) -> "StaleLease"
      [] OTHER -> IF row.version # u.expect THEN "VersionConflict"
                  ELSE IF u.change # "Check"
                          /\ (VersionExhausted(row) \/ (u.change = "Renew" /\ now + u.time > MaxI64))
                       THEN "Invalid" ELSE "Ok"

ClaimedRow(u, row, now) ==
    LET patched == [PatchWork(row, u.patch) EXCEPT !.version = @ + 1]
        retried == IF row.attempts >= MaxAttempts
                   THEN [patched EXCEPT !.lifecycle = "Failed"]
                   ELSE [patched EXCEPT !.lifecycle = "Pending", !.available = u.time, !.since = u.time]
    IN  CASE u.change = "Check" -> row
          [] u.change = "Delete" -> DeletedRow(row)
          [] u.change = "Complete" -> ClearLease([patched EXCEPT !.lifecycle = "Completed"])
          [] u.change = "Fail" -> ClearLease([patched EXCEPT !.lifecycle = "Failed"])
          [] u.change = "Release" -> ClearLease([patched EXCEPT !.lifecycle = "Pending"])
          [] u.change = "RetryAt" -> ClearLease(retried)
          [] u.change = "Renew" -> [patched EXCEPT !.expires = now + u.time]
          [] OTHER -> patched

\* A compare-and-set on a state record.
StateVerdict(u, row) ==
    LET expected == ExpectVerdict(row, u.expect)
    IN  IF expected = "Ok" /\ u.change # "Check" /\ VersionExhausted(row)
        THEN "Invalid" ELSE expected

StateRow(u, row) ==
    CASE u.change = "Check" -> row
      [] u.change = "Delete" -> DeletedRow(row)
      [] OTHER -> [InactiveRow(row.version + 1) EXCEPT !.active = TRUE, !.uniq = u.item.uniq]

FreshWork(version, item, sequence, now) ==
    [InactiveRow(version) EXCEPT
        !.active = TRUE, !.sequence = sequence, !.priority = item.priority,
        !.available = item.available, !.since = Larger(now, item.available), !.uniq = item.uniq]

\* An unclaimed update may not touch a live lease; a replacement is refused
\* for every stored lease, expired or not, and for terminal work.
WorkVerdict(u, row, now, sequence) ==
    LET expected == IF row.active THEN ExpectVerdict(row, u.expect) ELSE "NotFound" IN
    CASE expected # "Ok" -> expected
      [] expected = "Ok" /\ ActiveLease(row, now) -> "Leased"
      [] OTHER -> IF VersionExhausted(row) THEN "Invalid"
                  ELSE IF u.change # "Replace" THEN "Ok"
                  ELSE IF row.lifecycle \in Terminal THEN "Terminal"
                  ELSE IF row.lifecycle = "Leased" THEN "Leased"
                  ELSE IF sequence > MaxU64 THEN "Invalid" ELSE "Ok"

WorkRow(u, row, now, sequence) ==
    CASE u.change = "Delete" -> DeletedRow(row)
      [] u.change = "Replace" -> FreshWork(row.version + 1, u.item, sequence, now)
      [] OTHER ->
           LET reclaimed == IF row.lifecycle = "Leased"
                            THEN ClearLease([row EXCEPT !.lifecycle = "Pending"]) ELSE row
           IN  [PatchWork(reclaimed, u.patch) EXCEPT !.version = @ + 1]

\* apply_administrative_update, before the version is set.
AdminTarget(u, row) ==
    IF u.change = "Keep"
    THEN IF row.lifecycle = "Leased" /\ u.guard = "InvalidateActive" THEN "Pending" ELSE row.lifecycle
    ELSE u.change

AdminEffect(u, row, now) ==
    LET target == AdminTarget(u, row)
        moved == [PatchWork(row, u.patch) EXCEPT !.lifecycle = target]
        rearmed == /\ target = "Pending"
                   /\ row.lifecycle # "Pending" \/ row.available # moved.available
    IN  ClearUnlessLeased(
          IF rearmed THEN [moved EXCEPT !.since = Larger(now, moved.available)] ELSE moved)

AdminVerdictUnguarded(u, row, now) ==
    LET expected == IF row.active THEN ExpectVerdict(row, u.expect) ELSE "NotFound" IN
    CASE expected # "Ok" -> expected
      [] expected = "Ok" /\ u.guard = "RequireActive" /\ ~ActiveLease(row, now) -> "StaleLease"
      [] OTHER -> "Ok"
AdminVerdict(u, row, now) ==
    LET expected == IF row.active THEN ExpectVerdict(row, u.expect) ELSE "NotFound" IN
    CASE expected # "Ok" -> expected
      [] expected = "Ok" /\ u.guard = "RejectActive" /\ ActiveLease(row, now) -> "Leased"
      [] expected = "Ok" /\ u.guard = "RequireActive" /\ ~ActiveLease(row, now) -> "StaleLease"
      [] OTHER -> IF row.lifecycle \in Terminal /\ u.change \in Terminal THEN "Terminal"
                  ELSE IF AdminEffect(u, row, now) # row /\ VersionExhausted(row) THEN "Invalid"
                  ELSE "Ok"

\* Only an effective change advances the version.
AdminRow(u, row, now) ==
    LET effect == AdminEffect(u, row, now)
    IN  IF effect = row THEN row ELSE [effect EXCEPT !.version = @ + 1]

InsertVerdict(row, sequence) ==
    IF row.active THEN "AlreadyExists"
    ELSE IF VersionExhausted(row) \/ sequence > MaxU64 THEN "Invalid" ELSE "Ok"

Verdict(u, row, now, sequence) ==
    CASE u.kind = "claimed" -> ClaimedVerdict(u, row, now)
      [] u.kind = "state" -> StateVerdict(u, row)
      [] u.kind = "admin" -> AdminVerdict(u, row, now)
      [] u.kind = "work" -> WorkVerdict(u, row, now, sequence)
      [] u.kind = "insert" -> InsertVerdict(row, sequence)

UpdatedRow(u, row, now, sequence) ==
    CASE u.kind = "claimed" -> ClaimedRow(u, row, now)
      [] u.kind = "state" -> StateRow(u, row)
      [] u.kind = "admin" -> AdminRow(u, row, now)
      [] u.kind = "work" -> WorkRow(u, row, now, sequence)
      [] u.kind = "insert" -> FreshWork(row.version + 1, u.item, sequence, now)

-----------------------------------------------------------------------------
(***************************************************************************)
(* The unique index.  A record owns the tuple of its value; a missing value *)
(* owns nothing.  A group's effect on the index is the difference between   *)
(* the rows before and after it, so two records may swap their values.      *)
(***************************************************************************)
TupleOf(r, row) == IF row.active /\ row.uniq # NoValue THEN {<<Collection(r), row.uniq>>} ELSE {}

\* The index names the record that holds a tuple.
OwnersMatch(rows, owners) ==
    \A t \in Tuples : \A r \in Records : (owners[t] = r) <=> (t \in TupleOf(r, rows[r]))

Releases(r, old, new) == TupleOf(r, old) \ TupleOf(r, new)
Claims(r, old, new) == TupleOf(r, new) \ TupleOf(r, old)

\* UniqueFieldEffects::validate: nobody else in the group claims the tuple,
\* and its owner, if it has one, is the claimant or releases it.
UniqueConflict(old, new, owners) ==
    \E r \in Records : \E t \in Claims(r, old[r], new[r]) :
        \/ \E q \in Records \ {r} : t \in Claims(q, old[q], new[q])
        \/ /\ owners[t] \notin {NoOwner, r}
           /\ t \notin Releases(owners[t], old[owners[t]], new[owners[t]])

\* merge_delta: the released tuples go, then the claimed ones are added.
MergedOwnersKeepReleased(old, new, owners) ==
    [t \in Tuples |->
        IF \E r \in Records : t \in Claims(r, old[r], new[r])
        THEN CHOOSE r \in Records : t \in Claims(r, old[r], new[r])
        ELSE owners[t]]
MergedOwners(old, new, owners) ==
    [t \in Tuples |->
        IF \E r \in Records : t \in Claims(r, old[r], new[r])
        THEN CHOOSE r \in Records : t \in Claims(r, old[r], new[r])
        ELSE IF \E r \in Records : t \in Releases(r, old[r], new[r]) THEN NoOwner
        ELSE owners[t]]

-----------------------------------------------------------------------------
(***************************************************************************)
(* plan_commit_group: all of the group's updates or none.                   *)
(***************************************************************************)

\* Inserts and replacements draw the next insertion sequences, in order.
Draws(u) == u.change \in {"Insert", "Replace"}

SequenceAtShared(updates, i, head) == IF \E j \in 1..i : Draws(updates[j]) THEN head + 1 ELSE head
SequenceAt(updates, i, head) == head + Cardinality({j \in 1..i : Draws(updates[j])})

\* Live work has a place of its own in the queue.
OwnPlaces(rows) ==
    \A j, k \in Keys : (j # k /\ rows[j].active /\ rows[k].active) => rows[j].sequence # rows[k].sequence

VerdictAt(updates, i, snapshot, now) ==
    Verdict(updates[i], snapshot.rows[updates[i].rec], now,
            SequenceAt(updates, i, snapshot.sequence))

\* The rows after the group.  No record is addressed twice, so each update
\* sees its row as the group found it.
PlannedRows(updates, snapshot, now) ==
    [r \in Records |->
        IF \E i \in 1..Len(updates) : updates[i].rec = r
        THEN LET i == CHOOSE i \in 1..Len(updates) : updates[i].rec = r
             IN  UpdatedRow(updates[i], snapshot.rows[r], now,
                            SequenceAt(updates, i, snapshot.sequence))
        ELSE snapshot.rows[r]]

\* The receipt of a group: the versions of the records it modified, or the
\* reason for which it was rejected.
Rejection == {"StaleLease", "VersionConflict", "AlreadyExists", "NotFound", "Leased", "Invalid",
              "UniqueConflict", "Terminal"}
GroupOutcome == [tag : {"Committed", "Rejected"}, versions : SUBSET (Records \X U64),
                 reason : Rejection \cup {"Ok"}]
Committed(versions) == [tag |-> "Committed", versions |-> versions, reason |-> "Ok"]
Rejected(reason) == [tag |-> "Rejected", versions |-> {}, reason |-> reason]

PlanCommitGroup(updates, snapshot, now) ==
    LET refused == {i \in 1..Len(updates) : VerdictAt(updates, i, snapshot, now) # "Ok"}
        first == CHOOSE i \in refused : \A j \in refused : i =< j
        rows == PlannedRows(updates, snapshot, now)
        modified == {updates[i].rec : i \in {j \in 1..Len(updates) : updates[j].change # "Check"}}
    IN  IF refused # {}
        THEN [snapshot |-> snapshot, outcome |-> Rejected(VerdictAt(updates, first, snapshot, now))]
        ELSE IF UniqueConflict(snapshot.rows, rows, snapshot.owners)
        THEN [snapshot |-> snapshot, outcome |-> Rejected("UniqueConflict")]
        ELSE [snapshot |->
                [rows |-> rows,
                 owners |-> MergedOwners(snapshot.rows, rows, snapshot.owners),
                 sequence |-> SequenceAt(updates, Len(updates), snapshot.sequence)],
              outcome |-> Committed({<<r, rows[r].version>> : r \in modified})]

\* plan_insert_vector, for one item of the vector: in Upsert mode a present
\* record is replaced at the version just read, otherwise it is inserted.
InsertUpdate(key, item, mode, row) ==
    LET upsert == mode = "Upsert" /\ row.active IN
    [rec |-> key, kind |-> IF upsert THEN "work" ELSE "insert",
     change |-> IF upsert THEN "Replace" ELSE "Insert",
     expect |-> IF upsert THEN row.version ELSE 0, token |-> 0, time |-> 0,
     patch |-> [priority |-> NoChange, available |-> NoChange, uniq |-> NoChange],
     guard |-> "RejectActive", item |-> item]

PlanInsertItem(key, item, mode, snapshot, now) ==
    PlanCommitGroup(<<InsertUpdate(key, item, mode, snapshot.rows[key])>>, snapshot, now)

-----------------------------------------------------------------------------
(***************************************************************************)
(* Claims.                                                                 *)
(***************************************************************************)

\* The rows the claim query selects: pending work, or work whose lease has
\* expired, that is due at the caller's eligible_at and passes the filter.
EligibleThoughLeased(row, eligibleAt, now) ==
    row.active /\ row.lifecycle \notin Terminal /\ row.available =< eligibleAt
Eligible(row, eligibleAt, now) ==
    /\ row.active
    /\ row.lifecycle = "Pending" \/ (row.lifecycle = "Leased" /\ row.expires =< now)
    /\ row.available =< eligibleAt

\* ORDER BY of the claim query.  Work that has waited three quarters of the
\* progress bound comes first, by age; then the order asked for; then the
\* insertion sequence.
Overdue(row, now) == row.since + ProgressBound =< now

RequestedOrder(a, b, order) ==
    CASE order = "PriorityAscending" -> a.priority - b.priority
      [] order = "PriorityDescending" -> b.priority - a.priority
      [] order = "ScheduledAscending" -> a.available - b.available

ClaimBefore(a, b, order, now) ==
    LET asked == RequestedOrder(a, b, order)
        tie == asked < 0 \/ (asked = 0 /\ a.sequence < b.sequence)
    IN  IF Overdue(a, now)
        THEN ~Overdue(b, now) \/ a.since < b.since \/ (a.since = b.since /\ tie)
        ELSE ~Overdue(b, now) /\ tie

\* plan_claim_metadata refuses work whose counters are exhausted.
ClaimableUnchecked(row) == row.version < MaxU64
Claimable(row) == row.version < MaxU64 /\ row.attempts < MaxU32

PlanClaim(row, token, expires) ==
    [row EXCEPT !.version = @ + 1, !.attempts = @ + 1, !.lifecycle = "Leased",
                !.expires = expires, !.token = token]

\* The rows after the selected keys are claimed, the i-th with the i-th token
\* after `last`.
ClaimRows(rows, selected, last, expires) ==
    [r \in Records |->
        IF \E i \in DOMAIN selected : selected[i] = r
        THEN PlanClaim(rows[r], last + (CHOOSE i \in DOMAIN selected : selected[i] = r), expires)
        ELSE rows[r]]

=============================================================================
