---------------------------- MODULE MCQueueStore ----------------------------
(***************************************************************************)
(* Instances of QueueStore for TLC: five workloads, each with its requests  *)
(* and its horizon, of which a behaviour has one.  An identity has several   *)
(* contents, so that it is retried with the same and with another one.      *)
(***************************************************************************)
EXTENDS QueueStore

CONSTANTS k1, k2, st, x1, x2

VARIABLE workload

NoPatch == [priority |-> NoChange, available |-> NoChange, uniq |-> NoChange]
PlainItem == [priority |-> 0, available |-> 0, uniq |-> NoValue]

\* One update, with the fields that do not matter for it filled in.
Plain(rec, kind, change, expect) ==
    [rec |-> rec, kind |-> kind, change |-> change, expect |-> expect, token |-> 0,
     time |-> 0, patch |-> NoPatch, guard |-> "RejectActive", item |-> PlainItem]
Claimed(rec, change, expect, token, time) ==
    [Plain(rec, "claimed", change, expect) EXCEPT !.token = token, !.time = time]
Admin(rec, change, expect, guard, available) ==
    [Plain(rec, "admin", change, expect) EXCEPT !.guard = guard, !.patch.available = available]
SetUniq(rec, expect, value) == [Plain(rec, "work", "Patch", expect) EXCEPT !.patch.uniq = value]
PutState(rec, expect, value) == [Plain(rec, "state", "Put", expect) EXCEPT !.item.uniq = value]
NewWork(rec, kind, change, expect, value) == [Plain(rec, kind, change, expect) EXCEPT !.item.uniq = value]

Entry(key, priority, available, value) ==
    [key |-> key, item |-> [priority |-> priority, available |-> available, uniq |-> value]]
Insert(id, mode, items) == [id |-> id, mode |-> mode, items |-> items]
Claim(id, keys, max, order, eligibleAt, lease) ==
    [id |-> id, keys |-> keys, max |-> max, order |-> order, eligibleAt |-> eligibleAt, lease |-> lease]
One(id, updates) == <<[id |-> id, updates |-> updates]>>

-----------------------------------------------------------------------------
(* Leases: one record and two claims, in either order.  One group ends the   *)
(* lease of the first claim in any way, one renews it later on, when that    *)
(* claim is the record's current, its former or its next owner.             *)
LeaseInsert == {Insert(1, "InsertOnly", <<Entry(k1, 0, 0, NoValue)>>)}
LeaseClaims == {Claim(i, {k1}, 1, "PriorityAscending", 1, 1) : i \in {1, 2}}
LeaseGroups ==
    {One(1, <<Claimed(k1, c, 2, 1, 2)>>) : c \in ClaimedChanges}
    \cup {One(2, <<Claimed(k1, "Renew", 3, 1, 1)>>)}

-----------------------------------------------------------------------------
(* Administration: unclaimed changes of any guard race with a claim, its     *)
(* renewal and its completion.                                              *)
AdminClaims == {Claim(1, {k1}, 1, "ScheduledAscending", 1, 1)}
AdminGroups ==
    {One(1, <<Admin(k1, c, 2, g, NoChange)>>) : c \in AdminChanges, g \in Guards}
    \cup {One(1, <<Admin(k1, "Keep", 2, "RequireActive", 1)>>)}
    \cup {One(1, <<Plain(k1, "work", c, 2)>>) : c \in {"Patch", "Delete"}}
    \cup {One(2, <<Claimed(k1, "Complete", 2, 1, 0)>>), One(2, <<Claimed(k1, "Retain", 3, 1, 0)>>)}

-----------------------------------------------------------------------------
(* The unique index: vectors that insert or replace two records, groups that *)
(* swap their values, a state record with an index of its own, and batches   *)
(* whose second group depends on the first.                                 *)
UniqueInserts ==
    {Insert(1, m, <<Entry(k1, 0, 0, x1), Entry(k2, 0, 0, y)>>) :
        m \in {"InsertOnly", "Upsert"}, y \in {x1, x2}}
    \cup {Insert(2, "Upsert", <<Entry(k2, 0, 0, x1)>>)}
Swap == <<SetUniq(k1, 1, x2), SetUniq(k2, 1, x1)>>
Release == <<SetUniq(k1, 1, NoValue)>>
UniqueBatches ==
    {One(1, Swap), One(1, <<PutState(st, 0, x1)>>),
     <<[id |-> 1, updates |-> Release], [id |-> 2, updates |-> <<NewWork(k2, "work", "Replace", 1, x1)>>]>>,
     <<[id |-> 2, updates |-> <<Plain(k1, "work", "Delete", 1)>>],
       [id |-> 1, updates |-> <<PutState(st, 1, x2), NewWork(k1, "insert", "Insert", 0, x1)>>]>>,
     One(2, <<PutState(st, 0, x1), SetUniq(k2, 1, x1)>>),
     One(2, <<Plain(st, "state", "Delete", 1), NewWork(k2, "work", "Replace", 2, x1),
              NewWork(k1, "insert", "Insert", 0, x2)>>)}

-----------------------------------------------------------------------------
(* Claims of several records: a claim loses one of its members and keeps the *)
(* other, and the byte budget cuts a claim short.                           *)
PairInsert == {Insert(1, "InsertOnly", <<Entry(k1, 1, 0, NoValue), Entry(k2, 0, 1, NoValue)>>)}
PairClaims == {Claim(1, {k1, k2}, 2, "PriorityAscending", 1, 1), Claim(1, {k2}, 1, "PriorityAscending", 0, 1),
               Claim(2, {k1, k2}, 2, "PriorityDescending", 1, 1), Claim(2, {k1, k2}, 1, "ScheduledAscending", 1, 2)}
PairGroups == {One(1, <<Claimed(k1, "Release", 2, 2, 0)>>), One(1, <<Claimed(k2, "Renew", 2, 1, 2)>>),
               One(1, <<Claimed(k1, "Renew", 2, 1, 2), Claimed(k2, "Check", 2, 2, 0)>>),
               One(1, <<Claimed(k2, "Complete", 2, 1, 0), Claimed(k1, "Retain", 2, 2, 0)>>)}

-----------------------------------------------------------------------------
(* Limits: versions, sequences, attempts and expiries reach their width.     *)
LimitInserts == {Insert(i, m, <<Entry(k1, 0, 0, NoValue)>>) : i \in {1, 2}, m \in {"Upsert"}}
LimitClaims == {Claim(i, {k1}, 1, "PriorityAscending", 1, 1) : i \in {1, 2}}
LimitGroups ==
    {One(1, <<Claimed(k1, c, 2, 1, 1)>>) : c \in {"Release", "Renew"}}
    \cup {One(1, <<Admin(k1, "Keep", 2, "InvalidateActive", 1)>>),
          One(2, <<Plain(k1, "work", "Delete", 2)>>), One(2, <<NewWork(k1, "insert", "Insert", 0, NoValue)>>)}

-----------------------------------------------------------------------------
(* The workloads together.                                                  *)
Requests ==
    [lease  |-> [insert |-> LeaseInsert, claim |-> LeaseClaims, commit |-> LeaseGroups, none |-> {Nil}],
     admin  |-> [insert |-> LeaseInsert, claim |-> AdminClaims, commit |-> AdminGroups, none |-> {Nil}],
     unique |-> [insert |-> UniqueInserts, claim |-> {}, commit |-> UniqueBatches, none |-> {Nil}],
     pair   |-> [insert |-> PairInsert, claim |-> PairClaims, commit |-> PairGroups, none |-> {Nil}],
     limits |-> [insert |-> LimitInserts, claim |-> LimitClaims, commit |-> LimitGroups, none |-> {Nil}]]
Horizon == [lease |-> 2, admin |-> 1, unique |-> 1, pair |-> 2, limits |-> 1]
Workloads == DOMAIN Requests

AllInserts == LeaseInsert \cup UniqueInserts \cup PairInsert \cup LimitInserts
AllClaims == LeaseClaims \cup AdminClaims \cup PairClaims \cup LimitClaims
AllGroups == LeaseGroups \cup AdminGroups \cup UniqueBatches \cup PairGroups \cup LimitGroups

\* The same store with integers of fewer bits.
NarrowU64 == 4
NarrowU32 == 1
NarrowI64 == 1
Narrow == INSTANCE QueueStore WITH MaxU64 <- NarrowU64, MaxU32 <- NarrowU32, MaxI64 <- NarrowI64

\* A step of the behaviour's workload.
Within ==
    /\ request' \in Requests[workload][op']
    /\ now' <= Horizon[workload]
    /\ UNCHANGED workload

WorkInit == Init /\ workload \in Workloads
WorkNext ==
    \/ workload # "limits" /\ Next /\ Within
    \/ workload = "limits" /\ Narrow!Next /\ Within
WorkSpec == WorkInit /\ [][WorkNext]_<<vars, workload>>

\* The state has its type, and no version, sequence, count of attempts or
\* timestamp that insert, claim and commit write leaves its narrow integer.
InWidth ==
    /\ TypeOK
    /\ workload = "limits" =>
         \A s \in {db, planned} :
            /\ s.sequence =< NarrowU64
            /\ \A r \in Records :
                 /\ s.rows[r].version =< NarrowU64 /\ s.rows[r].sequence =< NarrowU64
                 /\ s.rows[r].attempts =< NarrowU32
                 /\ s.rows[r].expires =< NarrowI64 /\ s.rows[r].since =< NarrowI64

=============================================================================
