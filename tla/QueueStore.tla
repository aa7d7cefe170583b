----------------------------- MODULE QueueStore -----------------------------
(***************************************************************************)
(* The native queue store (crates/fireweed-postgres/src/queue_store.rs).    *)
(*                                                                         *)
(* insert, claim and commit each run as one database transaction that first *)
(* locks the queue's row (queue_row, SELECT ... FOR UPDATE) and keeps it    *)
(* until it commits or rolls back, so at most one transaction of a queue is *)
(* past the lock; jobs that wait for the lock have no state yet.  Between   *)
(* two statements of a transaction time passes; each item of an insert,     *)
(* each group of a commit and each claim samples the clock when it is       *)
(* planned.  A transaction may fail at any point, and a caller may lose the *)
(* answer of one that committed: callers then send the same request, or     *)
(* another one, under the same identity.                                    *)
(***************************************************************************)
EXTENDS QueuePlanner

CONSTANTS
    Ids,             \* request identities, one name space per operation
    InsertRequests,  \* [id, mode, items], items a sequence of [key, item]
    ClaimRequests,   \* [id, keys, max, order, eligibleAt, lease]
    CommitRequests,  \* sequences of groups [id, updates]
    Nil              \* no content, no value

\* What InsertRequest::validate, ClaimRequest::validate and
\* validate_commit_groups let through.
InsertRequest == [id : Ids, mode : {"InsertOnly", "Upsert"}, items : Seq([key : Keys, item : Item])]
ClaimRequest == [id : Ids, keys : SUBSET Keys, max : Nat \ {0},
                 order : {"PriorityAscending", "PriorityDescending", "ScheduledAscending"},
                 eligibleAt : I64, lease : Nat \ {0}]
Group == [id : Ids, updates : Seq(Update)]

ASSUME RequestAssumption ==
    /\ \A q \in InsertRequests :
         /\ q \in InsertRequest
         /\ q.items # << >>
         /\ \A i, j \in 1..Len(q.items) : i # j => q.items[i].key # q.items[j].key
    /\ ClaimRequests \subseteq ClaimRequest
    /\ \A q \in CommitRequests :
         /\ q \in Seq(Group)
         /\ q # << >>
         /\ \A i \in 1..Len(q) : WellFormed(q[i].updates)
         /\ \A i, j \in 1..Len(q) : i # j => q[i].id # q[j].id

VARIABLES
    db,        \* the committed rows, unique index and sequence head
    receipts,  \* the committed requests table
    op,        \* the operation whose transaction holds the queue's row
    request,   \* its request
    planned,   \* the rows, index and head as the transaction sees them
    saved,     \* the requests table as the transaction sees it
    results,   \* what it has decided: one result per item or group, one per claim
    now,       \* the operational clock
    issued,    \* how many lease tokens have been stored
    answers    \* results that were sent to callers, per request identity

tx == <<op, request, planned, saved, results>>
vars == <<db, receipts, tx, now, issued, answers>>

-----------------------------------------------------------------------------
\* Identities of the insert (0), claim (1) and commit (2) domains.
Identity == {"insert", "claim", "commit"} \X Ids

\* A row of the requests table: the content the identity is bound to and the
\* stored result.  No code path ever sets a receipt's `expired` column.
NoReceipt == [bound |-> FALSE, content |-> Nil, outcome |-> Nil]
Receipt(content, outcome) == [bound |-> TRUE, content |-> content, outcome |-> outcome]

\* What a caller is told.
Ok(value) == [status |-> "Ok", value |-> value]
Failed(status) == [status |-> status, value |-> Nil]

\* What `receipt` finds for an identity that is bound: its stored result for
\* the same content, a conflict for other content.
Replayed(receipt, content) ==
    IF receipt.content = content THEN Ok(receipt.outcome) ELSE Failed("RequestConflict")

Init ==
    /\ db = EmptySnapshot /\ planned = EmptySnapshot
    /\ receipts = [d \in Identity |-> NoReceipt] /\ saved = receipts
    /\ op = "none" /\ request = Nil /\ results = << >>
    /\ now = 0
    /\ issued = 0
    /\ answers = [d \in Identity |-> {}]

\* Time passes, whether or not a transaction is open.
Tick ==
    /\ now < MaxI64
    /\ now' = now + 1
    /\ UNCHANGED <<db, receipts, tx, issued, answers>>

\* A transaction gets the lock on the queue's row and reads the queue.
Begin(operation, content) ==
    /\ op = "none"
    /\ op' = operation
    /\ request' = content
    /\ UNCHANGED <<db, receipts, planned, saved, results, now, issued, answers>>

BeginInsert == \E q \in InsertRequests : Begin("insert", q)
BeginClaim == \E q \in ClaimRequests : Begin("claim", q)
BeginCommit == \E q \in CommitRequests : Begin("commit", q)

\* The transaction ends: its view is again the committed state.
End ==
    /\ op' = "none"
    /\ request' = Nil
    /\ results' = << >>
    /\ planned' = db'
    /\ saved' = receipts'

\* The answer that is sent to a caller.  It may get lost, and the caller may
\* send its request again in either case.  Conflicts are not kept.
Told(content, result) ==
    IF result.status = "RequestConflict" THEN {}
    ELSE {[content |-> content, status |-> result.status, value |-> result.value]}

Answer(identity, content, result) ==
    answers' = [answers EXCEPT ![identity] = @ \cup Told(content, result)]

-----------------------------------------------------------------------------
(***************************************************************************)
(* insert                                                                  *)
(***************************************************************************)
InsertIdentity == <<"insert", request.id>>

\* A bound identity is answered from its receipt, and the transaction is
\* dropped without a write.
ReplayInsert ==
    /\ op = "insert"
    /\ receipts[InsertIdentity].bound
    /\ Answer(InsertIdentity, request, Replayed(receipts[InsertIdentity], request))
    /\ UNCHANGED <<db, receipts, now, issued>>
    /\ End

InsertResult(replaced, outcome, key) ==
    IF outcome.tag = "Rejected"
    THEN [tag |-> "Rejected", key |-> key, version |-> 0, reason |-> outcome.reason]
    ELSE [tag |-> IF replaced THEN "Replaced" ELSE "Inserted", key |-> key,
          version |-> (CHOOSE rv \in outcome.versions : TRUE)[2], reason |-> "Ok"]

\* The next item of the vector; a rejected item does not stop the others.
InsertItem ==
    /\ op = "insert"
    /\ ~receipts[InsertIdentity].bound
    /\ Len(results) < Len(request.items)
    /\ LET entry == request.items[Len(results) + 1]
           plan == PlanInsertItem(entry.key, entry.item, request.mode, planned, now)
           replaced == planned.rows[entry.key].active
       IN  /\ planned' = plan.snapshot
           /\ results' = Append(results, InsertResult(replaced, plan.outcome, entry.key))
    /\ UNCHANGED <<db, receipts, op, request, saved, now, issued, answers>>

CommitInsert ==
    /\ op = "insert"
    /\ ~receipts[InsertIdentity].bound
    /\ Len(results) = Len(request.items)
    /\ db' = planned
    /\ receipts' = [receipts EXCEPT ![InsertIdentity] = Receipt(request, results)]
    /\ Answer(InsertIdentity, request, Ok(results))
    /\ UNCHANGED <<now, issued>>
    /\ End

-----------------------------------------------------------------------------
(***************************************************************************)
(* claim                                                                   *)
(***************************************************************************)
ClaimIdentity == <<"claim", request.id>>

\* The current credentials of an earlier claim: every member must still be
\* owned by the token it was claimed with.
LiveReplay(items, rows, time) ==
    \A i \in 1..Len(items) : Owns(rows[items[i].key], items[i].token, time)

ReplayClaim ==
    /\ op = "claim"
    /\ results = << >>
    /\ receipts[ClaimIdentity].bound
    /\ LET found == Replayed(receipts[ClaimIdentity], request)
       IN  Answer(ClaimIdentity, request,
                  IF found.status = "Ok" /\ ~LiveReplay(found.value, planned.rows, now)
                  THEN Failed("ClaimExpired") ELSE found)
    /\ UNCHANGED <<db, receipts, now, issued>>
    /\ End

Candidates(rows) == {k \in request.keys : Eligible(rows[k], request.eligibleAt, now)}

\* The selected keys are a prefix of the ordered candidates, no longer than
\* the caller's record limit.  Its byte budget may cut the prefix anywhere,
\* though not before its first record: that is the error TooLarge.
Selection(rows, n) ==
    {s \in [1..n -> Candidates(rows)] :
        /\ \A i, j \in 1..n : i < j => ClaimBefore(rows[s[i]], rows[s[j]], request.order, now)
        /\ \A k \in Candidates(rows) :
             (\A i \in 1..n : k # s[i]) =>
                \A i \in 1..n : ClaimBefore(rows[s[i]], rows[k], request.order, now)}

\* Selection, lease expiry and fresh tokens, planned at one sample of the
\* clock.  Tokens of a claim that rolls back are never seen by anybody, so the
\* ones that count are numbered.  Exhausted counters or an overflowing expiry
\* fail the transaction.
SelectClaim ==
    /\ op = "claim"
    /\ ~receipts[ClaimIdentity].bound
    /\ results = << >>
    /\ now + request.lease =< MaxI64
    /\ \E n \in 0..request.max : \E s \in Selection(planned.rows, n) :
         /\ n = 0 <=> Candidates(planned.rows) = {}
         /\ \A i \in 1..n : Claimable(planned.rows[s[i]])
         /\ results' = <<[i \in 1..n |-> [key |-> s[i], token |-> issued + i]]>>
         /\ planned' = [planned EXCEPT !.rows = ClaimRows(@, s, issued, now + request.lease)]
    /\ UNCHANGED <<db, receipts, op, request, saved, now, issued, answers>>

CommitClaim ==
    /\ op = "claim"
    /\ results # << >>
    /\ db' = planned
    /\ receipts' = [receipts EXCEPT ![ClaimIdentity] = Receipt(request, results[1])]
    /\ issued' = issued + Len(results[1])
    /\ Answer(ClaimIdentity, request, Ok(results[1]))
    /\ UNCHANGED now
    /\ End

-----------------------------------------------------------------------------
(***************************************************************************)
(* commit                                                                  *)
(***************************************************************************)
GroupIdentity(group) == <<"commit", group.id>>

\* The next group of the batch, in a transaction that already holds what the
\* groups before it wrote.  A bound identity is answered from its receipt; a
\* fresh group is planned and its receipt saved, committed or rejected.
SavedUnlessRejected(table, group, outcome) ==
    IF outcome.tag = "Rejected" THEN table
    ELSE [table EXCEPT ![GroupIdentity(group)] = Receipt(group, outcome)]
Saved(table, group, outcome) == [table EXCEPT ![GroupIdentity(group)] = Receipt(group, outcome)]

CommitGroup ==
    /\ op = "commit"
    /\ Len(results) < Len(request)
    /\ LET group == request[Len(results) + 1]
           known == saved[GroupIdentity(group)]
           plan == PlanCommitGroup(group.updates, planned, now)
       IN  \/ /\ known.bound
              /\ results' = Append(results, Replayed(known, group))
              /\ UNCHANGED <<planned, saved>>
           \/ /\ ~known.bound
              /\ results' = Append(results, Ok(plan.outcome))
              /\ planned' = plan.snapshot
              /\ saved' = Saved(saved, group, plan.outcome)
    /\ UNCHANGED <<db, receipts, op, request, now, issued, answers>>

\* All groups of the batch become durable together with their receipts.
CommitBatch ==
    /\ op = "commit"
    /\ Len(results) = Len(request)
    /\ db' = planned
    /\ receipts' = saved
    /\ answers' = [d \in Identity |->
         answers[d] \cup UNION {Told(request[i], results[i]) :
                                i \in {j \in 1..Len(request) : GroupIdentity(request[j]) = d}}]
    /\ UNCHANGED <<now, issued>>
    /\ End

-----------------------------------------------------------------------------
\* A storage failure, an exhausted counter or a lost connection rolls the
\* transaction back.  Its caller learns nothing.
RollbackKeepsRows ==
    /\ op # "none"
    /\ db' = planned
    /\ UNCHANGED <<receipts, now, issued, answers>>
    /\ End
Rollback ==
    /\ op # "none"
    /\ UNCHANGED <<db, receipts, now, issued, answers>>
    /\ End

Next ==
    \/ Tick
    \/ BeginInsert \/ ReplayInsert \/ InsertItem \/ CommitInsert
    \/ BeginClaim \/ ReplayClaim \/ SelectClaim \/ CommitClaim
    \/ BeginCommit \/ CommitGroup \/ CommitBatch
    \/ Rollback

Spec == Init /\ [][Next]_vars

-----------------------------------------------------------------------------
(***************************************************************************)
(* Properties.                                                             *)
(***************************************************************************)
InsertOutcome == [tag : {"Inserted", "Replaced", "Rejected"}, key : Keys, version : U64,
                  reason : Rejection \cup {"Ok"}]
ClaimItem == [key : Keys, token : Nat]
CommitResult == [status : {"Ok", "RequestConflict"}, value : GroupOutcome \cup {Nil}]

ReceiptOK(domain, receipt) ==
    /\ receipt.bound \in BOOLEAN
    /\ receipt.bound =>
         \/ domain = "insert" /\ receipt.content \in InsertRequests /\ receipt.outcome \in Seq(InsertOutcome)
         \/ domain = "claim" /\ receipt.content \in ClaimRequests /\ receipt.outcome \in Seq(ClaimItem)
         \/ domain = "commit" /\ receipt.content \in Group /\ receipt.outcome \in GroupOutcome

TablesOK ==
    /\ DOMAIN receipts = Identity /\ DOMAIN saved = Identity /\ DOMAIN answers = Identity
    /\ \A d \in Identity : ReceiptOK(d[1], receipts[d]) /\ ReceiptOK(d[1], saved[d])
TransactionOK ==
    \/ op = "none" /\ results = << >>
    \/ op = "insert" /\ request \in InsertRequests /\ results \in Seq(InsertOutcome)
    \/ op = "claim" /\ request \in ClaimRequests /\ results \in Seq(Seq(ClaimItem))
    \/ /\ op = "commit" /\ request \in CommitRequests
       /\ results \in Seq(CommitResult) /\ Len(results) =< Len(request)

\* The state has its type, and no counter or timestamp leaves its width.
TypeOK ==
    /\ db \in Snapshot /\ planned \in Snapshot
    /\ TablesOK /\ TransactionOK
    /\ now \in Time /\ issued \in Nat

\* No sequence of operations produces a row that validate_snapshot or
\* validate_raw_work_lease refuses to load: such a row would fail every later
\* operation on its record with OutcomeUnknown.
LoadableRows == \A r \in Records : Loadable(db, r) /\ Loadable(planned, r)

\* The unique index names exactly the records that hold the values: the
\* owner of a tuple is the active record with that value, so two records
\* never share one, and a released value can be taken again.
UniqueOwnership == OwnersMatch(db.rows, db.owners) /\ OwnersMatch(planned.rows, planned.owners)

\* Live work has one place in the queue: insertion sequences are distinct,
\* also within a group that inserts and replaces several records.
DistinctSequences == OwnPlaces(db.rows) /\ OwnPlaces(planned.rows)

ClaimIdentities == {"claim"} \X Ids

\* The records of which a claim's receipt holds current credentials.
Holds(d, k) ==
    /\ receipts[d].bound
    /\ \E i \in 1..Len(receipts[d].outcome) :
         /\ receipts[d].outcome[i].key = k
         /\ Owns(db.rows[k], receipts[d].outcome[i].token, now)

\* Work is leased to one claim at a time: no two claims, however they were
\* retried, hold current credentials for the same record.
OneLiveClaim ==
    \A c, d \in ClaimIdentities : \A k \in Keys : (Holds(c, k) /\ Holds(d, k)) => c = d

\* The token under which a record is held: its committed lease is current, or
\* the open transaction, behind whose lock nobody looks, renewed it in time.
Held(k) ==
    \/ ActiveLease(db.rows[k], now)
    \/ ActiveLease(planned.rows[k], now) /\ planned.rows[k].token = db.rows[k].token
Holder == [k \in Keys |-> IF Held(k) THEN db.rows[k].token ELSE 0]

Lease == INSTANCE LeaseTable WITH holder <- Holder

\* The store is a table of leases: whatever is retried, lost, renewed late or
\* rolled back, claim hands out only what nobody holds, under a new token, and
\* no commit, insert or passing of time gives a lease back that has ended.
IsLeaseTable == Lease!Spec

\* Every lease is held by somebody who can get it back: a stored token belongs
\* to the receipt of a claim, from which a caller that lost its answer is
\* given the token again.
LeasesHaveReceipts ==
    \A k \in Keys : db.rows[k].token # 0 =>
        \E d \in ClaimIdentities :
            /\ receipts[d].bound
            /\ \E i \in 1..Len(receipts[d].outcome) :
                 receipts[d].outcome[i] = [key |-> k, token |-> db.rows[k].token]

\* Every positive result sent to a caller is durable: the request is bound to
\* that content and that result, whatever was retried, lost or rolled back.
AnswersDurable ==
    \A d \in Identity : \A sent \in answers[d] :
        sent.status = "Ok" =>
            receipts[d].bound /\ receipts[d].content = sent.content /\ receipts[d].outcome = sent.value

\* A claim that was once refused as expired is never honoured again: no
\* renewal, re-claim or administrative change revives lost credentials.
RefusedClaimsStayRefused ==
    \A d \in ClaimIdentities :
        (\E sent \in answers[d] : sent.status = "ClaimExpired") => ~LiveReplay(receipts[d].outcome, db.rows, now)

\* A version never stands for two states of a record, also across deletion
\* and reinsertion: whatever changes a row raises its version.
VersionsNeverReused ==
    [][\A r \in Records : db'.rows[r] # db.rows[r] => db'.rows[r].version > db.rows[r].version]_vars

\* A receipt, once stored, never changes, and stored rows change only
\* together with a new receipt that is not a rejection.
Effective(domain, outcome) ==
    \/ domain = "insert" /\ \E i \in 1..Len(outcome) : outcome[i].tag # "Rejected"
    \/ domain = "claim" /\ outcome # << >>
    \/ domain = "commit" /\ outcome.tag = "Committed"
ReceiptsBindEffects ==
    [][/\ \A d \in Identity : receipts[d].bound => receipts'[d] = receipts[d]
       /\ db' # db => \E d \in Identity :
            ~receipts[d].bound /\ receipts'[d].bound /\ Effective(d[1], receipts'[d].outcome)]_vars

\* Completed and failed work is never handed out: it has to be made pending
\* by an administrative change, or deleted and inserted, first.
TerminalNotClaimed ==
    [][\A k \in Keys :
         (db.rows[k].active /\ db.rows[k].lifecycle \in Terminal) => db'.rows[k].lifecycle # "Leased"]_vars

\* A live lease is ended or passed on by nobody but its holder, who presents
\* the token, and an administrator who does not ask that live leases are kept.
Entitled(k) ==
    /\ op = "commit"
    /\ \E i \in 1..Len(request[Len(results) + 1].updates) :
         LET u == request[Len(results) + 1].updates[i] IN
         /\ u.rec = k
         /\ \/ u.kind = "claimed" /\ u.token = planned.rows[k].token
            \/ u.kind = "admin" /\ u.guard # "RejectActive"
LeaseFence ==
    [][op' = op => \A k \in Keys :
         (ActiveLease(planned.rows[k], now) /\ planned'.rows[k].token # planned.rows[k].token) => Entitled(k)]_vars

=============================================================================
