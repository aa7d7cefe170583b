------------------------- MODULE QueueStoreProofs --------------------------
(***************************************************************************)
(* The safety properties of QueueStore, for every set of records, values,   *)
(* identities and requests and every width of the counters: the shape of    *)
(* what is stored first, receipts and leases after it.                      *)
(***************************************************************************)
EXTENDS QueueStore, QueuePlannerProofs

-----------------------------------------------------------------------------
(***************************************************************************)
(* The state and the shape of a transaction.                               *)
(***************************************************************************)

\* What a transaction sees until it has planned something: the committed
\* rows, and the committed receipts unless it is a commit.
View ==
    /\ op = "none" => planned = db
    /\ op # "commit" => saved = receipts
    /\ (op \in {"insert", "claim"} /\ results = << >>) => planned = db
    /\ (op = "claim" /\ results # << >>) => Len(results) = 1 /\ ~receipts[ClaimIdentity].bound

\* Inductive: what the store reads back is what the planner accepts.
Shape ==
    /\ Sound(db) /\ Sound(planned)
    /\ TablesOK /\ TransactionOK /\ View
    /\ now \in Time /\ issued \in Nat

\* An element of a sequence has the type of its elements.
LEMMA ElementType == ASSUME NEW S, NEW s \in Seq(S), NEW i \in 1..Len(s) PROVE s[i] \in S
  OBVIOUS

\* A result list that is shorter than the request names the next element.
LEMMA NextIndex ==
    ASSUME NEW S, NEW s \in Seq(S), NEW T, NEW t \in Seq(T), Len(t) < Len(s)
    PROVE  Len(t) + 1 \in 1..Len(s)
<1>1. Len(t) \in Nat /\ Len(s) \in Nat
  OBVIOUS
<1> QED BY <1>1

\* The empty queue is sound.
LEMMA EmptySound == Sound(EmptySnapshot)
<1> DEFINE s == EmptySnapshot
<1>1. 0 \in U64 /\ InactiveRow(0) \in Row
  BY ConstantTypes, InactiveRowType, Zenon DEF U64
<1>2. s \in Snapshot
  BY <1>1 DEF EmptySnapshot, Snapshot
<1>3. \A r \in Records : s.rows[r] = InactiveRow(0)
  BY DEF EmptySnapshot
<1>4. /\ InactiveRow(0).active = FALSE /\ InactiveRow(0).lifecycle = "Pending"
      /\ InactiveRow(0).expires = 0 /\ InactiveRow(0).token = 0
  BY Zenon DEF InactiveRow
<1>5. ValidSnapshot(s)
  <2> HIDE DEF s
  <2> QED BY <1>2, <1>3, <1>4, Zenon DEF ValidSnapshot, Loadable, ValidLease, Records
<1>6. OwnersMatch(s.rows, s.owners)
  <2>1. \A t \in Tuples : s.owners[t] = NoOwner
    BY DEF EmptySnapshot
  <2> HIDE DEF s
  <2> QED BY <2>1, <1>3, <1>4, PlannerAssumption, Zenon DEF OwnersMatch, TupleOf, Records
<1>7. OwnPlaces(s.rows)
  <2> HIDE DEF s
  <2> QED BY <1>3, <1>4, Zenon DEF OwnPlaces, Records
<1> QED BY <1>5, <1>6, <1>7, Zenon DEF Sound

\* A new receipt of the right kind keeps the table well typed.
LEMMA TableUpdate ==
    ASSUME NEW table, DOMAIN table = Identity, \A d \in Identity : ReceiptOK(d[1], table[d]),
           NEW domain, NEW id, <<domain, id>> \in Identity, NEW content, NEW outcome,
           ReceiptOK(domain, Receipt(content, outcome))
    PROVE  LET new == [table EXCEPT ![<<domain, id>>] = Receipt(content, outcome)] IN
           /\ DOMAIN new = Identity
           /\ \A d \in Identity : ReceiptOK(d[1], new[d])
           /\ new[<<domain, id>>] = Receipt(content, outcome)
           /\ \A d \in Identity : d # <<domain, id>> => new[d] = table[d]
<1> DEFINE D == <<domain, id>>
<1>1. D[1] = domain
  OBVIOUS
<1> HIDE DEF D
<1> QED BY <1>1, Zenon DEF D

\* The empty queue has the shape.
LEMMA ShapeInit == Init => Shape
<1> SUFFICES ASSUME Init PROVE Shape
  OBVIOUS
<1>1. Sound(db) /\ Sound(planned)
  BY EmptySound DEF Init
<1>2. TablesOK
  <2>1. NoReceipt.bound = FALSE
    BY DEF NoReceipt
  <2> QED BY <2>1, Zenon DEF Init, TablesOK, ReceiptOK
<1>3. TransactionOK /\ View
  BY DEF Init, TransactionOK, View
<1>4. now \in Time /\ issued \in Nat
  BY ConstantTypes, Zenon DEF Init, Time
<1> QED BY <1>1, <1>2, <1>3, <1>4, Zenon DEF Shape

\* The transaction ends with what is committed.
LEMMA ShapeEnd ==
    ASSUME Shape, End, Sound(db'), DOMAIN receipts' = Identity, DOMAIN answers' = Identity,
           \A d \in Identity : ReceiptOK(d[1], receipts'[d]),
           now' \in Time, issued' \in Nat
    PROVE  Shape'
<1>1. TablesOK'
  BY DEF End, TablesOK
<1>2. TransactionOK' /\ View'
  BY DEF End, TransactionOK, View
<1> QED BY <1>1, <1>2, Zenon DEF Shape, End

\* Every step keeps the shape.
LEMMA ShapeNext == Shape /\ [Next]_vars => Shape'
<1> SUFFICES ASSUME Shape, [Next]_vars PROVE Shape'
  OBVIOUS
<1>0. /\ DOMAIN receipts = Identity /\ DOMAIN answers = Identity
      /\ \A d \in Identity : ReceiptOK(d[1], receipts[d])
  BY Zenon DEF Shape, TablesOK
<1>1. CASE Tick
  <2>1. now' \in Time
    <3>1. now \in Time /\ now < MaxI64 /\ now' = now + 1
      BY <1>1, Zenon DEF Tick, Shape
    <3> QED BY <3>1, PlannerAssumption DEF Time
  <2> QED BY <1>1, <2>1, Zenon DEF Tick, Shape, tx, TablesOK, TransactionOK, View, ClaimIdentity
<1>2. ASSUME NEW operation, NEW content, Begin(operation, content),
             \/ operation = "insert" /\ content \in InsertRequests
             \/ operation = "claim" /\ content \in ClaimRequests
             \/ operation = "commit" /\ content \in CommitRequests
      PROVE  Shape'
  <2>0. results = << >> /\ op = "none" /\ planned = db /\ saved = receipts
    BY <1>2, Zenon DEF Begin, Shape, TransactionOK, View
  <2>1. TransactionOK'
    <3>1. content \in CommitRequests => Len(content) \in Nat
      BY RequestAssumption
    <3> QED BY <1>2, <2>0, <3>1 DEF Begin, TransactionOK
  <2>2. View'
    BY <1>2, <2>0, Zenon DEF Begin, View
  <2> QED BY <1>2, <2>1, <2>2, Zenon DEF Begin, Shape, TablesOK
<1>3. CASE BeginInsert \/ BeginClaim \/ BeginCommit
  BY <1>2, <1>3, Zenon DEF BeginInsert, BeginClaim, BeginCommit
<1>4. CASE ReplayInsert
  <2>1. DOMAIN answers' = Identity
    BY <1>0, <1>4, Zenon DEF ReplayInsert, Answer
  <2>2. End /\ UNCHANGED <<db, receipts, now, issued>>
    BY <1>4, Zenon DEF ReplayInsert
  <2> QED BY <1>0, <2>1, <2>2, ShapeEnd, Zenon DEF Shape
<1>5. CASE ReplayClaim
  <2>1. DOMAIN answers' = Identity
    BY <1>0, <1>5, Zenon DEF ReplayClaim, Answer
  <2>2. End /\ UNCHANGED <<db, receipts, now, issued>>
    BY <1>5, Zenon DEF ReplayClaim
  <2> QED BY <1>0, <2>1, <2>2, ShapeEnd DEF Shape
<1>6. CASE Rollback
  <2>1. End /\ UNCHANGED <<db, receipts, now, issued, answers>>
    BY <1>6, Zenon DEF Rollback
  <2> QED BY <1>0, <2>1, ShapeEnd, Zenon DEF Shape
<1>7. CASE InsertItem
  <2> DEFINE entry == request.items[Len(results) + 1]
             plan == PlanInsertItem(entry.key, entry.item, request.mode, planned, now)
             outcome == plan.outcome
             result == InsertResult(planned.rows[entry.key].active, outcome, entry.key)
  <2>1. request \in InsertRequests /\ results \in Seq(InsertOutcome) /\ op = "insert"
    BY <1>7, Zenon DEF InsertItem, Shape, TransactionOK
  <2>2. entry.key \in Keys /\ entry.item \in Item
    <3>1. request.items \in Seq([key : Keys, item : Item])
      BY <2>1, RequestAssumption, Zenon DEF InsertRequest
    <3>2. Len(results) + 1 \in 1..Len(request.items)
      <4>1. Len(results) < Len(request.items)
        BY <1>7 DEF InsertItem
      <4> HIDE DEF entry
      <4> QED BY <4>1, <2>1, <3>1, NextIndex, Zenon
    <3>3. entry \in [key : Keys, item : Item]
      BY <3>1, <3>2, ElementType, Zenon
    <3> HIDE DEF entry
    <3> QED BY <3>3
  <2>3. planned' = plan.snapshot /\ results' = Append(results, result)
        /\ UNCHANGED <<db, receipts, op, request, saved, now, issued, answers>>
    BY <1>7 DEF InsertItem
  <2> HIDE DEF entry
  <2>4. /\ Sound(plan.snapshot) /\ outcome \in GroupOutcome
        /\ outcome.tag = "Rejected" \/ outcome.versions # {}
    BY <2>2, InsertItemStep, Zenon DEF Shape
  <2>5. result \in InsertOutcome
    <3> HIDE DEF plan, outcome
    <3>1. CASE outcome.tag = "Rejected"
      BY <2>2, <2>4, <3>1, ConstantTypes, Zenon DEF InsertResult, InsertOutcome, GroupOutcome, U64
    <3>2. CASE outcome.tag # "Rejected"
      <4>1. (CHOOSE rv \in outcome.versions : TRUE) \in Records \X U64
        BY <2>4, <3>2, Zenon DEF GroupOutcome
      <4>2. (CHOOSE rv \in outcome.versions : TRUE)[2] \in U64
        BY <4>1
      <4> QED BY <2>2, <3>2, <4>2, Zenon DEF InsertResult, InsertOutcome
    <3> QED BY <3>1, <3>2, Zenon
  <2> HIDE DEF plan, outcome, result
  <2>6. results' \in Seq(InsertOutcome) /\ results' # << >>
    BY <2>1, <2>3, <2>5
  <2>7. TransactionOK' /\ View'
    BY <2>1, <2>3, <2>6, Zenon DEF TransactionOK, View, Shape
  <2>8. TablesOK'
    BY <2>3, Zenon DEF TablesOK, Shape
  <2> QED BY <2>3, <2>4, <2>7, <2>8, Zenon DEF Shape
<1>8. CASE CommitInsert
  <2>1. /\ request \in InsertRequests /\ results \in Seq(InsertOutcome)
        /\ receipts' = [receipts EXCEPT ![InsertIdentity] = Receipt(request, results)]
        /\ End /\ db' = planned /\ now' = now /\ issued' = issued
    BY <1>8, Zenon DEF CommitInsert, Shape, TransactionOK
  <2>2. InsertIdentity \in Identity
    BY <2>1, RequestAssumption, Zenon DEF InsertIdentity, InsertRequest, Identity
  <2>3. ReceiptOK("insert", Receipt(request, results))
    BY <2>1, Zenon DEF ReceiptOK, Receipt
  <2>4. DOMAIN receipts' = Identity /\ \A d \in Identity : ReceiptOK(d[1], receipts'[d])
    BY <1>0, <2>1, <2>2, <2>3, TableUpdate, Zenon DEF InsertIdentity
  <2>5. DOMAIN answers' = Identity
    BY <1>0, <1>8, Zenon DEF CommitInsert, Answer
  <2> QED BY <2>1, <2>4, <2>5, ShapeEnd, Zenon DEF Shape
<1>9. CASE SelectClaim
  <2>1. /\ request \in ClaimRequests /\ op = "claim" /\ results = << >> /\ planned = db
        /\ ~receipts[ClaimIdentity].bound
    BY <1>9, Zenon DEF SelectClaim, Shape, TransactionOK, View
  <2>2. request.keys \subseteq Keys /\ request.max \in Nat /\ request.lease \in Nat /\ request.lease # 0
    BY <2>1, RequestAssumption, Zenon DEF ClaimRequest
  <2>3. PICK n \in 0..request.max : \E s \in Selection(planned.rows, n) :
          /\ \A i \in 1..n : Claimable(planned.rows[s[i]])
          /\ results' = <<[i \in 1..n |-> [key |-> s[i], token |-> issued + i]]>>
          /\ planned' = [planned EXCEPT !.rows = ClaimRows(@, s, issued, now + request.lease)]
    BY <1>9, Zenon DEF SelectClaim
  <2>4. PICK s \in Selection(planned.rows, n) :
          /\ \A i \in 1..n : Claimable(planned.rows[s[i]])
          /\ results' = <<[i \in 1..n |-> [key |-> s[i], token |-> issued + i]]>>
          /\ planned' = [planned EXCEPT !.rows = ClaimRows(@, s, issued, now + request.lease)]
    BY <2>3, Zenon
  <2>5. /\ n \in Nat
        /\ s \in [1..n -> Keys] /\ \A i \in 1..n : planned.rows[s[i]].active
    BY <2>2, <2>3, <2>4 DEF Selection, Candidates, Eligible
  <2>6. now + request.lease \in Time /\ now + request.lease # 0
    BY <1>9, <2>2 DEF SelectClaim, Shape, Time
  <2>7. Sound(planned')
    BY <2>4, <2>5, <2>6, ClaimRowsStep, Zenon DEF Shape
  <2>8. results' \in Seq(Seq(ClaimItem)) /\ Len(results') = 1 /\ results' # << >>
    <3>1. [i \in 1..n |-> [key |-> s[i], token |-> issued + i]] \in Seq(ClaimItem)
      <4>1. \A i \in 1..n : [key |-> s[i], token |-> issued + i] \in ClaimItem
        BY <2>5 DEF ClaimItem, Shape
      <4> QED BY <2>5, <4>1
    <3> DEFINE items == [i \in 1..n |-> [key |-> s[i], token |-> issued + i]]
    <3>2. results' = <<items>> /\ items \in Seq(ClaimItem)
      BY <2>4, <3>1, Zenon
    <3> HIDE DEF items
    <3> QED BY <3>2
  <2>9. UNCHANGED <<db, receipts, op, request, saved, now, issued, answers>>
    BY <1>9, Zenon DEF SelectClaim
  <2>10. TransactionOK' /\ View'
    BY <2>1, <2>8, <2>9, Zenon DEF TransactionOK, View, Shape, ClaimIdentity
  <2>11. TablesOK'
    BY <2>9, Zenon DEF TablesOK, Shape
  <2> QED BY <2>7, <2>9, <2>10, <2>11, Zenon DEF Shape
<1>10. CASE CommitClaim
  <2>1. /\ request \in ClaimRequests /\ results \in Seq(Seq(ClaimItem)) /\ Len(results) = 1
        /\ receipts' = [receipts EXCEPT ![ClaimIdentity] = Receipt(request, results[1])]
        /\ End /\ db' = planned /\ now' = now /\ issued' = issued + Len(results[1])
    BY <1>10, Zenon DEF CommitClaim, Shape, TransactionOK, View
  <2>2. ClaimIdentity \in Identity
    BY <2>1, RequestAssumption, Zenon DEF ClaimIdentity, ClaimRequest, Identity
  <2>3. results[1] \in Seq(ClaimItem)
    <3>1. 1 \in 1..Len(results)
      BY <2>1
    <3> QED BY <2>1, <3>1, ElementType, Zenon
  <2>4. ReceiptOK("claim", Receipt(request, results[1]))
    BY <2>1, <2>3, Zenon DEF ReceiptOK, Receipt
  <2>5. DOMAIN receipts' = Identity /\ \A d \in Identity : ReceiptOK(d[1], receipts'[d])
    BY <1>0, <2>1, <2>2, <2>4, TableUpdate, Zenon DEF ClaimIdentity
  <2>6. DOMAIN answers' = Identity
    BY <1>0, <1>10, Zenon DEF CommitClaim, Answer
  <2>7. issued' \in Nat
    BY <2>1, <2>3 DEF Shape
  <2> QED BY <2>1, <2>5, <2>6, <2>7, ShapeEnd, Zenon DEF Shape
<1>11. CASE CommitGroup
  <2> DEFINE group == request[Len(results) + 1]
             known == saved[GroupIdentity(group)]
             plan == PlanCommitGroup(group.updates, planned, now)
             outcome == plan.outcome
  <2>1. /\ request \in CommitRequests /\ results \in Seq(CommitResult) /\ op = "commit"
        /\ Len(results) < Len(request)
    BY <1>11, Zenon DEF CommitGroup, Shape, TransactionOK
  <2>2. group \in Group /\ WellFormed(group.updates)
    <3>1. request \in Seq(Group) /\ \A i \in 1..Len(request) : WellFormed(request[i].updates)
      BY <2>1, RequestAssumption, Zenon
    <3>2. Len(results) + 1 \in 1..Len(request)
      BY <2>1, <3>1
    <3> QED BY <3>1, <3>2
  <2>3. UNCHANGED <<db, receipts, op, request, now, issued, answers>>
    BY <1>11, Zenon DEF CommitGroup
  <2>4. \/ /\ known.bound
           /\ results' = Append(results, Replayed(known, group))
           /\ UNCHANGED <<planned, saved>>
        \/ /\ results' = Append(results, Ok(outcome))
           /\ planned' = plan.snapshot
           /\ saved' = Saved(saved, group, outcome)
    BY <1>11 DEF CommitGroup
  <2> HIDE DEF group
  <2>5. group.updates \in Seq(Update) /\ group.id \in Ids /\ GroupIdentity(group) \in Identity
    BY <2>2, Zenon DEF Group, GroupIdentity, Identity
  <2>6. Sound(plan.snapshot) /\ outcome \in GroupOutcome
    BY <2>2, <2>5, PlanStep, Zenon DEF Shape
  <2> HIDE DEF plan, outcome
  <2>7. DOMAIN saved = Identity /\ \A d \in Identity : ReceiptOK(d[1], saved[d])
    BY Zenon DEF Shape, TablesOK
  <2>8. ASSUME NEW result \in CommitResult, results' = Append(results, result) PROVE TransactionOK' /\ View'
    <3>1. results' \in Seq(CommitResult) /\ Len(results') = Len(results) + 1
      BY <2>1, <2>8
    <3>2. Len(results') =< Len(request)
      BY <2>1, <3>1, RequestAssumption
    <3> QED BY <2>1, <2>3, <3>1, <3>2, Zenon DEF TransactionOK, View
  <2>9. CASE /\ known.bound
             /\ results' = Append(results, Replayed(known, group))
             /\ UNCHANGED <<planned, saved>>
    <3>1. GroupIdentity(group)[1] = "commit"
      BY Zenon DEF GroupIdentity
    <3>2. ReceiptOK("commit", known)
      BY <2>5, <2>7, <3>1, Zenon
    <3>3. known.outcome \in GroupOutcome
      BY <2>9, <3>2, Zenon DEF ReceiptOK
    <3>4. Replayed(known, group) \in CommitResult
      BY <3>3, Zenon DEF Replayed, Ok, Failed, CommitResult
    <3>5. TransactionOK' /\ View'
      BY <2>8, <2>9, <3>4, Zenon
    <3>6. TablesOK'
      BY <2>3, <2>9, Zenon DEF TablesOK, Shape
    <3> QED BY <2>3, <2>9, <3>5, <3>6, Zenon DEF Shape
  <2>10. CASE /\ results' = Append(results, Ok(outcome))
              /\ planned' = plan.snapshot
              /\ saved' = Saved(saved, group, outcome)
    <3>1. Ok(outcome) \in CommitResult
      BY <2>6, Zenon DEF Ok, CommitResult
    <3>2. TransactionOK' /\ View'
      BY <2>8, <2>10, <3>1, Zenon
    <3>3. ReceiptOK("commit", Receipt(group, outcome))
      BY <2>2, <2>6, Zenon DEF ReceiptOK, Receipt
    <3>4. DOMAIN saved' = Identity /\ \A d \in Identity : ReceiptOK(d[1], saved'[d])
      BY <2>5, <2>7, <2>10, <3>3, TableUpdate DEF Saved, GroupIdentity
    <3>5. TablesOK'
      BY <1>0, <2>3, <3>4, Zenon DEF TablesOK
    <3> QED BY <2>3, <2>6, <2>10, <3>2, <3>5, Zenon DEF Shape
  <2> QED BY <2>4, <2>9, <2>10, Zenon
<1>12. CASE CommitBatch
  <2>1. End /\ db' = planned /\ receipts' = saved /\ UNCHANGED <<now, issued>> /\ DOMAIN answers' = Identity
    BY <1>12, Zenon DEF CommitBatch
  <2>2. DOMAIN saved = Identity /\ \A d \in Identity : ReceiptOK(d[1], saved[d])
    BY DEF Shape, TablesOK
  <2> QED BY <2>1, <2>2, ShapeEnd, Zenon DEF Shape
<1>13. CASE UNCHANGED vars
  BY <1>13 DEF vars, tx, Shape, TablesOK, TransactionOK, View, ClaimIdentity
<1> QED BY <1>1, <1>3, <1>4, <1>5, <1>6, <1>7, <1>8, <1>9, <1>10, <1>11, <1>12, <1>13 DEF Next

\* The shape holds in every behaviour.
LEMMA ShapeAlways == Spec => []Shape
  BY ShapeInit, ShapeNext, PTL DEF Spec

\* Every reachable state has its type: no operation drives a version, a
\* sequence, an attempt counter or a timestamp out of its width.
THEOREM TypeCorrect == Spec => []TypeOK
<1>1. Shape => TypeOK
  BY Zenon DEF Shape, TypeOK, Sound, ValidSnapshot
<1> QED BY <1>1, ShapeAlways, PTL

\* Every row the store holds, or is about to write, can be loaded again.
THEOREM RowsLoadable == Spec => []LoadableRows
<1>1. Shape => LoadableRows
  BY Zenon DEF Shape, LoadableRows, Sound, ValidSnapshot
<1> QED BY <1>1, ShapeAlways, PTL

\* The unique index and the rows agree, also inside a transaction.
THEOREM UniqueSafe == Spec => []UniqueOwnership
<1>1. Shape => UniqueOwnership
  BY Zenon DEF Shape, UniqueOwnership, Sound
<1> QED BY <1>1, ShapeAlways, PTL

\* Live work never shares an insertion sequence.
THEOREM SequencesSafe == Spec => []DistinctSequences
<1>1. Shape => DistinctSequences
  BY Zenon DEF Shape, DistinctSequences, Sound
<1> QED BY <1>1, ShapeAlways, PTL

-----------------------------------------------------------------------------
(***************************************************************************)
(* What one step does to the rows.                                         *)
(***************************************************************************)

\* The step of a row that is claimed, or is passed over.
ClaimStep(row, new) ==
    \/ new = row
    \/ /\ row.active /\ row.lifecycle \notin Terminal /\ ~ActiveLease(row, now)
       /\ new.active /\ new.lifecycle = "Leased"
       /\ new.version = row.version + 1
       /\ new.token > issued

Planning == db' = db /\ \A r \in Records : RowStep(planned.rows[r], planned'.rows[r], now)
Claiming == /\ db' = db /\ planned = db
            /\ \A r \in Records : ClaimStep(planned.rows[r], planned'.rows[r])

\* A step that selects rows to claim changes the selected rows only, and they
\* were pending or their lease had run out.
LEMMA SelectStep ==
    ASSUME Shape, SelectClaim
    PROVE  /\ Claiming
           /\ \E n \in Nat : \E s \in [1..n -> Keys] :
                /\ results' = <<[i \in 1..n |-> [key |-> s[i], token |-> issued + i]]>>
                /\ \A r \in Records :
                     \/ planned'.rows[r] = planned.rows[r]
                     \/ \E i \in 1..n : s[i] = r /\ planned'.rows[r].token = issued + i
                /\ n = 0 => planned' = planned
<1>1. /\ request \in ClaimRequests /\ planned = db
      /\ UNCHANGED <<db, receipts, op, request, saved, now, issued, answers>>
  BY DEF SelectClaim, Shape, TransactionOK, View
<1>2. request.keys \subseteq Keys /\ request.max \in Nat /\ request.lease \in Nat /\ request.lease # 0
  BY <1>1, RequestAssumption, Zenon DEF ClaimRequest
<1>3. PICK n \in 0..request.max : \E s \in Selection(planned.rows, n) :
        /\ \A i \in 1..n : Claimable(planned.rows[s[i]])
        /\ results' = <<[i \in 1..n |-> [key |-> s[i], token |-> issued + i]]>>
        /\ planned' = [planned EXCEPT !.rows = ClaimRows(@, s, issued, now + request.lease)]
  BY Zenon DEF SelectClaim
<1>4. PICK s \in Selection(planned.rows, n) :
        /\ \A i \in 1..n : Claimable(planned.rows[s[i]])
        /\ results' = <<[i \in 1..n |-> [key |-> s[i], token |-> issued + i]]>>
        /\ planned' = [planned EXCEPT !.rows = ClaimRows(@, s, issued, now + request.lease)]
  BY <1>3, Zenon
<1>5. /\ n \in Nat /\ s \in [1..n -> Keys]
      /\ \A i \in 1..n : Eligible(planned.rows[s[i]], request.eligibleAt, now)
  BY <1>2, <1>3, <1>4 DEF Selection, Candidates
<1>6. \A i \in 1..n : /\ planned.rows[s[i]].active
                      /\ planned.rows[s[i]].lifecycle \notin Terminal
                      /\ ~ActiveLease(planned.rows[s[i]], now)
  <2> SUFFICES ASSUME NEW i \in 1..n
               PROVE  /\ planned.rows[s[i]].active
                      /\ planned.rows[s[i]].lifecycle \notin Terminal
                      /\ ~ActiveLease(planned.rows[s[i]], now)
    OBVIOUS
  <2> DEFINE row == planned.rows[s[i]]
  <2>1. row \in Row
    BY <1>5, Zenon DEF Shape, Sound, ValidSnapshot, Snapshot, Records
  <2>2. row.expires \in Int /\ now \in Int
    BY <2>1, ConstantTypes, Zenon DEF Row, Shape
  <2>3. Eligible(row, request.eligibleAt, now)
    BY <1>5, Zenon
  <2> HIDE DEF row
  <2>4. row.active /\ row.lifecycle \notin Terminal /\ ~ActiveLease(row, now)
    BY <2>2, <2>3 DEF Eligible, Terminal, ActiveLease
  <2> QED BY <2>4, Zenon DEF row
<1>7. now + request.lease \in Time /\ now + request.lease # 0
  <2>1. now \in Nat /\ now + request.lease =< MaxI64
    BY ConstantTypes, Zenon DEF SelectClaim, Shape
  <2> QED BY <1>2, <2>1, ConstantTypes DEF Time
<1>8. Handed(planned.rows, planned'.rows, n, s, issued)
  <2>1. Sound(planned) /\ issued \in Nat
    BY Zenon DEF Shape
  <2>2. \A i \in 1..n : Claimable(planned.rows[s[i]]) /\ planned.rows[s[i]].active
    BY <1>4, <1>6, Zenon
  <2> QED BY <2>1, <2>2, <1>4, <1>5, <1>7, ClaimRowsStep, Zenon
<1>9. \A r \in Records : ClaimStep(planned.rows[r], planned'.rows[r])
  <2>1. \A i \in 1..n : issued + i > issued
    BY <1>5 DEF Shape
  <2> QED BY <1>6, <1>8, <2>1 DEF ClaimStep, Handed
<1>10. n = 0 => planned' = planned
  <2> SUFFICES ASSUME n = 0 PROVE planned' = planned
    BY Zenon
  <2> DEFINE rows == ClaimRows(planned.rows, s, issued, now + request.lease)
  <2>1. planned \in Snapshot /\ planned.rows \in [Records -> Row]
    BY DEF Shape, Sound, ValidSnapshot, Snapshot
  <2>2. DOMAIN s = {}
    BY <1>5
  <2>3. rows = planned.rows
    BY <2>1, <2>2, Zenon DEF ClaimRows
  <2>4. planned' = [planned EXCEPT !.rows = rows]
    BY <1>4, Zenon
  <2> HIDE DEF rows
  <2> QED BY <2>1, <2>3, <2>4, Zenon DEF Snapshot
<1> QED BY <1>1, <1>4, <1>5, <1>8, <1>9, <1>10 DEF Claiming, Handed

\* An item of an insert and a group of a commit are steps of every row.
LEMMA InsertStep ==
    ASSUME Shape, InsertItem
    PROVE  /\ Planning
           /\ results' # << >>
           /\ planned' # planned =>
                \E i \in 1..Len(results') : results'[i].tag # "Rejected"
           /\ \A i \in 1..Len(results) : results'[i] = results[i] /\ i \in 1..Len(results')
<1> DEFINE entry == request.items[Len(results) + 1]
           plan == PlanInsertItem(entry.key, entry.item, request.mode, planned, now)
           outcome == plan.outcome
           result == InsertResult(planned.rows[entry.key].active, outcome, entry.key)
<1>1. request \in InsertRequests /\ results \in Seq(InsertOutcome)
  BY DEF InsertItem, Shape, TransactionOK
<1>2. entry.key \in Keys /\ entry.item \in Item
  <2>1. request.items \in Seq([key : Keys, item : Item])
    BY <1>1, RequestAssumption, Zenon DEF InsertRequest
  <2>2. Len(results) + 1 \in 1..Len(request.items)
    <3>1. Len(results) < Len(request.items)
      BY DEF InsertItem
    <3> HIDE DEF entry
    <3> QED BY <3>1, <1>1, <2>1, NextIndex, Zenon
  <2>3. entry \in [key : Keys, item : Item]
    BY <2>1, <2>2, ElementType, Zenon
  <2> HIDE DEF entry
  <2> QED BY <2>3
<1>3. planned' = plan.snapshot /\ results' = Append(results, result) /\ db' = db
  BY Zenon DEF InsertItem
<1> HIDE DEF entry
<1>4. /\ outcome.tag = "Rejected" => plan.snapshot = planned
      /\ \A r \in Records : RowStep(planned.rows[r], plan.snapshot.rows[r], now)
  BY <1>2, InsertItemStep, Zenon DEF Shape
<1>5. outcome.tag # "Rejected" => result.tag # "Rejected"
  <2> HIDE DEF outcome
  <2> QED BY DEF InsertResult
<1> HIDE DEF plan, outcome, result
<1>6. /\ Len(results') = Len(results) + 1 /\ Len(results) \in Nat /\ results' # << >>
      /\ results'[Len(results) + 1] = result
      /\ \A i \in 1..Len(results) : results'[i] = results[i]
  BY <1>1, <1>3
<1>7. planned' # planned => results'[Len(results')].tag # "Rejected"
  BY <1>3, <1>4, <1>5, <1>6, Zenon DEF outcome
<1>8. \A n \in Nat : n + 1 \in 1..(n + 1) /\ \A i \in 1..n : i \in 1..(n + 1)
  OBVIOUS
<1> QED BY <1>3, <1>4, <1>6, <1>7, <1>8, Zenon DEF Planning

\* The next group of a commit is replayed from its receipt, or planned and saved.
LEMMA GroupStep ==
    ASSUME Shape, CommitGroup
    PROVE  LET group == request[Len(results) + 1]
               known == saved[GroupIdentity(group)]
           IN  /\ group \in Group /\ GroupIdentity(group) \in Identity
               /\ Len(results') = Len(results) + 1 /\ Len(results) + 1 \in 1..Len(request)
               /\ \A i \in 1..Len(results) : results'[i] = results[i]
               /\ \/ /\ known.bound
                     /\ results'[Len(results')] = Replayed(known, group)
                     /\ UNCHANGED <<db, planned, saved>>
                  \/ /\ ~known.bound /\ Planning
                     /\ \E outcome \in GroupOutcome :
                          /\ results'[Len(results')] = Ok(outcome)
                          /\ saved' = [saved EXCEPT ![GroupIdentity(group)] = Receipt(group, outcome)]
                          /\ planned' # planned => outcome.tag = "Committed"
<1> DEFINE group == request[Len(results) + 1]
           known == saved[GroupIdentity(group)]
           plan == PlanCommitGroup(group.updates, planned, now)
           outcome == plan.outcome
<1>1. /\ request \in CommitRequests /\ results \in Seq(CommitResult)
      /\ Len(results) < Len(request) /\ db' = db
  BY DEF CommitGroup, Shape, TransactionOK
<1>2. group \in Group /\ WellFormed(group.updates) /\ Len(results) + 1 \in 1..Len(request) /\ Len(results) \in Nat
  <2>1. request \in Seq(Group) /\ \A i \in 1..Len(request) : WellFormed(request[i].updates)
    BY <1>1, RequestAssumption, Zenon
  <2>2. Len(results) + 1 \in 1..Len(request)
    BY <1>1, <2>1
  <2> QED BY <1>1, <2>1, <2>2
<1>3. \/ /\ known.bound
         /\ results' = Append(results, Replayed(known, group))
         /\ UNCHANGED <<planned, saved>>
      \/ /\ ~known.bound
         /\ results' = Append(results, Ok(outcome))
         /\ planned' = plan.snapshot
         /\ saved' = [saved EXCEPT ![GroupIdentity(group)] = Receipt(group, outcome)]
  BY DEF CommitGroup, Saved
<1> HIDE DEF group
<1>4. group.updates \in Seq(Update) /\ group.id \in Ids /\ GroupIdentity(group) \in Identity
  BY <1>2, Zenon DEF Group, GroupIdentity, Identity
<1>5. /\ outcome \in GroupOutcome /\ (outcome.tag = "Rejected" => plan.snapshot = planned)
      /\ \A r \in Records : RowStep(planned.rows[r], plan.snapshot.rows[r], now)
  BY <1>2, <1>4, PlanStep, Zenon DEF Shape
<1>6. outcome.tag \in {"Committed", "Rejected"}
  <2> HIDE DEF outcome
  <2> QED BY <1>5, Zenon DEF GroupOutcome
<1>7. ASSUME NEW result, results' = Append(results, result)
      PROVE  /\ Len(results') = Len(results) + 1 /\ results'[Len(results')] = result
             /\ \A i \in 1..Len(results) : results'[i] = results[i]
  BY <1>1, <1>2, <1>7
<1> HIDE DEF plan, outcome, known
<1>8. /\ Len(results') = Len(results) + 1
      /\ \A i \in 1..Len(results) : results'[i] = results[i]
      /\ \/ /\ known.bound
            /\ results'[Len(results')] = Replayed(known, group)
            /\ UNCHANGED <<db, planned, saved>>
         \/ /\ ~known.bound /\ Planning
            /\ \E o \in GroupOutcome :
                 /\ results'[Len(results')] = Ok(o)
                 /\ saved' = [saved EXCEPT ![GroupIdentity(group)] = Receipt(group, o)]
                 /\ planned' # planned => o.tag = "Committed"
  <2>1. CASE /\ known.bound
             /\ results' = Append(results, Replayed(known, group))
             /\ UNCHANGED <<planned, saved>>
    BY <1>1, <1>7, <2>1, Zenon
  <2>2. CASE /\ ~known.bound
             /\ results' = Append(results, Ok(outcome))
             /\ planned' = plan.snapshot
             /\ saved' = [saved EXCEPT ![GroupIdentity(group)] = Receipt(group, outcome)]
    BY <1>1, <1>5, <1>6, <1>7, <2>2, Zenon DEF Planning
  <2> QED BY <1>3, <2>1, <2>2, Zenon
<1> QED BY <1>2, <1>4, <1>8, Zenon DEF group, known

\* Every step leaves the rows alone, ends a transaction, plans, or claims.
LEMMA StepKinds ==
    ASSUME Shape, [Next]_vars
    PROVE  \/ UNCHANGED <<db, planned>>
           \/ planned' = db' /\ (db' = db \/ db' = planned)
           \/ Planning
           \/ Claiming
<1>1. CASE Tick \/ BeginInsert \/ BeginClaim \/ BeginCommit \/ UNCHANGED vars
  BY <1>1, Zenon DEF Tick, BeginInsert, BeginClaim, BeginCommit, Begin, vars, tx
<1>2. CASE ReplayInsert \/ CommitInsert \/ ReplayClaim \/ CommitClaim \/ CommitBatch \/ Rollback
  BY <1>2, Zenon DEF ReplayInsert, CommitInsert, ReplayClaim, CommitClaim, CommitBatch, Rollback, End
<1>3. CASE InsertItem
  BY <1>3, InsertStep, Zenon
<1>4. CASE SelectClaim
  BY <1>4, SelectStep, Zenon
<1>5. CASE CommitGroup
  BY <1>5, GroupStep, Zenon
<1> QED BY <1>1, <1>2, <1>3, <1>4, <1>5, Zenon DEF Next

-----------------------------------------------------------------------------
(***************************************************************************)
(* Versions, and terminal work.                                            *)
(***************************************************************************)

\* How the rows of an open transaction relate to the committed ones.
Progress ==
    /\ \A r \in Records :
         planned.rows[r] # db.rows[r] => planned.rows[r].version > db.rows[r].version
    /\ \A k \in Keys :
         (db.rows[k].active /\ db.rows[k].lifecycle \in Terminal) => planned.rows[k].lifecycle # "Leased"

\* A step carries the relation over to the next state, and a commit applies it.
LEMMA ProgressNext ==
    ASSUME Shape, Shape', Progress, [Next]_vars
    PROVE  /\ Progress'
           /\ \A r \in Records : db'.rows[r] # db.rows[r] => db'.rows[r].version > db.rows[r].version
           /\ \A k \in Keys :
                (db.rows[k].active /\ db.rows[k].lifecycle \in Terminal) => db'.rows[k].lifecycle # "Leased"
<1>0. \A r \in Records : /\ planned.rows[r] \in Row /\ planned'.rows[r] \in Row /\ db.rows[r] \in Row
                         /\ planned.rows[r].version \in Nat /\ db.rows[r].version \in Nat
                         /\ planned'.rows[r].version \in Nat
  <2>1. \A r \in Records : planned.rows[r] \in Row /\ planned'.rows[r] \in Row /\ db.rows[r] \in Row
    BY DEF Shape, Sound, ValidSnapshot, Snapshot
  <2>2. \A row \in Row : row.version \in Nat
    BY ConstantTypes, Zenon DEF Row
  <2> QED BY <2>1, <2>2, Zenon
<1>1. \A k \in Keys : k \in Records
  BY Zenon DEF Records
<1>2. CASE UNCHANGED <<db, planned>>
  BY <1>2, Zenon DEF Progress, Terminal
<1>3. CASE planned' = db' /\ (db' = db \/ db' = planned)
  <2>1. \A k \in Keys : db'.rows[k].lifecycle \in Terminal => db'.rows[k].lifecycle # "Leased"
    BY DEF Terminal
  <2>2. \A k \in Keys : (db.rows[k].active /\ db.rows[k].lifecycle \in Terminal) => db'.rows[k].lifecycle # "Leased"
    BY <1>3, Zenon DEF Progress, Terminal
  <2> QED BY <1>3, <2>1, <2>2, Zenon DEF Progress
<1>4. CASE Planning
  <2>1. \A r \in Records : planned'.rows[r] # planned.rows[r] => planned'.rows[r].version = planned.rows[r].version + 1
    BY <1>4, Zenon DEF Planning, RowStep
  <2>2. \A r \in Records : planned'.rows[r].lifecycle = "Leased" => planned.rows[r].lifecycle = "Leased"
    BY <1>4, Zenon DEF Planning, RowStep
  <2>3. \A r \in Records : planned'.rows[r] # db.rows[r] => planned'.rows[r].version > db.rows[r].version
    BY <1>0, <2>1 DEF Progress
  <2> QED BY <1>1, <1>4, <2>2, <2>3, Zenon DEF Planning, Progress, Terminal
<1>5. CASE Claiming
  <2>1. \A r \in Records : planned'.rows[r] # db.rows[r] => planned'.rows[r].version > db.rows[r].version
    BY <1>0, <1>5, SMTT(30) DEF Claiming, ClaimStep
  <2>2. \A k \in Keys : db.rows[k].lifecycle \in Terminal => planned'.rows[k].lifecycle # "Leased"
    BY <1>1, <1>5, Zenon DEF Claiming, ClaimStep, Terminal
  <2> QED BY <1>5, <2>1, <2>2, Zenon DEF Claiming, Progress, Terminal
<1> QED BY <1>2, <1>3, <1>4, <1>5, StepKinds, Zenon

\* The relation holds in every behaviour.
LEMMA ProgressAlways == Spec => []Progress
<1>1. Init => Progress
  BY Zenon DEF Init, Progress, Terminal
<1>2. Shape /\ Shape' /\ Progress /\ [Next]_vars => Progress'
  BY ProgressNext, Zenon
<1> QED BY <1>1, <1>2, ShapeAlways, PTL DEF Spec

\* Versions are never reused, however records are deleted and inserted again.
THEOREM VersionsSafe == Spec => VersionsNeverReused
<1>1. Shape /\ Shape' /\ Progress /\ [Next]_vars =>
        [\A r \in Records : db'.rows[r] # db.rows[r] => db'.rows[r].version > db.rows[r].version]_vars
  BY ProgressNext, Zenon
<1> QED BY <1>1, ShapeAlways, ProgressAlways, PTL DEF Spec, VersionsNeverReused

\* Terminal work is never handed to a claimant.
THEOREM TerminalSafe == Spec => TerminalNotClaimed
<1>1. Shape /\ Shape' /\ Progress /\ [Next]_vars =>
        [\A k \in Keys :
           (db.rows[k].active /\ db.rows[k].lifecycle \in Terminal) => db'.rows[k].lifecycle # "Leased"]_vars
  BY ProgressNext, Zenon
<1> QED BY <1>1, ShapeAlways, ProgressAlways, PTL DEF Spec, TerminalNotClaimed

-----------------------------------------------------------------------------
(***************************************************************************)
(* Receipts and leases.  Every answer is durable, receipts                   *)
(* never change, and rows change only together with the receipt of what      *)
(* changed them.  A record is leased to one claim at a time, a lease can be  *)
(* recovered from the receipt of its claim, lost credentials are never       *)
(* honoured again, and a live lease ends only by those entitled.             *)
(***************************************************************************)

-----------------------------------------------------------------------------
(***************************************************************************)
(* Receipts.                                                               *)
(***************************************************************************)
\* The open transaction adds receipts of its own groups only.
SavedExtends ==
    \A d \in Identity : (receipts[d].bound \/ d[1] # "commit") => saved[d] = receipts[d]

\* The receipt is bound to the content and holds the result.
Keeps(receipt, content, value) ==
    receipt.bound /\ receipt.content = content /\ receipt.outcome = value

\* The results so far of an open commit are in its receipts.
ResultsSaved ==
    op = "commit" =>
        \A i \in 1..Len(results) :
            results[i].status = "Ok" =>
                Keeps(saved[GroupIdentity(request[i])], request[i], results[i].value)

\* An open transaction that has changed rows will leave a receipt for it.
EffectsSaved ==
    planned # db =>
        \/ op = "insert" /\ ~receipts[InsertIdentity].bound
           /\ \E i \in 1..Len(results) : results[i].tag # "Rejected"
        \/ op = "claim" /\ results # << >> /\ results[1] # << >>
        \/ op = "commit" /\ \E d \in Identity :
             ~receipts[d].bound /\ saved[d].bound /\ d[1] = "commit" /\ saved[d].outcome.tag = "Committed"

Bookkeeping == SavedExtends /\ ResultsSaved /\ EffectsSaved /\ AnswersDurable

\* What an answer adds to the history of an identity.
LEMMA AnswerAdds ==
    ASSUME DOMAIN answers = Identity, NEW identity \in Identity, NEW content, NEW result, Answer(identity, content, result)
    PROVE  /\ \A d \in Identity : d # identity => answers'[d] = answers[d]
           /\ answers'[identity] = answers[identity] \cup Told(content, result)
  BY Zenon DEF Answer

\* A told result is the result.
LEMMA ToldIs ==
    ASSUME NEW content, NEW result, NEW sent \in Told(content, result)
    PROVE  /\ sent.content = content /\ sent.status = result.status /\ sent.value = result.value
           /\ result.status # "RequestConflict"
  BY DEF Told

\* A replay adds to the history what the receipt says, or a refusal.
LEMMA ReplayDurable ==
    ASSUME Shape, AnswersDurable, UNCHANGED receipts, NEW identity \in Identity, receipts[identity].bound,
           NEW content, NEW result, Answer(identity, content, result),
           result.status = "Ok" => result = Replayed(receipts[identity], content)
    PROVE  AnswersDurable'
<1> SUFFICES ASSUME NEW d \in Identity, NEW sent \in answers'[d], sent.status = "Ok"
             PROVE  receipts[d].bound /\ receipts[d].content = sent.content /\ receipts[d].outcome = sent.value
  BY Zenon DEF AnswersDurable
<1>1. DOMAIN answers = Identity
  BY Zenon DEF Shape, TablesOK
<1>2. CASE sent \in answers[d]
  BY <1>2, Zenon DEF AnswersDurable
<1>3. CASE sent \notin answers[d]
  <2>1. d = identity /\ sent \in Told(content, result)
    <3>1. /\ answers'[identity] = answers[identity] \cup Told(content, result)
          /\ \A e \in Identity : e # identity => answers'[e] = answers[e]
      BY <1>1, Zenon DEF Answer
    <3> QED BY <1>3, <3>1, Zenon
  <2>2. sent.content = content /\ result.status = "Ok" /\ sent.value = result.value
    BY <2>1, ToldIs
  <2>3. receipts[identity].content = content /\ result.value = receipts[identity].outcome
    BY <2>2 DEF Replayed, Ok, Failed
  <2> QED BY <2>1, <2>2, <2>3, Zenon
<1> QED BY <1>2, <1>3, Zenon

\* A new receipt is durable before its result is sent.
LEMMA ReceiptDurable ==
    ASSUME Shape, AnswersDurable, NEW identity \in Identity, ~receipts[identity].bound,
           NEW content, NEW outcome,
           receipts' = [receipts EXCEPT ![identity] = Receipt(content, outcome)],
           Answer(identity, content, Ok(outcome))
    PROVE  AnswersDurable'
<1> SUFFICES ASSUME NEW d \in Identity, NEW sent \in answers'[d], sent.status = "Ok"
             PROVE  receipts'[d].bound /\ receipts'[d].content = sent.content /\ receipts'[d].outcome = sent.value
  BY Zenon DEF AnswersDurable
<1>1. DOMAIN answers = Identity /\ DOMAIN receipts = Identity
  BY Zenon DEF Shape, TablesOK
<1>2. CASE sent \in answers[d]
  <2>1. d # identity /\ receipts'[d] = receipts[d]
    BY <1>1, <1>2, Zenon DEF AnswersDurable
  <2> QED BY <1>2, <2>1 DEF AnswersDurable
<1>3. CASE sent \notin answers[d]
  <2>1. d = identity /\ sent \in Told(content, Ok(outcome))
    <3>1. /\ answers'[identity] = answers[identity] \cup Told(content, Ok(outcome))
          /\ \A e \in Identity : e # identity => answers'[e] = answers[e]
      BY <1>1, Zenon DEF Answer
    <3> QED BY <1>3, <3>1, Zenon
  <2>2. sent.content = content /\ sent.value = outcome
    BY <2>1, ToldIs, SMTT(30) DEF Ok
  <2> QED BY <1>1, <2>1, <2>2, Zenon DEF Receipt
<1> QED BY <1>2, <1>3, Zenon

\* A transaction that ends leaves nothing open.
LEMMA BooksClosed ==
    ASSUME End, AnswersDurable' PROVE Bookkeeping'
<1>1. SavedExtends'
  BY Zenon DEF End, SavedExtends
<1>2. ResultsSaved' /\ EffectsSaved'
  BY Zenon DEF End, ResultsSaved, EffectsSaved
<1> QED BY <1>1, <1>2, Zenon DEF Bookkeeping

\* The identities of the open request.
LEMMA OpenIdentities ==
    ASSUME Shape
    PROVE  /\ op = "insert" => InsertIdentity \in Identity
           /\ op = "claim" => ClaimIdentity \in Identity
           /\ op = "commit" =>
                \A i \in 1..Len(request) : /\ GroupIdentity(request[i]) \in Identity
                                           /\ GroupIdentity(request[i])[1] = "commit"
                                           /\ \A j \in 1..Len(request) :
                                                i # j => GroupIdentity(request[i]) # GroupIdentity(request[j])
<1>1. ASSUME op = "insert" PROVE InsertIdentity \in Identity
  BY <1>1, RequestAssumption, Zenon DEF Shape, TransactionOK, InsertIdentity, InsertRequest, Identity
<1>2. ASSUME op = "claim" PROVE ClaimIdentity \in Identity
  BY <1>2, RequestAssumption, Zenon DEF Shape, TransactionOK, ClaimIdentity, ClaimRequest, Identity
<1>3. ASSUME op = "commit", NEW i \in 1..Len(request)
      PROVE  /\ GroupIdentity(request[i]) \in Identity
             /\ GroupIdentity(request[i])[1] = "commit"
             /\ \A j \in 1..Len(request) : i # j => GroupIdentity(request[i]) # GroupIdentity(request[j])
  <2>1. request \in CommitRequests
    BY <1>3, Zenon DEF Shape, TransactionOK
  <2>2. request \in Seq(Group) /\ \A j, k \in 1..Len(request) : j # k => request[j].id # request[k].id
    BY <2>1, RequestAssumption, Zenon
  <2>3. request[i].id \in Ids
    <3>1. request[i] \in Group
      BY <2>2, <1>3, ElementType, Zenon
    <3> QED BY <3>1, Zenon DEF Group
  <2> QED BY <2>2, <2>3, Zenon DEF GroupIdentity, Identity
<1> QED BY <1>1, <1>2, <1>3, Zenon

\* One step keeps the books.
LEMMA BooksNext == Shape /\ Bookkeeping /\ [Next]_vars => Bookkeeping'
<1> SUFFICES ASSUME Shape, Bookkeeping, [Next]_vars PROVE Bookkeeping'
  OBVIOUS
<1>0. DOMAIN receipts = Identity /\ DOMAIN saved = Identity /\ DOMAIN answers = Identity /\ AnswersDurable
  BY Zenon DEF Shape, TablesOK, Bookkeeping
<1>1. CASE Tick \/ UNCHANGED vars
  <2>1. UNCHANGED <<db, receipts, op, request, planned, saved, results, answers>>
    BY <1>1, Zenon DEF Tick, vars, tx
  <2>2. SavedExtends' /\ AnswersDurable'
    BY <2>1, Zenon DEF Bookkeeping, SavedExtends, AnswersDurable
  <2>3. ResultsSaved' /\ EffectsSaved'
    BY <2>1, Zenon DEF Bookkeeping, ResultsSaved, EffectsSaved, InsertIdentity
  <2> QED BY <2>2, <2>3, Zenon DEF Bookkeeping
<1>2. ASSUME NEW operation, NEW content, Begin(operation, content) PROVE Bookkeeping'
  <2>1. planned = db /\ results = << >> /\ UNCHANGED <<db, receipts, planned, saved, results, answers>>
    BY <1>2, Zenon DEF Begin, Shape, View, TransactionOK
  <2>2. SavedExtends' /\ AnswersDurable'
    BY <2>1, Zenon DEF Bookkeeping, SavedExtends, AnswersDurable
  <2>3. \A i \in 1..Len(<< >>) : FALSE
    OBVIOUS
  <2> QED BY <2>1, <2>2, <2>3, Zenon DEF Bookkeeping, ResultsSaved, EffectsSaved
<1>3. CASE BeginInsert \/ BeginClaim \/ BeginCommit
  BY <1>2, <1>3, Zenon DEF BeginInsert, BeginClaim, BeginCommit
<1>4. CASE ReplayInsert
  <2>1. /\ End /\ UNCHANGED receipts /\ receipts[InsertIdentity].bound /\ op = "insert"
        /\ Answer(InsertIdentity, request, Replayed(receipts[InsertIdentity], request))
    BY <1>4, Zenon DEF ReplayInsert
  <2>2. AnswersDurable'
    BY <1>0, <2>1, OpenIdentities, ReplayDurable, Zenon
  <2> QED BY <2>1, <2>2, BooksClosed, Zenon
<1>5. CASE ReplayClaim
  <2> DEFINE found == Replayed(receipts[ClaimIdentity], request)
             result == IF found.status = "Ok" /\ ~LiveReplay(found.value, planned.rows, now)
                       THEN Failed("ClaimExpired") ELSE found
  <2>1. /\ End /\ UNCHANGED receipts /\ receipts[ClaimIdentity].bound /\ op = "claim"
        /\ Answer(ClaimIdentity, request, result)
    BY <1>5, Zenon DEF ReplayClaim
  <2>2. result.status = "Ok" => result = found
    BY Zenon DEF Failed
  <2> HIDE DEF result
  <2>3. AnswersDurable'
    BY <1>0, <2>1, <2>2, OpenIdentities, ReplayDurable, Zenon
  <2> QED BY <2>1, <2>3, BooksClosed, Zenon
<1>6. CASE Rollback
  <2>1. End /\ UNCHANGED <<receipts, answers>>
    BY <1>6, Zenon DEF Rollback
  <2>2. AnswersDurable'
    BY <1>0, <2>1, Zenon DEF AnswersDurable
  <2> QED BY <2>1, <2>2, BooksClosed, Zenon
<1>7. CASE InsertItem
  <2>1. /\ op = "insert" /\ ~receipts[InsertIdentity].bound
        /\ UNCHANGED <<db, receipts, op, request, saved, answers>>
    BY <1>7, Zenon DEF InsertItem
  <2>2. SavedExtends' /\ AnswersDurable' /\ ResultsSaved'
    BY <2>1, Zenon DEF Bookkeeping, SavedExtends, AnswersDurable, ResultsSaved
  <2>3. EffectsSaved'
    <3>1. /\ planned' # planned => \E i \in 1..Len(results') : results'[i].tag # "Rejected"
          /\ \A i \in 1..Len(results) : results'[i] = results[i] /\ i \in 1..Len(results')
      BY <1>7, InsertStep, Zenon
    <3>2. planned # db => \E i \in 1..Len(results) : results[i].tag # "Rejected"
      BY <2>1, Zenon DEF Bookkeeping, EffectsSaved
    <3>3. planned' # db => \E i \in 1..Len(results') : results'[i].tag # "Rejected"
      BY <3>1, <3>2, Zenon
    <3> QED BY <2>1, <3>3, Zenon DEF EffectsSaved, InsertIdentity
  <2> QED BY <2>2, <2>3, Zenon DEF Bookkeeping
<1>8. CASE CommitInsert
  <2>1. /\ End /\ ~receipts[InsertIdentity].bound /\ op = "insert"
        /\ receipts' = [receipts EXCEPT ![InsertIdentity] = Receipt(request, results)]
        /\ Answer(InsertIdentity, request, Ok(results))
    BY <1>8, Zenon DEF CommitInsert
  <2>2. AnswersDurable'
    BY <1>0, <2>1, OpenIdentities, ReceiptDurable, Zenon
  <2> QED BY <2>1, <2>2, BooksClosed, Zenon
<1>9. CASE SelectClaim
  <2>1. /\ op = "claim" /\ planned = db
        /\ UNCHANGED <<db, receipts, op, request, saved, answers>>
    BY <1>9, Zenon DEF SelectClaim, Shape, View
  <2>2. SavedExtends' /\ AnswersDurable' /\ ResultsSaved'
    BY <2>1, Zenon DEF Bookkeeping, SavedExtends, AnswersDurable, ResultsSaved
  <2>3. EffectsSaved'
    <3>1. PICK n \in Nat : \E s \in [1..n -> Keys] :
            /\ results' = <<[i \in 1..n |-> [key |-> s[i], token |-> issued + i]]>>
            /\ n = 0 => planned' = planned
      BY <1>9, SelectStep, Zenon
    <3>2. PICK s \in [1..n -> Keys] :
            /\ results' = <<[i \in 1..n |-> [key |-> s[i], token |-> issued + i]]>>
            /\ n = 0 => planned' = planned
      BY <3>1, Zenon
    <3> DEFINE items == [i \in 1..n |-> [key |-> s[i], token |-> issued + i]]
    <3>3. results' = <<items>> /\ (items = << >> => n = 0)
      <4>1. DOMAIN items = 1..n
        BY Zenon
      <4>2. items = << >> => 1..n = {}
        BY <4>1
      <4>3. n # 0 => 1 \in 1..n
        BY <3>1
      <4> HIDE DEF items
      <4>4. items = << >> => n = 0
        BY <4>2, <4>3, Zenon
      <4> QED BY <3>2, <4>4, Zenon DEF items
    <3> HIDE DEF items
    <3>4. results' # << >> /\ results'[1] = items
      BY <3>3, Zenon
    <3> QED BY <2>1, <3>2, <3>3, <3>4, Zenon DEF EffectsSaved
  <2> QED BY <2>2, <2>3 DEF Bookkeeping
<1>10. CASE CommitClaim
  <2>1. /\ End /\ ~receipts[ClaimIdentity].bound /\ op = "claim"
        /\ receipts' = [receipts EXCEPT ![ClaimIdentity] = Receipt(request, results[1])]
        /\ Answer(ClaimIdentity, request, Ok(results[1]))
    BY <1>10, Zenon DEF CommitClaim, Shape, View
  <2>2. AnswersDurable'
    BY <1>0, <2>1, OpenIdentities, ReceiptDurable, Zenon
  <2> QED BY <2>1, <2>2, BooksClosed, Zenon
<1>11. CASE CommitGroup
  <2> DEFINE n == Len(results) + 1
             group == request[n]
             identity == GroupIdentity(group)
             known == saved[identity]
  <2>1. op = "commit" /\ UNCHANGED <<db, receipts, op, request, answers>>
    BY <1>11, Zenon DEF CommitGroup
  <2>2. /\ identity \in Identity /\ Len(results') = n /\ n \in 1..Len(request) /\ Len(results) \in Nat
        /\ \A i \in 1..Len(results) : results'[i] = results[i]
        /\ \/ /\ known.bound
              /\ results'[n] = Replayed(known, group)
              /\ UNCHANGED <<planned, saved>>
           \/ /\ ~known.bound
              /\ \E outcome \in GroupOutcome :
                   /\ results'[n] = Ok(outcome)
                   /\ saved' = [saved EXCEPT ![identity] = Receipt(group, outcome)]
                   /\ planned' # planned => outcome.tag = "Committed"
    <3>1. Len(results) \in Nat
      BY <2>1 DEF Shape, TransactionOK
    <3> QED BY <1>11, <3>1, GroupStep, Zenon
  <2>3. /\ identity[1] = "commit"
        /\ \A i \in 1..Len(results) : GroupIdentity(request[i]) # identity /\ GroupIdentity(request[i]) \in Identity
    <3>1. \A i \in 1..Len(results) : i \in 1..Len(request) /\ i # n
      BY <2>2, SMTT(30)
    <3> QED BY <2>1, <2>2, <3>1, OpenIdentities, Zenon
  <2>4. AnswersDurable'
    BY <2>1, Zenon DEF Bookkeeping, AnswersDurable
  <2>5. \A i \in 1..Len(results') : i \in 1..Len(results) \/ i = n
    BY <2>2, SMTT(30)
  <2> HIDE DEF n, group, identity, known
  <2>6. CASE /\ known.bound
             /\ results'[n] = Replayed(known, group)
             /\ UNCHANGED <<planned, saved>>
    <3>1. SavedExtends' /\ EffectsSaved'
      BY <2>1, <2>6, Zenon DEF Bookkeeping, SavedExtends, EffectsSaved
    <3>2. results'[n].status = "Ok" => Keeps(known, group, results'[n].value)
      BY <2>6 DEF Replayed, Ok, Failed, Keeps
    <3>3. ResultsSaved'
      BY <2>1, <2>2, <2>5, <2>6, <3>2, Zenon DEF Bookkeeping, ResultsSaved, known, identity, group
    <3> QED BY <2>4, <3>1, <3>3, Zenon DEF Bookkeeping
  <2>7. ASSUME ~known.bound, NEW outcome \in GroupOutcome,
               results'[n] = Ok(outcome),
               saved' = [saved EXCEPT ![identity] = Receipt(group, outcome)],
               planned' # planned => outcome.tag = "Committed"
        PROVE  Bookkeeping'
    <3>1. /\ saved'[identity] = Receipt(group, outcome)
          /\ \A d \in Identity : d # identity => saved'[d] = saved[d]
      BY <1>0, <2>2, <2>7, Zenon
    <3>2. ~receipts[identity].bound
      BY <2>2, <2>7, Zenon DEF Bookkeeping, SavedExtends, known
    <3>3. SavedExtends'
      BY <2>1, <2>3, <3>1, <3>2, Zenon DEF Bookkeeping, SavedExtends
    <3>4. ResultsSaved'
      <4>1. Ok(outcome).value = outcome
        BY Zenon DEF Ok
      <4>2. Keeps(saved'[GroupIdentity(request[n])], request[n], results'[n].value)
        BY <2>7, <3>1, <4>1, SMTT(30) DEF identity, group, Keeps, Receipt
      <4> QED BY <2>1, <2>2, <2>3, <2>5, <3>1, <4>2, Zenon DEF Bookkeeping, ResultsSaved
    <3>5. EffectsSaved'
      <4>1. Receipt(group, outcome).bound /\ Receipt(group, outcome).outcome = outcome
        BY Zenon DEF Receipt
      <4>2. CASE planned' # planned
        <5>1. /\ identity \in Identity /\ identity[1] = "commit" /\ ~receipts'[identity].bound
              /\ saved'[identity].bound /\ saved'[identity].outcome.tag = "Committed"
          BY <2>1, <2>2, <2>3, <2>7, <3>1, <3>2, <4>1, <4>2, Zenon
        <5> QED BY <2>1, <5>1, Zenon DEF EffectsSaved
      <4>3. CASE planned' = planned
        <5>1. ASSUME NEW d \in Identity, saved[d].bound PROVE saved'[d] = saved[d]
          BY <2>7, <3>1, <5>1, Zenon DEF known
        <5> QED BY <2>1, <4>3, <5>1, Zenon DEF Bookkeeping, EffectsSaved
      <4> QED BY <4>2, <4>3, Zenon
    <3> QED BY <2>4, <3>3, <3>4, <3>5, Zenon DEF Bookkeeping
  <2> QED BY <2>2, <2>6, <2>7, Zenon
<1>12. CASE CommitBatch
  <2>1. /\ End /\ receipts' = saved /\ op = "commit" /\ Len(results) = Len(request)
        /\ answers' = [d \in Identity |->
             answers[d] \cup UNION {Told(request[i], results[i]) :
                                    i \in {j \in 1..Len(request) : GroupIdentity(request[j]) = d}}]
    BY <1>12, Zenon DEF CommitBatch
  <2>2. ASSUME NEW d \in Identity, NEW sent \in answers'[d], sent.status = "Ok"
        PROVE  saved[d].bound /\ saved[d].content = sent.content /\ saved[d].outcome = sent.value
    <3>1. CASE sent \in answers[d]
      BY <2>2, <3>1 DEF Bookkeeping, SavedExtends, AnswersDurable
    <3>2. CASE sent \notin answers[d]
      <4>1. PICK i \in 1..Len(request) : GroupIdentity(request[i]) = d /\ sent \in Told(request[i], results[i])
        BY <2>1, <2>2, <3>2, Zenon
      <4>2. sent.content = request[i] /\ results[i].status = "Ok" /\ sent.value = results[i].value
        BY <2>2, <4>1, ToldIs
      <4>3. Keeps(saved[d], request[i], results[i].value)
        BY <2>1, <4>1, <4>2, Zenon DEF Bookkeeping, ResultsSaved
      <4> QED BY <4>2, <4>3, Zenon DEF Keeps
    <3> QED BY <3>1, <3>2, Zenon
  <2>3. AnswersDurable'
    BY <2>1, <2>2, Zenon DEF AnswersDurable
  <2> QED BY <2>1, <2>3, BooksClosed, Zenon
<1> QED BY <1>1, <1>3, <1>4, <1>5, <1>6, <1>7, <1>8, <1>9, <1>10, <1>11, <1>12 DEF Next


\* The books are kept in every behaviour.
LEMMA BooksAlways == Spec => []Bookkeeping
<1>1. Init => Bookkeeping
  BY Zenon DEF Init, Bookkeeping, SavedExtends, ResultsSaved, EffectsSaved, AnswersDurable
<1> QED BY <1>1, BooksNext, ShapeAlways, PTL DEF Spec

\* Every positive answer a caller may have seen is durable.
THEOREM AnswersSafe == Spec => []AnswersDurable
<1>1. Bookkeeping => AnswersDurable
  BY DEF Bookkeeping
<1> QED BY <1>1, BooksAlways, PTL

\* Receipts never change, and rows change only under a new effective receipt.
THEOREM EffectsBound == Spec => ReceiptsBindEffects
<1> DEFINE Bound == \A d \in Identity : receipts[d].bound => receipts'[d] = receipts[d]
           New(d) == ~receipts[d].bound /\ receipts'[d].bound /\ Effective(d[1], receipts'[d].outcome)
<1>1. ASSUME Shape, Bookkeeping, Next PROVE Bound /\ (db' # db => \E d \in Identity : New(d))
  <2>0. DOMAIN receipts = Identity
    BY <1>1, Zenon DEF Shape, TablesOK
  <2>1. CASE UNCHANGED <<db, receipts>>
    BY <2>1, Zenon
  <2>2. CASE Tick \/ BeginInsert \/ BeginClaim \/ BeginCommit \/ ReplayInsert \/ ReplayClaim
             \/ InsertItem \/ SelectClaim \/ CommitGroup \/ Rollback
    BY <2>1, <2>2, Zenon DEF Tick, BeginInsert, BeginClaim, BeginCommit, Begin, ReplayInsert, ReplayClaim,
       InsertItem, SelectClaim, CommitGroup, Rollback
  <2>3. ASSUME NEW domain, NEW id, <<domain, id>> \in Identity, ~receipts[<<domain, id>>].bound,
               NEW content, NEW outcome,
               receipts' = [receipts EXCEPT ![<<domain, id>>] = Receipt(content, outcome)],
               db' # db => Effective(domain, outcome)
        PROVE  Bound /\ (db' # db => \E d \in Identity : New(d))
    <3> DEFINE D == <<domain, id>>
    <3>1. D[1] = domain
      BY Zenon
    <3>2. Receipt(content, outcome).bound /\ Receipt(content, outcome).outcome = outcome
      BY Zenon DEF Receipt
    <3> HIDE DEF D
    <3>3. receipts'[D] = Receipt(content, outcome) /\ \A d \in Identity : d # D => receipts'[d] = receipts[d]
      BY <2>0, <2>3, Zenon DEF D
    <3>4. D \in Identity /\ ~receipts[D].bound
      BY <2>3, Zenon DEF D
    <3> QED BY <2>3, <3>1, <3>2, <3>3, <3>4
  <2>4. CASE CommitInsert
    <3>1. /\ db' = planned /\ op = "insert" /\ ~receipts[InsertIdentity].bound
          /\ receipts' = [receipts EXCEPT ![InsertIdentity] = Receipt(request, results)]
      BY <2>4, Zenon DEF CommitInsert
    <3>2. db' # db => Effective("insert", results)
      BY <1>1, <3>1, Zenon DEF Bookkeeping, EffectsSaved, Effective
    <3> QED BY <1>1, <2>3, <3>1, <3>2, OpenIdentities, Zenon DEF InsertIdentity
  <2>5. CASE CommitClaim
    <3>1. /\ db' = planned /\ op = "claim" /\ ~receipts[ClaimIdentity].bound
          /\ receipts' = [receipts EXCEPT ![ClaimIdentity] = Receipt(request, results[1])]
      BY <1>1, <2>5, Zenon DEF CommitClaim, Shape, View
    <3>2. db' # db => Effective("claim", results[1])
      BY <1>1, <3>1, Zenon DEF Bookkeeping, EffectsSaved, Effective
    <3> QED BY <1>1, <2>3, <3>1, <3>2, OpenIdentities, Zenon DEF ClaimIdentity
  <2>6. CASE CommitBatch
    <3>1. db' = planned /\ op = "commit" /\ receipts' = saved
      BY <2>6, Zenon DEF CommitBatch
    <3>2. Bound
      BY <1>1, <3>1, Zenon DEF Bookkeeping, SavedExtends
    <3>3. db' # db => \E d \in Identity : New(d)
      BY <1>1, <3>1, Zenon DEF Bookkeeping, EffectsSaved, Effective
    <3> QED BY <3>2, <3>3, Zenon
  <2> QED BY <1>1, <2>2, <2>4, <2>5, <2>6, Zenon DEF Next
<1>2. Shape /\ Bookkeeping /\ [Next]_vars => [Bound /\ (db' # db => \E d \in Identity : New(d))]_vars
  BY <1>1, Zenon
<1> QED BY <1>2, ShapeAlways, BooksAlways, PTL DEF Spec, ReceiptsBindEffects

-----------------------------------------------------------------------------
(***************************************************************************)
(* Leases.                                                                 *)
(***************************************************************************)

\* The receipt of claim d, or the result of the open claim, holds the lease.
Found(d, k, token) ==
    /\ receipts[d].bound
    /\ \E i \in 1..Len(receipts[d].outcome) : receipts[d].outcome[i] = [key |-> k, token |-> token]
Backed(k, token) == \E d \in ClaimIdentities : Found(d, k, token)
Offered(k, token) ==
    /\ op = "claim" /\ results # << >>
    /\ \E i \in 1..Len(results[1]) : results[1][i] = [key |-> k, token |-> token]

\* The tokens in the receipts were issued, each to one claim, and the open
\* claim holds the ones that come next.
TokensBounded ==
    \A d \in ClaimIdentities : receipts[d].bound =>
        \A i \in 1..Len(receipts[d].outcome) : receipts[d].outcome[i].token \in 1..issued
TokensDistinct ==
    \A c, d \in ClaimIdentities : (receipts[c].bound /\ receipts[d].bound) =>
        \A i \in 1..Len(receipts[c].outcome) : \A j \in 1..Len(receipts[d].outcome) :
            receipts[c].outcome[i].token = receipts[d].outcome[j].token => c = d
TokensFollow ==
    (op = "claim" /\ results # << >>) =>
        \A i \in 1..Len(results[1]) : results[1][i].token = issued + i
TokensIssued == TokensBounded /\ TokensDistinct /\ TokensFollow

\* Every stored lease is backed by a receipt, every planned one by a receipt
\* or by the result that the open claim is about to save.
LeasesBacked ==
    /\ \A k \in Keys : db.rows[k].token # 0 => Backed(k, db.rows[k].token)
    /\ \A k \in Keys : planned.rows[k].token # 0 =>
         Backed(k, planned.rows[k].token) \/ Offered(k, planned.rows[k].token)

\* Only work that is there is leased.
LeasedActive ==
    \A r \in Records : /\ db.rows[r].lifecycle = "Leased" => db.rows[r].active
                       /\ planned.rows[r].lifecycle = "Leased" => planned.rows[r].active

LeaseInv == TokensIssued /\ LeasesBacked /\ LeasedActive

-----------------------------------------------------------------------------
\* The receipts of claims change only when a claim commits.
LEMMA ClaimReceipts ==
    ASSUME Shape, Bookkeeping, [Next]_vars, ~CommitClaim
    PROVE  issued' = issued /\ \A d \in ClaimIdentities : receipts'[d] = receipts[d]
<1>0. DOMAIN receipts = Identity /\ ClaimIdentities \subseteq Identity
  BY DEF Shape, TablesOK, ClaimIdentities, Identity
<1>1. \A d \in ClaimIdentities : d[1] = "claim"
  BY Zenon DEF ClaimIdentities
<1>2. CASE UNCHANGED <<receipts, issued>>
  BY <1>2, Zenon
<1>3. CASE Tick \/ BeginInsert \/ BeginClaim \/ BeginCommit \/ ReplayInsert \/ ReplayClaim
           \/ InsertItem \/ SelectClaim \/ CommitGroup \/ Rollback \/ UNCHANGED vars
  BY <1>2, <1>3, Zenon DEF Tick, BeginInsert, BeginClaim, BeginCommit, Begin, ReplayInsert, ReplayClaim,
     InsertItem, SelectClaim, CommitGroup, Rollback, vars
<1>4. CASE CommitInsert
  <2>1. /\ receipts' = [receipts EXCEPT ![InsertIdentity] = Receipt(request, results)]
        /\ issued' = issued
    BY <1>4, Zenon DEF CommitInsert
  <2>2. \A d \in ClaimIdentities : d # InsertIdentity
    BY DEF ClaimIdentities, InsertIdentity
  <2> QED BY <1>0, <2>1, <2>2, Zenon
<1>5. CASE CommitBatch
  <2>1. receipts' = saved /\ issued' = issued
    BY <1>5, Zenon DEF CommitBatch
  <2> QED BY <1>0, <1>1, <2>1, Zenon DEF Bookkeeping, SavedExtends
<1> QED BY <1>3, <1>4, <1>5, Zenon DEF Next

\* What the receipt of a claim holds.
LEMMA ClaimOutcome ==
    ASSUME Shape, NEW d \in ClaimIdentities, receipts[d].bound
    PROVE  /\ receipts[d].outcome \in Seq(ClaimItem)
           /\ \A i \in 1..Len(receipts[d].outcome) :
                receipts[d].outcome[i].key \in Keys /\ receipts[d].outcome[i].token \in Nat
<1>1. d \in Identity /\ d[1] = "claim"
  BY Zenon DEF ClaimIdentities, Identity
<1>2. receipts[d].outcome \in Seq(ClaimItem)
  BY <1>1, Zenon DEF Shape, TablesOK, ReceiptOK
<1>3. \A i \in 1..Len(receipts[d].outcome) : receipts[d].outcome[i] \in ClaimItem
  BY <1>2, ElementType, Zenon
<1> QED BY <1>2, <1>3, Zenon DEF ClaimItem

\* The commit of a claim.
LEMMA ClaimCommitted ==
    ASSUME Shape, CommitClaim
    PROVE  /\ ClaimIdentity \in ClaimIdentities /\ ~receipts[ClaimIdentity].bound
           /\ receipts'[ClaimIdentity].bound /\ receipts'[ClaimIdentity].outcome = results[1]
           /\ \A d \in ClaimIdentities : d # ClaimIdentity => receipts'[d] = receipts[d]
           /\ results[1] \in Seq(ClaimItem) /\ issued' = issued + Len(results[1])
           /\ op = "claim" /\ results # << >> /\ db' = planned /\ planned' = planned /\ op' = "none"
<1>0. DOMAIN receipts = Identity /\ ClaimIdentities \subseteq Identity
  BY Zenon DEF Shape, TablesOK, ClaimIdentities, Identity
<1>1. /\ request \in ClaimRequests /\ results \in Seq(Seq(ClaimItem)) /\ Len(results) = 1
      /\ ~receipts[ClaimIdentity].bound
      /\ receipts' = [receipts EXCEPT ![ClaimIdentity] = Receipt(request, results[1])]
      /\ issued' = issued + Len(results[1])
      /\ op = "claim" /\ results # << >> /\ db' = planned /\ planned' = planned /\ op' = "none"
  BY Zenon DEF CommitClaim, Shape, TransactionOK, View, End
<1>2. ClaimIdentity \in ClaimIdentities
  BY <1>1, RequestAssumption, Zenon DEF ClaimIdentity, ClaimRequest, ClaimIdentities
<1>3. results[1] \in Seq(ClaimItem)
  <2>1. 1 \in 1..Len(results)
    BY <1>1
  <2> QED BY <1>1, <2>1, ElementType, Zenon
<1>4. Receipt(request, results[1]).bound /\ Receipt(request, results[1]).outcome = results[1]
  BY Zenon DEF Receipt
<1> QED BY <1>0, <1>1, <1>2, <1>3, <1>4, Zenon

\* Tokens stay distinct: a claim draws numbers above all that were issued.
LEMMA TokensNext ==
    ASSUME Shape, Shape', Bookkeeping, TokensIssued, [Next]_vars
    PROVE  TokensIssued'
<1>1. CASE CommitClaim
  <2>1. /\ ClaimIdentity \in ClaimIdentities /\ ~receipts[ClaimIdentity].bound
        /\ receipts'[ClaimIdentity].bound /\ receipts'[ClaimIdentity].outcome = results[1]
        /\ \A d \in ClaimIdentities : d # ClaimIdentity => receipts'[d] = receipts[d]
        /\ results[1] \in Seq(ClaimItem) /\ issued' = issued + Len(results[1])
        /\ op = "claim" /\ results # << >> /\ op' = "none"
    BY <1>1, ClaimCommitted, Zenon
  <2> DEFINE mine == ClaimIdentity
             n == Len(results[1])
  <2>2. n \in Nat /\ issued \in Nat
    BY <2>1 DEF Shape
  <2>3. \A i \in 1..n : results[1][i].token = issued + i
    BY <2>1, Zenon DEF TokensIssued, TokensBounded, TokensDistinct, TokensFollow
  <2>4. ASSUME NEW d \in ClaimIdentities, receipts'[d].bound, NEW i \in 1..Len(receipts'[d].outcome)
        PROVE  /\ receipts'[d].outcome[i].token \in 1..issued'
               /\ IF d = mine THEN receipts'[d].outcome[i].token > issued
                  ELSE receipts'[d].outcome[i].token =< issued
    <3> HIDE DEF mine
    <3>1. CASE d = mine
      <4>1. receipts'[d].outcome = results[1] /\ i \in 1..n
        BY <2>1, <2>4, <3>1, Zenon DEF mine
      <4>2. receipts'[d].outcome[i].token = issued + i
        BY <2>3, <4>1, Zenon
      <4>3. \A a, b \in Nat : \A c \in 1..b : a + c \in 1..(a + b) /\ a + c > a
        OBVIOUS
      <4> QED BY <2>1, <2>2, <3>1, <4>1, <4>2, <4>3, Zenon
    <3>2. CASE d # mine
      <4>1. receipts'[d] = receipts[d]
        BY <2>1, <3>2, Zenon DEF mine
      <4>2. receipts'[d].outcome[i].token \in 1..issued
        BY <2>4, <4>1, Zenon DEF TokensIssued, TokensBounded, TokensDistinct, TokensFollow
      <4> DEFINE t == receipts'[d].outcome[i].token
      <4>3. issued \in Nat /\ issued' \in Nat /\ issued =< issued'
        BY <2>1, <2>2
      <4> HIDE DEF t, n
      <4>4. t \in 1..issued
        BY <4>2, Zenon DEF t
      <4>5. t \in 1..issued' /\ t =< issued
        BY <4>3, <4>4
      <4> QED BY <3>2, <4>5, Zenon DEF t
    <3> QED BY <3>1, <3>2, Zenon
  <2>5. ASSUME NEW c \in ClaimIdentities, NEW d \in ClaimIdentities, receipts'[c].bound, receipts'[d].bound,
               NEW i \in 1..Len(receipts'[c].outcome), NEW j \in 1..Len(receipts'[d].outcome),
               receipts'[c].outcome[i].token = receipts'[d].outcome[j].token
        PROVE  c = d
    <3> DEFINE ct == receipts'[c].outcome[i].token
               dt == receipts'[d].outcome[j].token
    <3>1. /\ ct \in 1..issued' /\ dt \in 1..issued' /\ ct = dt
          /\ IF c = mine THEN ct > issued ELSE ct =< issued
          /\ IF d = mine THEN dt > issued ELSE dt =< issued
      BY <2>4, <2>5, Zenon
    <3>2. c = mine <=> d = mine
      <4> HIDE DEF ct, dt, mine
      <4>1. \A t \in 1..issued' : ~(t > issued /\ t =< issued)
        BY <2>2
      <4> QED BY <3>1, <4>1, Zenon
    <3>3. CASE c # mine /\ d # mine
      <4>1. receipts'[c] = receipts[c] /\ receipts'[d] = receipts[d]
        BY <2>1, <3>3, Zenon
      <4> QED BY <2>5, <4>1, SMTT(30) DEF TokensIssued, TokensBounded, TokensDistinct, TokensFollow
    <3> QED BY <3>2, <3>3, Zenon
  <2> QED BY <2>1, <2>4, <2>5, Zenon DEF TokensIssued, TokensBounded, TokensDistinct, TokensFollow
<1>2. CASE ~CommitClaim
  <2>1. issued' = issued /\ \A d \in ClaimIdentities : receipts'[d] = receipts[d]
    BY <1>2, ClaimReceipts, Zenon
  <2>2. (op' = "claim" /\ results' # << >>) => \A i \in 1..Len(results'[1]) : results'[1][i].token = issued + i
    <3>1. CASE SelectClaim
      <4>1. PICK n \in Nat : \E s \in [1..n -> Keys] :
              results' = <<[i \in 1..n |-> [key |-> s[i], token |-> issued + i]]>>
        BY <3>1, SelectStep, Zenon
      <4>2. PICK s \in [1..n -> Keys] : results' = <<[i \in 1..n |-> [key |-> s[i], token |-> issued + i]]>>
        BY <4>1, Zenon
      <4> DEFINE items == [i \in 1..n |-> [key |-> s[i], token |-> issued + i]]
      <4>3. results' = <<items>> /\ Len(items) = n /\ \A i \in 1..n : items[i].token = issued + i
        BY <4>2
      <4> HIDE DEF items
      <4>4. results'[1] = items
        BY <4>3, Zenon
      <4>5. \A i \in 1..Len(results'[1]) : results'[1][i].token = issued + i
        BY <4>3, <4>4, Zenon
      <4> QED BY <4>5, Zenon
    <3>2. CASE UNCHANGED <<op, results>>
      BY <3>2, Zenon DEF TokensIssued, TokensBounded, TokensDistinct, TokensFollow
    <3>3. CASE Tick \/ UNCHANGED vars
      BY <3>2, <3>3, Zenon DEF Tick, vars, tx
    <3>4. CASE BeginInsert \/ BeginClaim \/ BeginCommit
      BY <3>4, Zenon DEF BeginInsert, BeginClaim, BeginCommit, Begin, Shape, TransactionOK
    <3>5. CASE End
      BY <3>5, Zenon DEF End
    <3>6. CASE ReplayInsert \/ ReplayClaim \/ CommitInsert \/ CommitBatch \/ Rollback
      BY <3>5, <3>6, Zenon DEF ReplayInsert, ReplayClaim, CommitInsert, CommitBatch, Rollback
    <3>7. CASE InsertItem \/ CommitGroup
      BY <3>7, Zenon DEF InsertItem, CommitGroup
    <3> QED BY <1>2, <3>1, <3>3, <3>4, <3>6, <3>7, Zenon DEF Next
  <2>3. TokensBounded'
    BY <2>1, Zenon DEF TokensIssued, TokensBounded
  <2>4. TokensDistinct'
    <3> SUFFICES ASSUME NEW c \in ClaimIdentities, NEW d \in ClaimIdentities, receipts'[c].bound, receipts'[d].bound,
                        NEW i \in 1..Len(receipts'[c].outcome), NEW j \in 1..Len(receipts'[d].outcome),
                        receipts'[c].outcome[i].token = receipts'[d].outcome[j].token
                 PROVE  c = d
      BY Zenon DEF TokensDistinct
    <3>1. receipts'[c] = receipts[c] /\ receipts'[d] = receipts[d]
      BY <2>1, Zenon
    <3> QED BY <3>1, SMTT(30) DEF TokensIssued, TokensDistinct
  <2>5. TokensFollow'
    BY <2>1, <2>2, Zenon DEF TokensFollow
  <2> QED BY <2>3, <2>4, <2>5, Zenon DEF TokensIssued
<1> QED BY <1>1, <1>2, Zenon

\* Only work that is there is leased, and a lease keeps its backing.
LEMMA LeasedActiveNext ==
    ASSUME Shape, LeasedActive, [Next]_vars PROVE LeasedActive'
<1>1. CASE UNCHANGED <<db, planned>>
  BY <1>1, Zenon DEF LeasedActive
<1>2. CASE planned' = db' /\ (db' = db \/ db' = planned)
  BY <1>2, Zenon DEF LeasedActive
<1>3. CASE Planning
  BY <1>3, Zenon DEF LeasedActive, Planning, RowStep
<1>4. CASE Claiming
  BY <1>4, Zenon DEF LeasedActive, Claiming, ClaimStep
<1> QED BY <1>1, <1>2, <1>3, <1>4, StepKinds, Zenon

\* A lease keeps its backing in every step.
LEMMA BackedNext ==
    ASSUME Shape, Shape', Bookkeeping, LeasesBacked, [Next]_vars PROVE LeasesBacked'
<1>0. \A k \in Keys : k \in Records
  BY Zenon DEF Records
<1>1. CASE CommitClaim
  <2>1. /\ ClaimIdentity \in ClaimIdentities /\ ~receipts[ClaimIdentity].bound
        /\ receipts'[ClaimIdentity].bound /\ receipts'[ClaimIdentity].outcome = results[1]
        /\ \A d \in ClaimIdentities : d # ClaimIdentity => receipts'[d] = receipts[d]
        /\ db' = planned /\ planned' = planned
    BY <1>1, ClaimCommitted, Zenon
  <2>2. ASSUME NEW k, NEW token, Backed(k, token) \/ Offered(k, token) PROVE Backed(k, token)'
    <3>1. CASE Offered(k, token)
      <4>1. \E i \in 1..Len(receipts'[ClaimIdentity].outcome) :
              receipts'[ClaimIdentity].outcome[i] = [key |-> k, token |-> token]
        BY <2>1, <3>1, Zenon DEF Offered
      <4> DEFINE mine == ClaimIdentity
      <4>2. \E d \in ClaimIdentities : receipts'[d].bound /\
              \E i \in 1..Len(receipts'[d].outcome) : receipts'[d].outcome[i] = [key |-> k, token |-> token]
        BY <2>1, <4>1, Zenon
      <4> QED BY <4>2, Zenon DEF Backed, Found
    <3>2. CASE Backed(k, token)
      BY <2>1, <3>2, SMTT(30) DEF Backed, Found
    <3> QED BY <2>2, <3>1, <3>2, Zenon
  <2> QED BY <2>1, <2>2, Zenon DEF LeasesBacked
<1>2. CASE ~CommitClaim
  <2>1. \A d \in ClaimIdentities : receipts'[d] = receipts[d]
    BY <1>2, ClaimReceipts, Zenon
  <2>2. \A k, token : Backed(k, token) => Backed(k, token)'
    BY <2>1, Zenon DEF Backed, Found
  <2>3. CASE Tick \/ UNCHANGED vars
    <3>1. UNCHANGED <<db, planned, op, results>>
      BY <2>3, Zenon DEF Tick, vars, tx
    <3> QED BY <2>2, <3>1, Zenon DEF LeasesBacked, Offered
  <2>4. CASE BeginInsert \/ BeginClaim \/ BeginCommit
    <3>1. UNCHANGED <<db, planned>> /\ planned = db
      BY <2>4, Zenon DEF BeginInsert, BeginClaim, BeginCommit, Begin, Shape, View
    <3> QED BY <2>2, <3>1, Zenon DEF LeasesBacked
  <2>5. CASE ReplayInsert \/ ReplayClaim \/ Rollback
    <3>1. db' = db /\ planned' = db
      BY <2>5, Zenon DEF ReplayInsert, ReplayClaim, Rollback, End
    <3> QED BY <2>2, <3>1, Zenon DEF LeasesBacked
  <2>6. CASE CommitInsert \/ CommitBatch
    <3>1. db' = planned /\ planned' = planned /\ op # "claim"
      BY <2>6, Zenon DEF CommitInsert, CommitBatch, End
    <3> QED BY <2>2, <3>1, Zenon DEF LeasesBacked, Offered
  <2>7. CASE InsertItem \/ CommitGroup
    <3>1. op # "claim" /\ db' = db
      BY <2>7, Zenon DEF InsertItem, CommitGroup
    <3>2. planned' = planned \/ Planning
      BY <2>7, InsertStep, GroupStep, Zenon
    <3>3. ASSUME NEW k \in Keys, planned'.rows[k].token # 0 PROVE planned.rows[k].token = planned'.rows[k].token
      <4>1. CASE Planning
        BY <1>0, <3>3, <4>1, Zenon DEF Planning, RowStep, ValidLease
      <4> QED BY <3>2, <4>1, Zenon
    <3>4. \A k \in Keys : planned'.rows[k].token # 0 => Backed(k, planned'.rows[k].token)
      BY <3>1, <3>3, Zenon DEF LeasesBacked, Offered
    <3> QED BY <2>2, <3>1, <3>4, Zenon DEF LeasesBacked
  <2>8. CASE SelectClaim
    <3>1. op' = "claim" /\ planned = db /\ db' = db
      BY <2>8, Zenon DEF SelectClaim, Shape, View
    <3>2. PICK n \in Nat : \E s \in [1..n -> Keys] :
            /\ results' = <<[i \in 1..n |-> [key |-> s[i], token |-> issued + i]]>>
            /\ \A r \in Records :
                 \/ planned'.rows[r] = planned.rows[r]
                 \/ \E i \in 1..n : s[i] = r /\ planned'.rows[r].token = issued + i
      BY <2>8, SelectStep, Zenon
    <3>3. PICK s \in [1..n -> Keys] :
            /\ results' = <<[i \in 1..n |-> [key |-> s[i], token |-> issued + i]]>>
            /\ \A r \in Records :
                 \/ planned'.rows[r] = planned.rows[r]
                 \/ \E i \in 1..n : s[i] = r /\ planned'.rows[r].token = issued + i
      BY <3>2, Zenon
    <3> DEFINE items == [i \in 1..n |-> [key |-> s[i], token |-> issued + i]]
    <3>4. results' = <<items>> /\ Len(items) = n /\ \A i \in 1..n : items[i] = [key |-> s[i], token |-> issued + i]
      BY <3>3, SMTT(30)
    <3> HIDE DEF items
    <3>5. results' # << >> /\ results'[1] = items
      BY <3>4, Zenon
    <3>6. ASSUME NEW k \in Keys, planned'.rows[k].token # 0
          PROVE  Backed(k, planned.rows[k].token)' \/ Offered(k, planned.rows[k].token)'
      <4>1. CASE planned'.rows[k] = planned.rows[k]
        BY <2>2, <3>1, <3>6, <4>1, Zenon DEF LeasesBacked
      <4>2. ASSUME NEW i \in 1..n, s[i] = k, planned'.rows[k].token = issued + i
            PROVE  Offered(k, planned.rows[k].token)'
        <5>1. results'[1][i] = [key |-> k, token |-> planned'.rows[k].token] /\ i \in 1..Len(results'[1])
          BY <3>4, <3>5, <4>2, Zenon
        <5> QED BY <3>1, <3>5, <5>1, Zenon DEF Offered
      <4> QED BY <1>0, <3>3, <4>1, <4>2, Zenon
    <3> QED BY <2>2, <3>1, <3>6, Zenon DEF LeasesBacked
  <2> QED BY <1>2, <2>3, <2>4, <2>5, <2>6, <2>7, <2>8 DEF Next
<1> QED BY <1>1, <1>2, Zenon

\* The lease invariant holds in every behaviour.
LEMMA LeaseAlways == Spec => []LeaseInv
<1>1. Init => LeaseInv
  <2> SUFFICES ASSUME Init PROVE LeaseInv
    OBVIOUS
  <2>1. \A r \in Records : db.rows[r] = InactiveRow(0) /\ planned.rows[r] = InactiveRow(0)
    BY Zenon DEF Init, EmptySnapshot
  <2>2. InactiveRow(0).token = 0 /\ InactiveRow(0).lifecycle = "Pending"
    BY DEF InactiveRow
  <2>3. \A d \in ClaimIdentities : ~receipts[d].bound
    BY Zenon DEF Init, NoReceipt, ClaimIdentities, Identity
  <2>4. LeasesBacked /\ LeasedActive
    BY <2>1, <2>2, Zenon DEF LeasesBacked, LeasedActive, Records
  <2>5. TokensIssued
    BY <2>3, Zenon DEF Init, TokensIssued, TokensBounded, TokensDistinct, TokensFollow
  <2> QED BY <2>4, <2>5, Zenon DEF LeaseInv
<1>2. Shape /\ Shape' /\ Bookkeeping /\ LeaseInv /\ [Next]_vars => LeaseInv'
  BY TokensNext, BackedNext, LeasedActiveNext, Zenon DEF LeaseInv
<1> QED BY <1>1, <1>2, ShapeAlways, BooksAlways, PTL DEF Spec

\* A record is leased to one claim at a time.
THEOREM OneClaimSafe == Spec => []OneLiveClaim
<1>1. LeaseInv => OneLiveClaim
  <2> SUFFICES ASSUME LeaseInv, NEW c \in ClaimIdentities, NEW d \in ClaimIdentities, NEW k \in Keys,
                      Holds(c, k), Holds(d, k)
               PROVE  c = d
    BY Zenon DEF OneLiveClaim
  <2>1. PICK i \in 1..Len(receipts[c].outcome) : receipts[c].outcome[i].token = db.rows[k].token
    BY Zenon DEF Holds, Owns
  <2>2. PICK j \in 1..Len(receipts[d].outcome) : receipts[d].outcome[j].token = db.rows[k].token
    BY Zenon DEF Holds, Owns
  <2>3. receipts[c].bound /\ receipts[d].bound
    BY Zenon DEF Holds
  <2> QED BY <2>1, <2>2, <2>3, Zenon DEF LeaseInv, TokensIssued, TokensDistinct
<1> QED BY <1>1, LeaseAlways, PTL

\* A stored lease can be recovered from the receipt of its claim.
THEOREM LeasesRecoverable == Spec => []LeasesHaveReceipts
<1>1. LeaseInv => LeasesHaveReceipts
  BY Zenon DEF LeaseInv, LeasesBacked, Backed, Found, LeasesHaveReceipts
<1> QED BY <1>1, LeaseAlways, PTL

-----------------------------------------------------------------------------
(***************************************************************************)
(* Refused claims.                                                         *)
(***************************************************************************)

\* The row is not leased under the token, or the lease has run out.
Gone(row, token) == row.token # token \/ row.expires =< now

Refused(d) == \E sent \in answers[d] : sent.status = "ClaimExpired"

\* A refused claim has lost a record for good, and an open transaction does
\* not give it back.
RefusedLost ==
    \A d \in ClaimIdentities : Refused(d) =>
        /\ receipts[d].bound
        /\ \E i \in 1..Len(receipts[d].outcome) :
             LET k == receipts[d].outcome[i].key
                 token == receipts[d].outcome[i].token
             IN  Gone(db.rows[k], token) /\ Gone(planned.rows[k], token)

\* Refusals are sent by the replay of a claim only.
LEMMA RefusalsSent ==
    ASSUME Shape, Bookkeeping, [Next]_vars, NEW d \in ClaimIdentities, Refused(d)', ~Refused(d)
    PROVE  /\ ReplayClaim /\ d = ClaimIdentity /\ receipts[d].bound
           /\ ~LiveReplay(receipts[d].outcome, planned.rows, now)
<1>0. DOMAIN answers = Identity /\ d \in Identity
  BY Zenon DEF Shape, TablesOK, ClaimIdentities, Identity
<1>1. PICK sent \in answers'[d] : sent.status = "ClaimExpired" /\ sent \notin answers[d]
  BY Zenon DEF Refused
<1>2. ASSUME NEW identity \in Identity, NEW content, NEW result, Answer(identity, content, result)
      PROVE  d = identity /\ result.status = "ClaimExpired"
  <2>1. d = identity /\ sent \in Told(content, result)
    <3>1. /\ \A e \in Identity : e # identity => answers'[e] = answers[e]
          /\ answers'[identity] = answers[identity] \cup Told(content, result)
      BY <1>0, <1>2, AnswerAdds, Zenon
    <3>2. d = identity
      BY <1>0, <1>1, <3>1, Zenon
    <3> QED BY <1>1, <3>1, <3>2, Zenon
  <2> QED BY <1>1, <2>1, ToldIs, SMTT(30)
<1>3. CASE UNCHANGED answers
  BY <1>1, <1>3, Zenon
<1>4. CASE Tick \/ BeginInsert \/ BeginClaim \/ BeginCommit \/ InsertItem \/ SelectClaim
           \/ CommitGroup \/ Rollback \/ UNCHANGED vars
  BY <1>3, <1>4, Zenon DEF Tick, BeginInsert, BeginClaim, BeginCommit, Begin, InsertItem, SelectClaim,
     CommitGroup, Rollback, vars
<1>5. CASE ReplayInsert \/ CommitInsert
  <2>1. op = "insert" /\ \E result : Answer(InsertIdentity, request, result)
    BY <1>5, Zenon DEF ReplayInsert, CommitInsert
  <2>2. d = InsertIdentity
    BY <1>2, <2>1, OpenIdentities, Zenon
  <2> QED BY <2>2, Zenon DEF InsertIdentity, ClaimIdentities
<1>6. CASE CommitClaim
  <2>1. op = "claim" /\ Answer(ClaimIdentity, request, Ok(results[1]))
    BY <1>6, Zenon DEF CommitClaim, Shape, TransactionOK
  <2>2. Ok(results[1]).status = "ClaimExpired"
    BY <1>2, <2>1, OpenIdentities, Zenon
  <2> QED BY <2>2, Zenon DEF Ok
<1>7. CASE CommitBatch
  <2>1. /\ op = "commit"
        /\ answers' = [e \in Identity |->
             answers[e] \cup UNION {Told(request[i], results[i]) :
                                    i \in {j \in 1..Len(request) : GroupIdentity(request[j]) = e}}]
    BY <1>7, Zenon DEF CommitBatch
  <2>2. \A i \in 1..Len(request) : GroupIdentity(request[i]) # d
    BY DEF GroupIdentity, ClaimIdentities
  <2>3. sent \in UNION {Told(request[i], results[i]) :
                        i \in {j \in 1..Len(request) : GroupIdentity(request[j]) = d}}
    BY <1>0, <1>1, <2>1, Zenon
  <2> QED BY <2>2, <2>3, Zenon
<1>8. CASE ReplayClaim
  <2> DEFINE found == Replayed(receipts[ClaimIdentity], request)
             lost == found.status = "Ok" /\ ~LiveReplay(found.value, planned.rows, now)
             result == IF lost THEN Failed("ClaimExpired") ELSE found
  <2>1. op = "claim" /\ receipts[ClaimIdentity].bound /\ Answer(ClaimIdentity, request, result)
    BY <1>8, Zenon DEF ReplayClaim
  <2>2. d = ClaimIdentity /\ result.status = "ClaimExpired"
    <3> HIDE DEF result
    <3> QED BY <1>2, <2>1, OpenIdentities, Zenon
  <2>3. found.status \in {"Ok", "RequestConflict"} /\ (found.status = "Ok" => found.value = receipts[ClaimIdentity].outcome)
    BY Zenon DEF Replayed, Ok, Failed
  <2>4. lost
    <3> HIDE DEF found
    <3> QED BY <2>2, <2>3, Zenon
  <2> HIDE DEF found
  <2> QED BY <1>8, <2>1, <2>2, <2>3, <2>4, Zenon
<1> QED BY <1>4, <1>5, <1>6, <1>7, <1>8, Zenon DEF Next

\* Credentials that are gone stay gone.
LEMMA GoneStays ==
    ASSUME Shape, Shape', Bookkeeping, LeaseInv, [Next]_vars,
           NEW k \in Keys, NEW token \in 1..issued,
           Gone(db.rows[k], token), Gone(planned.rows[k], token)
    PROVE  Gone(db.rows[k], token)' /\ Gone(planned.rows[k], token)'
<1>0. /\ now \in Nat /\ issued \in Nat /\ k \in Records
      /\ db.rows[k].expires \in Nat /\ planned.rows[k].expires \in Nat
      /\ planned.rows[k] \in Row /\ planned'.rows[k] \in Row
  <2>1. db.rows[k] \in Row /\ planned.rows[k] \in Row /\ planned'.rows[k] \in Row /\ k \in Records
    BY DEF Shape, Sound, ValidSnapshot, Snapshot, Records
  <2>2. \A row \in Row : row.expires \in Nat
    BY ConstantTypes, Zenon DEF Row
  <2> QED BY <2>1, <2>2, ConstantTypes, Zenon DEF Shape
<1>1. now' = now \/ now' = now + 1
  BY Zenon DEF Next, Tick, BeginInsert, BeginClaim, BeginCommit, Begin, ReplayInsert, InsertItem, CommitInsert,
     ReplayClaim, SelectClaim, CommitClaim, CommitGroup, CommitBatch, Rollback, vars
<1>a. now \in Nat
  BY <1>0, Zenon
<1>b. \A e \in Nat : e =< now => e =< now' /\ ~(e > now)
  BY <1>a, <1>1
<1>2. CASE UNCHANGED <<db, planned>>
  BY <1>0, <1>b, <1>2, Zenon DEF Gone
<1>3. CASE planned' = db' /\ (db' = db \/ db' = planned)
  BY <1>0, <1>b, <1>3, Zenon DEF Gone
<1>4. CASE Planning
  <2> DEFINE row == planned.rows[k]
             new == planned'.rows[k]
  <2>1. RowStep(row, new, now)
    BY <1>0, <1>4, Zenon DEF Planning
  <2>2. row.token # token \/ row.expires =< now
    BY Zenon DEF Gone
  <2> HIDE DEF row, new
  <2>3. new.token = token => new.token # 0
    BY <1>0
  <2>4. new.token = token => new.lifecycle = "Leased"
    BY <2>1, <2>3, Zenon DEF RowStep, ValidLease
  <2>5. new.token = token => row.token = token /\ (new.expires = row.expires \/ ActiveLease(row, now))
    BY <2>1, <2>4, Zenon DEF RowStep
  <2>6. row.expires \in Nat
    BY <1>0, Zenon DEF row
  <2>7. new.token # token \/ new.expires =< now'
    BY <1>b, <2>2, <2>5, <2>6, Zenon DEF ActiveLease
  <2>8. Gone(db.rows[k], token)'
    BY <1>0, <1>b, <1>4, Zenon DEF Planning, Gone
  <2> QED BY <2>7, <2>8, Zenon DEF Gone, new
<1>5. CASE Claiming
  <2>1. Gone(db.rows[k], token)'
    BY <1>0, <1>b, <1>5, Zenon DEF Claiming, Gone
  <2>2. planned'.rows[k] = planned.rows[k] \/ planned'.rows[k].token > issued
    BY <1>0, <1>5, Zenon DEF Claiming, ClaimStep
  <2>3. planned'.rows[k].token > issued => planned'.rows[k].token # token
    BY <1>0, SMTT(30)
  <2>4. Gone(planned.rows[k], token)'
    BY <1>0, <1>b, <2>2, <2>3, Zenon DEF Gone
  <2> QED BY <2>1, <2>4, Zenon
<1> QED BY <1>2, <1>3, <1>4, <1>5, StepKinds, Zenon

\* A credential that a replay finds dead is gone.
LEMMA DeadGone ==
    ASSUME Shape, LeaseInv, NEW k \in Keys, NEW token \in 1..issued, ~Owns(planned.rows[k], token, now)
    PROVE  Gone(planned.rows[k], token)
<1> DEFINE row == planned.rows[k]
<1>1. row \in Row /\ ValidLease(row) /\ (row.lifecycle = "Leased" => row.active)
  BY DEF Shape, Sound, ValidSnapshot, Snapshot, Loadable, LeaseInv, LeasedActive, Records
<1>2. row.expires \in Int /\ now \in Int /\ token # 0
  <2>1. row.expires \in Time /\ now \in Time
    BY <1>1, Zenon DEF Row, Shape
  <2>2. token # 0
    BY DEF Shape
  <2> QED BY <2>1, <2>2, ConstantTypes, Zenon
<1>3. ~Owns(row, token, now)
  OBVIOUS
<1> HIDE DEF row
<1>4. row.token = token => row.lifecycle = "Leased"
  BY <1>1, <1>2, Zenon DEF ValidLease
<1>5. Gone(row, token)
  <2>1. ASSUME row.token = token PROVE ~(row.expires > now)
    BY <1>1, <1>3, <1>4, <2>1, Zenon DEF Owns, ActiveLease
  <2>2. ASSUME ~(row.expires > now) PROVE row.expires =< now
    BY <1>2, <2>2
  <2> QED BY <2>1, <2>2, Zenon DEF Gone
<1> QED BY <1>5, Zenon DEF row

\* Steps keep refused claims lost.
LEMMA RefusedNext ==
    ASSUME Shape, Shape', Bookkeeping, LeaseInv, RefusedLost, [Next]_vars PROVE RefusedLost'
<1> SUFFICES ASSUME NEW d \in ClaimIdentities, Refused(d)'
             PROVE  /\ receipts'[d].bound
                    /\ \E i \in 1..Len(receipts'[d].outcome) :
                         /\ Gone(db.rows[receipts[d].outcome[i].key], receipts[d].outcome[i].token)'
                         /\ Gone(planned.rows[receipts[d].outcome[i].key], receipts[d].outcome[i].token)'
  BY Zenon DEF RefusedLost
<1>1. /\ receipts[d].bound
      /\ \E i \in 1..Len(receipts[d].outcome) :
           /\ Gone(db.rows[receipts[d].outcome[i].key], receipts[d].outcome[i].token)
           /\ Gone(planned.rows[receipts[d].outcome[i].key], receipts[d].outcome[i].token)
  <2>1. CASE Refused(d)
    BY <2>1, Zenon DEF RefusedLost
  <2>2. CASE ~Refused(d)
    <3>1. /\ ReplayClaim /\ receipts[d].bound
          /\ ~LiveReplay(receipts[d].outcome, planned.rows, now)
      BY <2>2, RefusalsSent, Zenon
    <3>2. planned = db
      BY <3>1, Zenon DEF ReplayClaim, Shape, View
    <3>3. PICK i \in 1..Len(receipts[d].outcome) :
            ~Owns(planned.rows[receipts[d].outcome[i].key], receipts[d].outcome[i].token, now)
      BY <3>1, Zenon DEF LiveReplay
    <3>4. receipts[d].outcome[i].key \in Keys /\ receipts[d].outcome[i].token \in 1..issued
      BY <3>1, ClaimOutcome, Zenon DEF LeaseInv, TokensIssued, TokensBounded
    <3>5. Gone(planned.rows[receipts[d].outcome[i].key], receipts[d].outcome[i].token)
      BY <3>3, <3>4, DeadGone, Zenon
    <3> QED BY <3>1, <3>2, <3>5, Zenon
  <2> QED BY <2>1, <2>2, Zenon
<1>2. PICK i \in 1..Len(receipts[d].outcome) :
        /\ Gone(db.rows[receipts[d].outcome[i].key], receipts[d].outcome[i].token)
        /\ Gone(planned.rows[receipts[d].outcome[i].key], receipts[d].outcome[i].token)
  BY <1>1, Zenon
<1>3. receipts'[d] = receipts[d]
  <2>1. CASE CommitClaim
    BY <1>1, <2>1, ClaimCommitted, Zenon
  <2> QED BY <2>1, ClaimReceipts, Zenon
<1> DEFINE k == receipts[d].outcome[i].key
           token == receipts[d].outcome[i].token
<1>4. k \in Keys /\ token \in 1..issued
  BY <1>1, ClaimOutcome, Zenon DEF LeaseInv, TokensIssued, TokensBounded
<1>5. k' = k /\ token' = token
  BY <1>3, Zenon
<1>6. /\ db'.rows[k].token # token \/ db'.rows[k].expires =< now'
      /\ planned'.rows[k].token # token \/ planned'.rows[k].expires =< now'
  <2>1. \A kk \in Keys : \A tt \in 1..issued : Gone(db.rows[kk], tt) /\ Gone(planned.rows[kk], tt) =>
          Gone(db.rows[kk], tt)' /\ Gone(planned.rows[kk], tt)'
    BY GoneStays, Zenon
  <2>2. \A kk \in Keys : \A tt \in 1..issued : Gone(db.rows[kk], tt) /\ Gone(planned.rows[kk], tt) =>
          /\ db'.rows[kk].token # tt \/ db'.rows[kk].expires =< now'
          /\ planned'.rows[kk].token # tt \/ planned'.rows[kk].expires =< now'
    BY <2>1, Zenon DEF Gone
  <2>3. Gone(db.rows[k], token) /\ Gone(planned.rows[k], token)
    BY <1>2, Zenon
  <2> HIDE DEF k, token
  <2> QED BY <1>4, <2>2, <2>3, Zenon
<1>7. Gone(db.rows[receipts[d].outcome[i].key], receipts[d].outcome[i].token)'
      /\ Gone(planned.rows[receipts[d].outcome[i].key], receipts[d].outcome[i].token)'
  BY <1>3, <1>6, Zenon DEF Gone
<1> QED BY <1>1, <1>3, <1>7, Zenon

\* Refused claims are lost in every behaviour.
LEMMA RefusedAlways == Spec => []RefusedLost
<1>1. Init => RefusedLost
  BY Zenon DEF Init, RefusedLost, Refused, ClaimIdentities, Identity
<1>2. Shape /\ Shape' /\ Bookkeeping /\ LeaseInv /\ RefusedLost /\ [Next]_vars => RefusedLost'
  BY RefusedNext, Zenon
<1> QED BY <1>1, <1>2, ShapeAlways, BooksAlways, LeaseAlways, PTL DEF Spec

\* Credentials that were refused are never honoured again.
THEOREM RefusedSafe == Spec => []RefusedClaimsStayRefused
<1>1. Shape /\ RefusedLost => RefusedClaimsStayRefused
  <2> SUFFICES ASSUME Shape, RefusedLost, NEW d \in ClaimIdentities, Refused(d)
               PROVE  ~LiveReplay(receipts[d].outcome, db.rows, now)
    BY Zenon DEF RefusedClaimsStayRefused, Refused
  <2>1. PICK i \in 1..Len(receipts[d].outcome) :
          Gone(db.rows[receipts[d].outcome[i].key], receipts[d].outcome[i].token)
    BY Zenon DEF RefusedLost
  <2>2. receipts[d].outcome[i].key \in Keys
    BY ClaimOutcome, Zenon DEF RefusedLost
  <2> DEFINE row == db.rows[receipts[d].outcome[i].key]
             token == receipts[d].outcome[i].token
  <2>3. row \in Row /\ now \in Time /\ Gone(row, token)
    BY <2>1, <2>2, Zenon DEF Shape, Sound, ValidSnapshot, Snapshot, Records
  <2>4. ~Owns(row, token, now)
    <3> HIDE DEF row, token
    <3>1. row.expires \in Int /\ now \in Int
      BY <2>3, ConstantTypes, Zenon DEF Row
    <3> QED BY <2>3, <3>1 DEF Gone, Owns, ActiveLease
  <2> QED BY <2>4, Zenon DEF LiveReplay
<1> QED BY <1>1, ShapeAlways, RefusedAlways, PTL

-----------------------------------------------------------------------------
(***************************************************************************)
(* The table of leases.                                                    *)
(***************************************************************************)

\* An open claim takes records whose lease is over, under tokens above all that
\* were issued; any other transaction keeps or clears the tokens it finds.
Taken ==
    \A k \in Keys :
        /\ op = "claim" => \/ planned.rows[k] = db.rows[k]
                           \/ /\ planned.rows[k].token > issued
                              /\ ~ActiveLease(db.rows[k], now)
        /\ op # "claim" => planned.rows[k].token \in {0, db.rows[k].token}

\* What the lemmas below need to know of the lease in a row.
LEMMA LeaseColumns ==
    ASSUME NEW s, Sound(s), NEW k \in Keys
    PROVE  k \in Records /\ s.rows[k].expires \in Nat /\ s.rows[k].token \in Nat /\ ValidLease(s.rows[k])
<1>1. k \in Records /\ s.rows[k] \in Row /\ ValidLease(s.rows[k])
  BY Zenon DEF Sound, ValidSnapshot, Snapshot, Loadable, Records
<1>2. \A row \in Row : row.expires \in Nat /\ row.token \in Nat
  BY ConstantTypes, Zenon DEF Row
<1> QED BY <1>1, <1>2, Zenon

\* The same for both rows of a record, with the clock and the tokens.
LEMMA LeaseNumbers ==
    ASSUME Shape, NEW k \in Keys
    PROVE  /\ k \in Records /\ now \in Nat /\ issued \in Nat
           /\ db.rows[k].expires \in Nat /\ db.rows[k].token \in Nat
           /\ planned.rows[k].expires \in Nat /\ planned.rows[k].token \in Nat
           /\ ValidLease(db.rows[k]) /\ ValidLease(planned.rows[k])
  BY LeaseColumns, ConstantTypes, Zenon DEF Shape

\* Only the commit of a claim issues tokens, and only a tick moves the clock.
LEMMA TokensAndTime ==
    ASSUME [Next]_vars
    PROVE  /\ issued' = issued \/ CommitClaim
           /\ now' = now \/ Tick
  BY Zenon DEF Next, Tick, BeginInsert, BeginClaim, BeginCommit, Begin, ReplayInsert, InsertItem, CommitInsert,
     ReplayClaim, SelectClaim, CommitClaim, CommitGroup, CommitBatch, Rollback, vars, tx

\* Every step keeps the relation between planned and committed leases.
LEMMA TakenNext ==
    ASSUME Shape, Taken, [Next]_vars PROVE Taken'
<1>1. CASE UNCHANGED vars
  BY <1>1, Zenon DEF vars, tx, Taken, ActiveLease
<1>2. CASE Tick
  <2> SUFFICES ASSUME NEW k \in Keys, ~ActiveLease(db.rows[k], now) PROVE ~ActiveLease(db.rows[k], now + 1)
    BY <1>2, Zenon DEF Tick, tx, Taken
  <2> QED BY LeaseNumbers DEF ActiveLease
<1>3. CASE BeginInsert \/ BeginClaim \/ BeginCommit
  <2>1. op = "none" /\ UNCHANGED <<db, planned, now, issued>>
    BY <1>3, Zenon DEF BeginInsert, BeginClaim, BeginCommit, Begin
  <2>2. planned = db
    BY <2>1, Zenon DEF Shape, View
  <2> QED BY <2>1, <2>2, Zenon DEF Taken
<1>4. CASE ReplayInsert \/ CommitInsert \/ ReplayClaim \/ CommitClaim \/ CommitBatch \/ Rollback
  <2>1. planned' = db' /\ op' = "none"
    BY <1>4, Zenon DEF ReplayInsert, CommitInsert, ReplayClaim, CommitClaim, CommitBatch, Rollback, End
  <2>2. op' # "claim"
    BY <2>1
  <2> QED BY <2>1, <2>2, Zenon DEF Taken
<1>5. CASE InsertItem \/ CommitGroup
  <2>1. /\ UNCHANGED planned \/ Planning
        /\ UNCHANGED <<db, op>> /\ op \in {"insert", "commit"}
    BY <1>5, InsertStep, GroupStep, Zenon DEF InsertItem, CommitGroup
  <2>2. ASSUME NEW k \in Keys PROVE planned'.rows[k].token \in {0, planned.rows[k].token}
    <3>1. CASE Planning
      <4>1. RowStep(planned.rows[k], planned'.rows[k], now)
        BY <3>1, LeaseNumbers, Zenon DEF Planning
      <4> QED BY <4>1, Zenon DEF RowStep, ValidLease
    <3> QED BY <2>1, <3>1, Zenon
  <2>3. op # "claim" /\ op' # "claim"
    BY <2>1
  <2> QED BY <2>1, <2>2, <2>3, Zenon DEF Taken
<1>6. CASE SelectClaim
  <2>1. Claiming /\ UNCHANGED <<op, now, issued>> /\ op = "claim"
    BY <1>6, SelectStep, Zenon DEF SelectClaim
  <2> QED BY <2>1, Zenon DEF Claiming, ClaimStep, Taken, Records
<1> QED BY <1>1, <1>2, <1>3, <1>4, <1>5, <1>6, Zenon DEF Next

\* The relation holds in every behaviour.
LEMMA TakenAlways == Spec => []Taken
<1>1. Init => Taken
  BY DEF Init, Taken
<1>2. Shape /\ Taken /\ [Next]_vars => Taken'
  BY TakenNext
<1> QED BY <1>1, <1>2, ShapeAlways, PTL DEF Spec

\* What Held means for the two rows of a record: the token of its committed row
\* is not gone from both.
LEMMA HeldIs ==
    ASSUME Shape, NEW k \in Keys, db.rows[k].token # 0
    PROVE  Held(k) <=> ~(Gone(db.rows[k], db.rows[k].token) /\ Gone(planned.rows[k], db.rows[k].token))
<1>1. /\ now \in Nat /\ db.rows[k].expires \in Nat /\ planned.rows[k].expires \in Nat
      /\ ValidLease(db.rows[k]) /\ ValidLease(planned.rows[k])
  BY LeaseNumbers
<1>2. db.rows[k].lifecycle = "Leased"
  BY <1>1, Zenon DEF ValidLease
<1>3. planned.rows[k].token = db.rows[k].token => planned.rows[k].lifecycle = "Leased"
  BY <1>1, Zenon DEF ValidLease
<1>4. \A e \in Nat : e > now <=> ~(e =< now)
  BY <1>1
<1> QED BY <1>1, <1>2, <1>3, <1>4, Zenon DEF Held, Gone, ActiveLease

\* The tokens in the committed rows have been issued.
LEMMA StoredTokens ==
    ASSUME Shape, LeaseInv, NEW k \in Keys, db.rows[k].token # 0
    PROVE  db.rows[k].token \in 1..issued
<1>1. PICK d \in ClaimIdentities : Found(d, k, db.rows[k].token)
  BY Zenon DEF LeaseInv, LeasesBacked, Backed
<1>2. PICK i \in 1..Len(receipts[d].outcome) :
        receipts[d].outcome[i] = [key |-> k, token |-> db.rows[k].token]
  BY <1>1, Zenon DEF Found
<1>3. receipts[d].outcome[i].token \in 1..issued
  BY <1>1, Zenon DEF Found, LeaseInv, TokensIssued, TokensBounded
<1>4. receipts[d].outcome[i].token = db.rows[k].token
  BY <1>2
<1> QED BY <1>3, <1>4, Zenon

\* A step that is not the commit of a claim keeps a lease or loses it.
LEMMA LeasesLost ==
    ASSUME Shape, Shape', Bookkeeping, LeaseInv, Taken, [Next]_vars, ~CommitClaim
    PROVE  issued' = issued /\ \A k \in Keys : Holder'[k] \in {Holder[k], 0}
<1>1. issued' = issued
  BY TokensAndTime, Zenon
<1> SUFFICES ASSUME NEW k \in Keys PROVE Holder'[k] \in {Holder[k], 0}
  BY <1>1, Zenon
<1> DEFINE token == db.rows[k].token
<1>2. /\ Holder[k] = IF Held(k) THEN token ELSE 0
      /\ Holder'[k] = IF Held(k)' THEN db'.rows[k].token ELSE 0
  BY Zenon DEF Holder
<1>3. db'.rows[k].token \in {0, token}
  <2>1. CASE db' = db
    BY <2>1, Zenon
  <2>2. CASE db' # db
    <3>1. CommitInsert \/ CommitBatch
      BY <2>2, Zenon DEF Next, Tick, BeginInsert, BeginClaim, BeginCommit, Begin, ReplayInsert, InsertItem,
         ReplayClaim, SelectClaim, CommitGroup, Rollback, vars
    <3>2. db' = planned /\ op # "claim"
      BY <3>1 DEF CommitInsert, CommitBatch
    <3> QED BY <3>2, Zenon DEF Taken
  <2> QED BY <2>1, <2>2, Zenon
<1>4. ASSUME db'.rows[k].token = token, token # 0, ~Held(k) PROVE ~Held(k)'
  <2>1. Gone(db.rows[k], token) /\ Gone(planned.rows[k], token)
    BY <1>4, HeldIs, Zenon
  <2>2. token \in 1..issued
    BY <1>4, StoredTokens, Zenon
  <2>3. \A t \in 1..issued : Gone(db.rows[k], t) /\ Gone(planned.rows[k], t) =>
          Gone(db.rows[k], t)' /\ Gone(planned.rows[k], t)'
    BY GoneStays, Zenon
  <2>4. \A t \in 1..issued : Gone(db.rows[k], t) /\ Gone(planned.rows[k], t) =>
          /\ db'.rows[k].token # t \/ db'.rows[k].expires =< now'
          /\ planned'.rows[k].token # t \/ planned'.rows[k].expires =< now'
    BY <2>3, Zenon DEF Gone
  <2>5. /\ db'.rows[k].token # token \/ db'.rows[k].expires =< now'
        /\ planned'.rows[k].token # token \/ planned'.rows[k].expires =< now'
    BY <2>1, <2>2, <2>4, Zenon
  <2>6. now' \in Nat /\ db'.rows[k].expires \in Nat /\ planned'.rows[k].expires \in Nat
    BY LeaseColumns, ConstantTypes, Zenon DEF Shape
  <2>7. \A e \in Nat : e =< now' => ~(e > now')
    BY <2>6
  <2> QED BY <1>4, <2>5, <2>6, <2>7, Zenon DEF Held, ActiveLease
<1> QED BY <1>2, <1>3, <1>4, Zenon

\* The commit of a claim grants records that nobody held.
LEMMA LeasesGranted ==
    ASSUME Shape, Shape', LeaseInv, Taken, CommitClaim
    PROVE  /\ issued' \in Nat /\ issued' >= issued
           /\ \A k \in Keys : Holder'[k] # Holder[k] =>
                Holder[k] = 0 /\ Holder'[k] \in (issued + 1)..issued'
           /\ \A j, k \in Keys :
                (j # k /\ Holder'[j] # Holder[j] /\ Holder'[k] # Holder[k]) => Holder'[j] # Holder'[k]
<1>1. /\ results[1] \in Seq(ClaimItem) /\ issued' = issued + Len(results[1]) /\ now' = now
      /\ op = "claim" /\ results # << >> /\ db' = planned /\ planned' = planned
  BY ClaimCommitted, Zenon DEF CommitClaim
<1>2. issued \in Nat /\ Len(results[1]) \in Nat
  BY <1>1 DEF Shape
<1>3. ASSUME NEW k \in Keys, Holder'[k] # Holder[k]
      PROVE  /\ Holder[k] = 0 /\ Holder'[k] = planned.rows[k].token
             /\ \E i \in 1..Len(results[1]) : results[1][i] = [key |-> k, token |-> issued + i]
                                              /\ planned.rows[k].token = issued + i
  <2>0. /\ Holder[k] = IF Held(k) THEN db.rows[k].token ELSE 0
        /\ Holder'[k] = IF ActiveLease(planned.rows[k], now) THEN planned.rows[k].token ELSE 0
    BY <1>1, Zenon DEF Holder, Held
  <2>1. planned.rows[k] # db.rows[k]
    BY <1>3, <2>0, Zenon DEF Held
  <2>2. planned.rows[k].token > issued /\ ~ActiveLease(db.rows[k], now)
    BY <1>1, <2>1, Zenon DEF Taken
  <2>3. planned.rows[k].token # 0 /\ planned.rows[k].token \notin 1..issued
    BY <1>2, <2>2, LeaseNumbers
  <2>4. db.rows[k].token # planned.rows[k].token
    BY <2>3, StoredTokens, Zenon
  <2>5. Holder[k] = 0 /\ Holder'[k] = planned.rows[k].token
    BY <1>3, <2>0, <2>2, <2>4, Zenon DEF Held
  <2>6. ~Backed(k, planned.rows[k].token)
    <3> SUFFICES ASSUME NEW d \in ClaimIdentities, Found(d, k, planned.rows[k].token) PROVE FALSE
      BY Zenon DEF Backed
    <3>1. PICK i \in 1..Len(receipts[d].outcome) :
            receipts[d].outcome[i] = [key |-> k, token |-> planned.rows[k].token]
      BY Zenon DEF Found
    <3>2. receipts[d].outcome[i].token \in 1..issued
      BY Zenon DEF Found, LeaseInv, TokensIssued, TokensBounded
    <3>3. receipts[d].outcome[i].token = planned.rows[k].token
      BY <3>1
    <3> QED BY <2>3, <3>2, <3>3, Zenon
  <2>7. PICK i \in 1..Len(results[1]) : results[1][i] = [key |-> k, token |-> planned.rows[k].token]
    BY <2>3, <2>6, Zenon DEF LeaseInv, LeasesBacked, Offered
  <2>8. results[1][i].token = issued + i
    BY <1>1, Zenon DEF LeaseInv, TokensIssued, TokensFollow
  <2>9. planned.rows[k].token = issued + i
    BY <2>7, <2>8
  <2> QED BY <2>5, <2>7, <2>9, Zenon
<1>4. \A n \in Nat : \A i \in 1..n : issued + i \in (issued + 1)..(issued + n)
  BY <1>2
<1>5. issued' \in Nat /\ issued' >= issued
  BY <1>1, <1>2
<1>6. \A k \in Keys : Holder'[k] # Holder[k] => Holder[k] = 0 /\ Holder'[k] \in (issued + 1)..issued'
  BY <1>1, <1>2, <1>3, <1>4, Zenon
<1>7. ASSUME NEW j \in Keys, NEW k \in Keys, j # k, Holder'[j] # Holder[j], Holder'[k] # Holder[k]
      PROVE  Holder'[j] # Holder'[k]
  <2>1. PICK a \in 1..Len(results[1]) : /\ results[1][a] = [key |-> j, token |-> issued + a]
                                        /\ Holder'[j] = issued + a
    BY <1>3, <1>7, Zenon
  <2>2. PICK b \in 1..Len(results[1]) : /\ results[1][b] = [key |-> k, token |-> issued + b]
                                        /\ Holder'[k] = issued + b
    BY <1>3, <1>7, Zenon
  <2>3. a # b
    <3>1. results[1][a].key = j /\ results[1][b].key = k
      BY <2>1, <2>2
    <3> QED BY <1>7, <3>1, Zenon
  <2>4. \A n \in Nat : \A x, y \in 1..n : x # y => issued + x # issued + y
    BY <1>2
  <2> QED BY <1>2, <2>1, <2>2, <2>3, <2>4, Zenon
<1> QED BY <1>5, <1>6, <1>7, Zenon

\* The store implements the table of leases.
THEOREM StoreIsLeaseTable == Spec => IsLeaseTable
<1>1. Init => Lease!Init
  <2>1. \A k \in Keys : InactiveRow(0).lifecycle # "Leased"
    BY DEF InactiveRow
  <2>2. Init => \A k \in Keys : db.rows[k] = InactiveRow(0) /\ planned.rows[k] = InactiveRow(0)
    BY DEF Init, EmptySnapshot, Records
  <2> QED BY <2>1, <2>2, Zenon DEF Init, Lease!Init, Holder, Held, ActiveLease
<1>2. Shape' => Holder' \in [Keys -> Nat]
  <2>1. 0 \in Nat /\ (Shape' => \A k \in Keys : db'.rows[k].token \in Nat)
    BY LeaseColumns, Zenon DEF Shape
  <2> QED BY <2>1, Zenon DEF Holder
<1>3. Shape /\ Shape' /\ Bookkeeping /\ LeaseInv /\ Taken /\ [Next]_vars => [Lease!Next]_<<Holder, issued>>
  BY <1>2, LeasesLost, LeasesGranted, Zenon DEF Lease!Next, Lease!Grant, Lease!Lose
<1> QED BY <1>1, <1>3, ShapeAlways, BooksAlways, LeaseAlways, TakenAlways, PTL DEF Spec, IsLeaseTable, Lease!Spec

-----------------------------------------------------------------------------
(***************************************************************************)
(* The lease fence.                                                        *)
(***************************************************************************)

\* A live lease ends or passes on only by its holder's token, or by an
\* administrator who does not ask that live leases are kept.
THEOREM FenceSafe == Spec => LeaseFence
<1> DEFINE Fenced == op' = op => \A k \in Keys :
             (ActiveLease(planned.rows[k], now) /\ planned'.rows[k].token # planned.rows[k].token) => Entitled(k)
<1>1. ASSUME Shape, LeaseInv, Next, op' = op,
             NEW k \in Keys, ActiveLease(planned.rows[k], now), planned'.rows[k].token # planned.rows[k].token
      PROVE  Entitled(k)
  <2>0. k \in Records /\ planned.rows[k].active /\ Sound(planned) /\ now \in Time
    BY <1>1, Zenon DEF Records, LeaseInv, LeasedActive, ActiveLease, Shape
  <2>1. CASE UNCHANGED planned
    BY <1>1, <2>1, Zenon
  <2>2. CASE Tick
    BY <2>1, <2>2, Zenon DEF Tick, tx
  <2>3. CASE BeginInsert \/ BeginClaim \/ BeginCommit
    BY <2>1, <2>3, Zenon DEF BeginInsert, BeginClaim, BeginCommit, Begin
  <2>4. CASE End /\ op # "none"
    BY <1>1, <2>4, Zenon DEF End
  <2>5. CASE ReplayInsert \/ CommitInsert \/ ReplayClaim \/ CommitClaim \/ CommitBatch \/ Rollback
    BY <2>4, <2>5, Zenon DEF ReplayInsert, CommitInsert, ReplayClaim, CommitClaim, CommitBatch, Rollback
  <2>6. CASE SelectClaim
    <3>1. Claiming
      BY <1>1, <2>6, SelectStep, Zenon
    <3> QED BY <1>1, <2>0, <3>1, Zenon DEF Claiming, ClaimStep
  <2>7. CASE InsertItem
    <3> DEFINE entry == request.items[Len(results) + 1]
    <3>1. request \in InsertRequests /\ results \in Seq(InsertOutcome)
      BY <1>1, <2>7, Zenon DEF InsertItem, Shape, TransactionOK
    <3>2. request.items \in Seq([key : Keys, item : Item])
      BY <3>1, RequestAssumption, Zenon DEF InsertRequest
    <3>3. Len(results) + 1 \in 1..Len(request.items)
      <4>1. Len(results) < Len(request.items)
        BY <2>7, Zenon DEF InsertItem
      <4> HIDE DEF entry
      <4>2. Len(results) \in Nat /\ Len(request.items) \in Nat
        BY <3>1, <3>2
      <4> QED BY <4>1, <4>2
    <3>4. entry \in [key : Keys, item : Item]
      BY <3>2, <3>3, ElementType, Zenon
    <3>5. planned' = PlanInsertItem(entry.key, entry.item, request.mode, planned, now).snapshot
      BY <2>7, Zenon DEF InsertItem
    <3> HIDE DEF entry
    <3>6. entry.key \in Keys /\ entry.item \in Item
      BY <3>4, Zenon
    <3>7. planned'.rows[k].token = planned.rows[k].token
      <4> DEFINE mode == request.mode
      <4>1. k \in Keys /\ planned.rows[k].active /\ Sound(planned) /\ ActiveLease(planned.rows[k], now)
        BY <1>1, <2>0, Zenon
      <4>2. planned' = PlanInsertItem(entry.key, entry.item, mode, planned, now).snapshot
        BY <3>5, Zenon
      <4> HIDE DEF mode
      <4>3. PlanInsertItem(entry.key, entry.item, mode, planned, now).snapshot.rows[k].token = planned.rows[k].token
        BY <3>6, <4>1, InsertFence
      <4> QED BY <4>2, <4>3, Zenon
    <3> QED BY <1>1, <3>7, Zenon
  <2>8. CASE CommitGroup
    <3> DEFINE group == request[Len(results) + 1]
    <3>1. /\ op = "commit" /\ group \in Group /\ WellFormed(group.updates)
      <4>1. request \in CommitRequests /\ results \in Seq(CommitResult) /\ op = "commit" /\ Len(results) < Len(request)
        BY <1>1, <2>8, Zenon DEF CommitGroup, Shape, TransactionOK
      <4>2. request \in Seq(Group) /\ \A i \in 1..Len(request) : WellFormed(request[i].updates)
        BY <4>1, RequestAssumption, Zenon
      <4>3. Len(results) + 1 \in 1..Len(request)
        BY <4>1, <4>2
      <4> QED BY <4>1, <4>2, <4>3, ElementType, Zenon
    <3>2. planned' = planned \/ planned' = PlanCommitGroup(group.updates, planned, now).snapshot
      BY <2>8, Zenon DEF CommitGroup
    <3>3. group.updates \in Seq(Update)
      <4> HIDE DEF group
      <4> QED BY <3>1, Zenon DEF Group
    <3>4. Permitted(group.updates, k, planned.rows[k])
      <4> HIDE DEF group
      <4> QED BY <1>1, <2>0, <3>1, <3>2, <3>3, PlanFence, Zenon
    <3> QED BY <3>1, <3>4, Zenon DEF Permitted, Entitled
  <2> QED BY <1>1, <2>2, <2>3, <2>5, <2>6, <2>7, <2>8, Zenon DEF Next
<1>2. Shape /\ LeaseInv /\ [Next]_vars => [Fenced]_vars
  BY <1>1
<1> QED BY <1>2, ShapeAlways, LeaseAlways, PTL DEF Spec, LeaseFence
=============================================================================
