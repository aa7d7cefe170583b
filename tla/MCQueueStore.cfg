\* Five workloads of two work records and a state record.
SPECIFICATION WorkSpec
CONSTANTS
  k1 = k1
  k2 = k2
  st = st
  x1 = x1
  x2 = x2
  Keys = {k1, k2}
  StateKeys = {st}
  Values = {x1, x2}
  NoValue = NoValue
  NoOwner = NoOwner
  NoChange = NoChange
  Nil = Nil
  MaxAttempts = 2
  ProgressBound = 1
  MaxU64 = 5
  MaxU32 = 3
  MaxI64 = 3
  Ids = {1, 2}
  InsertRequests <- AllInserts
  ClaimRequests <- AllClaims
  CommitRequests <- AllGroups
INVARIANTS
  InWidth
  LoadableRows
  AnswersDurable
  RefusedClaimsStayRefused
  UniqueOwnership
  DistinctSequences
PROPERTIES
  IsLeaseTable
  VersionsNeverReused
  LeaseFence
  ReceiptsBindEffects
