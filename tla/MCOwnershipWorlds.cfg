\* Two nodes with a remote authority, or one with an in-memory authority.
CONSTANTS
    Owners = {a, b}
    NoOwner = none
    Plane = "ephemeral"
    Exact = FALSE
    LeaseTtl = 1
    MaxTime = 3
    MaxEpoch = 3

SPECIFICATION WorldSpec
SYMMETRY Nodes

\* The bounds on clock and epochs end every behaviour.
CHECK_DEADLOCK FALSE

INVARIANT DistinctStamps
INVARIANT SupersededFenced
INVARIANT MatchedAlone
INVARIANT RestartFenced
PROPERTY NeverSelfFencedAlone
PROPERTY WritesHandOverDurably
