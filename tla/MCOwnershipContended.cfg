\* A late contender moves the storage epoch of the serving owner.
CONSTANTS
    Owners = {a, b}
    NoOwner = none
    Plane = "durable"
    Exact = TRUE
    LeaseTtl = 1
    MaxTime = 2
    MaxEpoch = 3

SPECIFICATION Spec
SYMMETRY Nodes

\* The bounds on clock and epochs end every behaviour.
CHECK_DEADLOCK FALSE

INVARIANT Matched
