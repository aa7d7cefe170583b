\* Two nodes, a PostgreSQL authority, the storage elsewhere with a fence_epoch that accepts an overshoot.
CONSTANTS
    Owners = {a, b}
    NoOwner = none
    Plane = "durable"
    Exact = FALSE
    LeaseTtl = 1
    MaxTime = 2
    MaxEpoch = 3

SPECIFICATION Spec
SYMMETRY Nodes

\* The bounds on clock and epochs end every behaviour.
CHECK_DEADLOCK FALSE

INVARIANT DistinctStamps
