\* Two nodes share an in-memory authority.
CONSTANTS
    Owners = {a, b}
    NoOwner = none
    Plane = "ephemeral"
    Exact = FALSE
    LeaseTtl = 1
    MaxTime = 2
    MaxEpoch = 3

SPECIFICATION Spec
SYMMETRY Nodes

\* The bounds on clock and epochs end every behaviour.
CHECK_DEADLOCK FALSE

INVARIANT SupersededFenced
