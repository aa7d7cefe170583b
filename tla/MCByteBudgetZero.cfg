\* A caller may ask for no bytes at all: nothing in the types or in
\* validate_request forbids it.
CONSTANTS
    Futures = {f1, f2, f3}
    t1 = t1
    t2 = t2
    t3 = t3
    Requests <- WithEmpty
    GlobalLimit = 2
    TenantLimit = 2
    MaxBypasses = 1
    BypassLimit = 2
SPECIFICATION Spec
INVARIANTS NothingBroken
CHECK_DEADLOCK FALSE
