\* Three callers of three tenants, none of which may use the whole budget.
CONSTANTS
    Futures = {f1, f2, f3}
    t1 = t1
    t2 = t2
    t3 = t3
    Requests <- Rivals
    GlobalLimit = 4
    TenantLimit = 3
    MaxBypasses = 1
    BypassLimit = 2
SPECIFICATION FairSpec
INVARIANTS NothingBroken Conserved NoStrandedCapacity
PROPERTIES TenantOrder NoStarvation
