\* Four callers of two queues, two waiters at most, one slot and one queued job, a drainer.
CONSTANTS
    f3 = f3
    f4 = f4
    k1 = k1
    k2 = k2
    Futures = {f1, f2, f3, f4}
    Keys = {k1, k2}
    MaxQueued = 2
    MaxPerKey = 3
    Drainers = {d1}
    MaxRunning = 1
    MaxJobs = 1
SPECIFICATION CallersSpec
INVARIANTS QueuedExact JobsCounted NoIdleSlot SerialOperations DrainedForGood
PROPERTIES NoOvertaking IsLock EveryOperationEnds DrainsEnd
