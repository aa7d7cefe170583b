\* Two queues; the scenes say which commits and waits come, and how much goes wrong.
CONSTANTS
    q1 = q1
    q2 = q2
    c1 = c1
    c2 = c2
    c3 = c3
    s1 = s1
    s2 = s2
    Commits = {c1, c2, c3}
    Queues = {s1, s2}
    QueueOf <- TwoQueues
    Kind <- Kinds
    Workers = {w1, w2}
    Waiters = {q1, q2}
    Covering = {q1}
    WaitQueue <- FirstQueue
    DepthMax = 2
    RetryThreshold = 2
    MaxTrouble = 2
    Cast <- Scenes
    Quiesced = TRUE
SPECIFICATION SceneSpec
INVARIANTS OneApply HighWaterApplied NoGapWithinEpoch NothingForgotten
PROPERTIES PublishedApplied EveryWaitEnds
CHECK_DEADLOCK FALSE
