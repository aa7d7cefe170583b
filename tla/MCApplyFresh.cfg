\* Two commits of one queue, and nothing that fails.
CONSTANTS
    q1 = q1
    q2 = q2
    c1 = c1
    c2 = c2
    c3 = c3
    s1 = s1
    s2 = s2
    Commits = {c1, c2, c3}
    Queues = {s1, s2}
    QueueOf <- TwoQueues
    Kind <- Kinds
    Workers = {w1, w2}
    Waiters = {}
    Covering = {}
    WaitQueue <- FirstQueue
    DepthMax = 2
    RetryThreshold = 2
    MaxTrouble = 0
    Cast <- Pair
    Quiesced = TRUE
SPECIFICATION SceneSpec
INVARIANTS NoGap
CHECK_DEADLOCK FALSE
