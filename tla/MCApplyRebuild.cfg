\* An operator rebuilds the projection of a queue that has traffic.
CONSTANTS
    q1 = q1
    q2 = q2
    c1 = c1
    c2 = c2
    c3 = c3
    s1 = s1
    s2 = s2
    Commits = {c1, c2, c3}
    Queues = {s1, s2}
    QueueOf <- TwoQueues
    Kind <- Kinds
    Workers = {w1, w2}
    Waiters = {}
    Covering = {}
    WaitQueue <- FirstQueue
    DepthMax = 2
    RetryThreshold = 2
    MaxTrouble = 1
    Cast <- Pair
    Quiesced = FALSE
SPECIFICATION SceneSpec
INVARIANTS NothingForgotten
CHECK_DEADLOCK FALSE
