------------------------- MODULE MCApplyCoordinator -------------------------
(***************************************************************************)
(* Instances of ApplyCoordinator for TLC.                                   *)
(***************************************************************************)
EXTENDS ApplyCoordinator

CONSTANTS c1, c2, c3, s1, s2, q1, q2, Cast

\* A claim and its completion in one queue, and a batch of another queue.
TwoQueues == [c \in Commits |-> IF c = c3 THEN s2 ELSE s1]
Kinds == [c \in Commits |-> IF c = c1 THEN "claim" ELSE IF c = c2 THEN "complete" ELSE "other"]
FirstQueue == [q \in Waiters |-> s1]

VARIABLE scene   \* the commits and waiters that come, and how much goes wrong

Scene(cs, qs, n) == [commits |-> cs, waiters |-> qs, trouble |-> n]

Scenes ==
    {Scene({c1, c2}, {}, 1), Scene({c1, c3}, {}, 1), Scene({c1}, {}, 2), Scene({c1, c2}, {q1}, 0)}
    \cup {Scene({c1}, {q}, 1) : q \in Waiters}

\* Two commits of one queue.
Pair == {Scene({c1, c2}, {}, MaxTrouble)}

SceneInit ==
    /\ Init
    /\ scene \in Cast
    /\ c3 \notin scene.commits => tail[s2] = None
SceneNext ==
    /\ Next
    /\ \A c \in Commits \ scene.commits : commit'[c] = "idle"
    /\ \A q \in Waiters \ scene.waiters : waiter'[q] = "idle"
    /\ trouble' <= scene.trouble
    /\ UNCHANGED scene
SceneSpec == SceneInit /\ [][SceneNext]_<<vars, scene>> /\ WF_vars(Progress /\ trouble' <= scene.trouble)
=============================================================================
