------------------------- MODULE MCOperationRuntime -------------------------
(***************************************************************************)
(* A small instance of OperationRuntime: a job that makes as many           *)
(* allocations as it may, beside one that makes one less.                   *)
(***************************************************************************)
EXTENDS OperationRuntime, TLC

CONSTANTS j1, j2, c1, c2, c3, c4

TwoEach == [c \in {c1, c2} |-> j1] @@ [c \in {c3, c4} |-> j2]

RuntimeNext == Next /\ (stage'[j2] = "live" => work'[j2] > 0)
RuntimeSpec == Init /\ [][RuntimeNext]_vars /\ Fairness
=============================================================================
