------------------------- MODULE MCComposedBackend --------------------------
(***************************************************************************)
(* An instance of ComposedBackend for TLC.  Callers are interchangeable and   *)
(* so are queues: what differs is how many callers share a queue.            *)
(***************************************************************************)
EXTENDS ComposedBackend

CONSTANTS f3, f4, k1, k2

\* Four callers of one queue, or two of one and one of another, without f3.
Assignments == {[f \in Futures |-> k1], [f \in Futures |-> IF f = f4 THEN k2 ELSE k1]}

CallersInit == BackendInit /\ key \in Assignments
CallersNext == BackendNext /\ (key[f4] = k2 => at'[f3] = "idle")
CallersSpec == CallersInit /\ [][CallersNext]_backend /\ BackendFairness
=============================================================================
