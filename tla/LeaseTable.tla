----------------------------- MODULE LeaseTable -----------------------------
(***************************************************************************)
(* What the workers of a queue rely on when they claim its records: a table  *)
(* of leases.  A record that nobody holds is granted under a token that was  *)
(* never used before, and a lease that has ended, by its holder, by an       *)
(* administrator or by time, never comes back.  QueueStore implements it.    *)
(***************************************************************************)
EXTENDS Naturals

CONSTANT Keys

VARIABLES
    holder,   \* the token under which a record is held, 0 for none
    issued    \* how many tokens have been granted

Init == holder = [k \in Keys |-> 0] /\ issued = 0

\* A claim is granted some of the free records, each under a token of its own.
Grant ==
    /\ issued' \in Nat /\ issued' >= issued
    /\ \A k \in Keys : holder'[k] # holder[k] =>
         holder[k] = 0 /\ holder'[k] \in (issued + 1)..issued'
    /\ \A j, k \in Keys :
         (j # k /\ holder'[j] # holder[j] /\ holder'[k] # holder[k]) => holder'[j] # holder'[k]

\* Leases end.
Lose ==
    /\ issued' = issued
    /\ \A k \in Keys : holder'[k] \in {holder[k], 0}

Next == holder' \in [Keys -> Nat] /\ (Grant \/ Lose)

Spec == Init /\ [][Next]_<<holder, issued>>

=============================================================================
