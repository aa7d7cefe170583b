------------------------------ MODULE KeyLock -------------------------------
(***************************************************************************)
(* What the commit paths rely on when they run an operation under the        *)
(* permit of its queue (fireweed-engine/src/async_commit.rs): one lock per   *)
(* key, which is taken when it is free, given back, or handed over by its    *)
(* owner.  KeyedGate implements it.                                        *)
(***************************************************************************)
CONSTANTS Callers, Keys

VARIABLE owners   \* the pairs of a caller and the key it owns

Init == owners = {}

Free(k) == \A o \in owners : o[2] # k

Take(c, k) == Free(k) /\ owners' = owners \cup {<<c, k>>}

GiveBack(c, k) == <<c, k>> \in owners /\ owners' = owners \ {<<c, k>>}

HandOver(c, d, k) ==
    /\ <<c, k>> \in owners
    /\ owners' = (owners \ {<<c, k>>}) \cup {<<d, k>>}

Next ==
    \E c \in Callers, k \in Keys :
        Take(c, k) \/ GiveBack(c, k) \/ \E d \in Callers : HandOver(c, d, k)

Spec == Init /\ [][Next]_owners

=============================================================================
