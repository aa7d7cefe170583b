-------------------------- MODULE MCOwnershipWorlds --------------------------
(***************************************************************************)
(* Ownership under each kind of authority, of which a behaviour has one: two *)
(* nodes with a bound or a durable plane, one node with an ephemeral plane,  *)
(* which restarts and so needs more time: the cfg has its bounds.            *)
(***************************************************************************)
EXTENDS MCOwnership

VARIABLE world   \* the kind of authority and the nodes that run

Bound == INSTANCE Ownership WITH Plane <- "bound", Exact <- TRUE, MaxTime <- 1, MaxEpoch <- 3
Durable == INSTANCE Ownership WITH Plane <- "durable", Exact <- TRUE, MaxTime <- 2, MaxEpoch <- 3

Worlds ==
    [plane : {"bound", "durable"}, nodes : {Owners}]
    \cup [plane : {"ephemeral"}, nodes : {{o} : o \in Owners}]

\* A node that does not run acquires nothing.
Within == \A o \in Owners \ world.nodes : task'[o].step = "idle"

WorldInit == Init /\ world \in Worlds
WorldNext ==
    \/ world.plane = "bound" /\ Bound!Next /\ UNCHANGED world
    \/ world.plane = "durable" /\ Durable!Next /\ UNCHANGED world
    \/ world.plane = "ephemeral" /\ Next /\ Within /\ UNCHANGED world
WorldSpec == WorldInit /\ [][WorldNext]_<<vars, world>>

\* The serving owner's session carries the storage's epoch, where no other node
\* advances the storage on its way (run own_contended for where one does).
MatchedAlone == world.plane # "durable" => Matched

\* Nothing moves the storage epoch under a serving owner, again unless another
\* node's fence_epoch can.
NeverSelfFencedAlone ==
    [][world.plane # "durable" /\ Serving /\ lease'.state # "Unassigned" /\ lease'.epoch = lease.epoch
       => storage' = storage]_vars

\* Accepted writes come in runs of one owner with growing epochs, while the
\* authority remembers its epochs: a restart of an ephemeral one starts over.
WritesHandOverDurably ==
    [][world.plane # "ephemeral" =>
         /\ last'.epoch >= last.epoch
         /\ last.owner \in Owners /\ last'.owner # last.owner => last'.epoch > last.epoch]_vars

=============================================================================
