---------------------------- MODULE MCOwnership -----------------------------
(***************************************************************************)
(* Instances of Ownership for TLC.  The nodes are interchangeable: no        *)
(* action and no property names one.                                       *)
(***************************************************************************)
EXTENDS Ownership, TLC

Nodes == Permutations(Owners)

=============================================================================
