------------------------------- MODULE Units --------------------------------
(***************************************************************************)
(* Sums of byte counts as cardinalities: each owner holds as many units as   *)
(* it holds bytes, so that as many units exist as all of them hold together. *)
(***************************************************************************)
EXTENDS Integers, FiniteSets

Units(counts) == UNION {{x} \X (1..counts[x]) : x \in DOMAIN counts}
=============================================================================
