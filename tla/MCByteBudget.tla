---------------------------- MODULE MCByteBudget ----------------------------
(***************************************************************************)
(* Small instances of ByteBudget.                                           *)
(***************************************************************************)
EXTENDS ByteBudget

CONSTANTS t1, t2, t3

\* A tenant asks for as much as it may have and for a little; two others ask for
\* half of the budget each, so that they can keep the first one out.
Rivals == {[tenant |-> t1, bytes |-> TenantLimit], [tenant |-> t1, bytes |-> 1],
           [tenant |-> t2, bytes |-> 2], [tenant |-> t3, bytes |-> 2]}

\* Requests for nothing.
WithEmpty == [tenant : {t1}, bytes : {0, 1}]

=============================================================================
