---------------------------- MODULE MCDelegation ----------------------------
(* Values for Delegation: a support rep who is also a manager, in one      *)
(* tenant, and a support rep of another; one tool of theirs.               *)
EXTENDS Delegation, TLC

CONSTANTS alice, grace

MCAccount == {alice, grace}
MCSeed == [p \in MCAccount |-> IF p = alice THEN Made({"support_rep", "manager"}, TRUE)
                               ELSE Made({"support_rep"}, TRUE)]
MCTenantOf == [p \in MCAccount |-> IF p = alice THEN "acme" ELSE "globex"]

Symmetry == Permutations(Thread)
=============================================================================
