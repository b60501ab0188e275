--------------------------- MODULE MCPolicyQuery ----------------------------
(* Values for PolicyQuery: every boundary of the refund bands, two tenants *)
(* and both ways of having none, every set of at most two roles.           *)
EXTENDS PolicyQuery, FiniteSets

MCScoped == {"acme", "globex", Absent}
MCAnyone == MCScoped \cup {Null}
MCRoleSets == {R \in SUBSET Roles : Cardinality(R) <= 2}
MCTools == Catalogue \cup BulkTools \cup {"crm.delete"}
MCAmounts == {NoAmount, Text(20), Text(600)}
             \cup {Number(n) : n \in {-1, 0, 1, 50, 51, 52, 500, 501}}
MCAgents == {TrustedAgent, "sa/other"}
=============================================================================
