---------------------------- MODULE MCAuditTrail ----------------------------
(* A service with its forwarder and a thread that handles requests; of the *)
(* records, one names a tool and one names none.                           *)
EXTENDS AuditTrail

CONSTANTS forwarder, handler, w1

MCThread == {forwarder, handler}
MCWriter == {w1}
MCTenant == {"acme", "globex"}
MCTool == {"privacy.pii.read"}
MCKind == {[tenant |-> "acme", tool |-> "privacy.pii.read"],
           [tenant |-> "globex", tool |-> "null"]}
=============================================================================
