---------------------------- MODULE PolicyQuery -----------------------------
(***************************************************************************)
(* The two questions the platform asks of the policy about one caller, in  *)
(* the order a run asks them: the agent asks which tools to offer the      *)
(* model (app/agent/live.py, allowed_tools), and later the tool server     *)
(* asks for a decision on a call (app/tools/enforcement.py).  The caller   *)
(* of the tool server need not have asked for an offer first (MCP), and    *)
(* either question may go unanswered.                                      *)
(***************************************************************************)
EXTENDS Policy

CONSTANTS
  Tenants,    \* what `input.tenant` may be: names, Null, Absent
  RoleSets,   \* the role sets a token may carry
  Tools,      \* the tools a caller may name, catalogued or not
  Amounts,    \* the amounts a call may carry, after coerce_args
  Agents      \* the workloads that may call

ASSUME PolicyQueryAssumption ==
  /\ Amounts \subseteq Amount
  /\ \A R \in RoleSets : R \subseteq Roles

VARIABLES
  caller,    \* [tenant, roles]: the verified identity
  offered,   \* the tools the agent last offered the model for this caller
  query,     \* the last input document the tool server sent, or NoQuery
  verdict    \* what the tool server made of the answer

queryVars == <<caller, offered, query, verdict>>

NoQuery == [agent |-> "", tenant |-> Absent, roles |-> {}, tool |-> "",
            amount |-> NoAmount]

QueryInit ==
  /\ caller \in [tenant : Tenants, roles : RoleSets]
  /\ offered = {}
  /\ query = NoQuery
  /\ verdict = "none"

\* LiveDeps.allowed_tools: the catalogue filtered to what policy answers.
Offer(reachable) ==
  /\ offered' = Catalogue \cap OfferedTools(caller.tenant, caller.roles, reachable)
  /\ UNCHANGED <<caller, query, verdict>>

\* ToolEnforcer.call up to the decision: an uncatalogued tool never gets to the
\* policy, and the context is the token's roles and tenant, not the caller's.
Enforce(agent, tool, amount, answered) ==
  LET in == [agent |-> agent, tenant |-> caller.tenant, roles |-> caller.roles,
             tool |-> tool, amount |-> amount]
  IN  /\ query' = in
      /\ verdict' = IF tool \notin Catalogue THEN "deny"
                    ELSE PolicyClientDecide(IF answered THEN decision(in)
                                            ELSE "no answer")
      /\ UNCHANGED <<caller, offered>>

QueryNext ==
  \/ \E reachable \in BOOLEAN : Offer(reachable)
  \/ \E agent \in Agents, tool \in Tools, amount \in Amounts, answered \in BOOLEAN :
       Enforce(agent, tool, amount, answered)

QuerySpec == QueryInit /\ [][QueryNext]_queryVars

-----------------------------------------------------------------------------
(* Types of the caller, the offer, the query and the verdict.              *)
QueryTypeOK ==
  /\ caller \in [tenant : Tenants, roles : RoleSets]
  /\ offered \subseteq Catalogue
  /\ query \in [agent : Agents, tenant : Tenants, roles : RoleSets,
                tool : Tools, amount : Amounts] \cup {NoQuery}
  /\ verdict \in {"none", "allow", "deny", "require_approval"}

(* No refund leaves without a person above the automatic limit, and none   *)
(* at all above the approval ceiling, whatever the roles, the tenant and   *)
(* the formatting of the amount; and personal data is never read on the    *)
(* policy's word alone: the only way to it is a held call by somebody with *)
(* the privacy role. Silence from OPA opens neither (authz.rego, decide).  *)
RiskyCallsAreHeld ==
  /\ query.tool = RefundTool /\ verdict = "allow" =>
       query.amount.kind = "number" /\ query.amount.value \in 1..AutoRefundLimit
  /\ query.tool = RefundTool /\ verdict = "require_approval" =>
       /\ query.amount.kind = "number"
       /\ query.amount.value \in (AutoRefundLimit + 1)..ApprovalRefundLimit
  /\ query.tool \in PiiTools /\ verdict # "deny" =>
       verdict \in {"none", "require_approval"} /\ "privacy" \in query.roles

(* The wording the user, the audit and the UI see announces the outcome    *)
(* that was enforced: the else chain of `reason` and the rules of          *)
(* `decision` are written twice and must not drift apart.                  *)
ReasonAgreesWithDecision ==
  query # NoQuery =>
    reason(query) = CASE decision(query) = "deny" -> "denied"
                      [] decision(query) = "require_approval" -> "requires approval"
                      [] decision(query) = "allow" -> "allowed"

(* A tool the agent offered to the model is one the policy will not refuse *)
(* the caller: a later refusal of a catalogued, offered tool from the      *)
(* agent can only be about the refund's amount or an unanswered question.  *)
OfferedIsCallable ==
  \A tool \in offered, amount \in Amounts :
    LET in == [agent |-> TrustedAgent, tenant |-> caller.tenant,
               roles |-> caller.roles, tool |-> tool, amount |-> amount]
    IN decision(in) = "deny" =>
         tool = RefundTool /\ ~(amount.kind = "number" /\ amount.value \in 1..ApprovalRefundLimit)
=============================================================================
