------------------------------- MODULE Policy -------------------------------
(***************************************************************************)
(* The authorization policy of the platform, policy/authz.rego, as pure    *)
(* operators over an input document, and the tool server's query of it.    *)
(*                                                                         *)
(* An input document is a record                                           *)
(*   [agent, tenant, roles, tool, amount]                                  *)
(* tenant is a tenant's name, or Null (the key is there and holds JSON     *)
(* null, which is what a token without a tenant claim turns into), or      *)
(* Absent (the key is not there: undefined in Rego).  In Rego only false   *)
(* and undefined fail a condition, so Null satisfies `input.tenant`.       *)
(*                                                                         *)
(* amount is [kind, value]: a JSON number, a string that spells a number   *)
(* ("text"), or nothing usable ("none": absent, null or unparseable).      *)
(***************************************************************************)
EXTENDS Integers

TrustedAgent == "sa/agent"
Null   == "null"
Absent == "absent"

Roles == {"support_rep", "billing", "read_only", "privacy", "manager",
          "platform_admin"}

\* app/tools/catalog.py, injected into the bundle as data.tools at build time.
Catalogue == {"crm.customer.read", "crm.orders.list", "tickets.read",
              "tickets.reply.draft", "refunds.quote", "refunds.issue",
              "privacy.pii.read"}

RefundTool == "refunds.issue"
PiiTools == {"privacy.pii.read"}
BulkTools == {"bulk.export"}    \* every tool whose name starts with "bulk."

AutoRefundLimit == 50
ApprovalRefundLimit == 500

Number(n) == [kind |-> "number", value |-> n]
Text(n)   == [kind |-> "text",   value |-> n]
NoAmount  == [kind |-> "none",   value |-> 0]
Amount == [kind : {"number", "text", "none"}, value : Int]

Input == [agent : STRING, tenant : STRING, roles : SUBSET STRING,
          tool : STRING, amount : Amount]

-----------------------------------------------------------------------------
(* Who may call what.                                                      *)

default_role_tools ==
  [support_rep |-> {"crm.customer.read", "crm.orders.list", "tickets.read",
                    "tickets.reply.draft", "refunds.quote", "refunds.issue"},
   billing |-> {"crm.orders.list", "refunds.quote", "refunds.issue"},
   read_only |-> {"crm.customer.read", "crm.orders.list", "tickets.read"},
   privacy |-> {"privacy.pii.read", "crm.customer.read", "crm.orders.list",
                "tickets.read"},
   manager |-> {"crm.customer.read", "crm.orders.list", "tickets.read",
                "refunds.quote"},
   platform_admin |-> {}]

tenant_role_tools ==
  [globex |-> [support_rep |-> {"crm.customer.read", "crm.orders.list",
                                "tickets.read", "tickets.reply.draft",
                                "refunds.quote"}]]

Overridden(tenant, role) ==
  /\ tenant \in DOMAIN tenant_role_tools
  /\ role \in DOMAIN tenant_role_tools[tenant]

\* Undefined in Rego (no tools) for a role nobody defines or an absent tenant.
role_tools_for(tenant, role) ==
  IF tenant = Absent THEN {}
  ELSE IF Overridden(tenant, role) THEN tenant_role_tools[tenant][role]
  ELSE IF role \in DOMAIN default_role_tools THEN default_role_tools[role]
  ELSE {}

\* Slip: the offer is resolved from the default matrix, whoever the tenant is.
tools_for_roles_Slip(tenant, roles) ==
  UNION {role_tools_for(Null, r) : r \in roles}

\* What the agent offers the model (app/common/policy.py asks for this rule).
tools_for_roles(tenant, roles) ==
  UNION {role_tools_for(tenant, r) : r \in roles}

may_call(in, tool) == \E r \in in.roles : tool \in role_tools_for(in.tenant, r)

-----------------------------------------------------------------------------
(* The three kinds of rule.                                                *)

is_trusted(in) == in.agent = TrustedAgent
has_tenant(in) == in.tenant # Absent
has_role(in, role) == role \in in.roles

is_positive_number(v) == v.kind = "number" /\ v.value > 0

\* Rego orders every string after every number.
GreaterThan(v, limit) == v.kind = "text" \/ (v.kind = "number" /\ v.value > limit)

deny(in) ==
  \/ ~is_trusted(in)
  \/ ~has_tenant(in)
  \/ in.tool \notin Catalogue
  \/ ~may_call(in, in.tool)
  \/ in.tool \in BulkTools
  \/ in.tool = RefundTool /\ ~is_positive_number(in.amount)
  \/ in.tool = RefundTool /\ GreaterThan(in.amount, ApprovalRefundLimit)

Admissible(in) == is_trusted(in) /\ has_tenant(in) /\ may_call(in, in.tool)

needs_approval(in) ==
  /\ Admissible(in)
  /\ \/ /\ in.tool = RefundTool
        /\ is_positive_number(in.amount)
        /\ GreaterThan(in.amount, AutoRefundLimit)
        /\ ~GreaterThan(in.amount, ApprovalRefundLimit)
     \/ in.tool \in PiiTools /\ has_role(in, "privacy")

allow(in) ==
  /\ Admissible(in)
  /\ \/ in.tool # RefundTool /\ in.tool \notin PiiTools
     \/ /\ in.tool = RefundTool
        /\ is_positive_number(in.amount)
        /\ ~GreaterThan(in.amount, AutoRefundLimit)

\* Precedence deny > require_approval > allow, and deny by default.
decision(in) ==
  IF deny(in) THEN "deny"
  ELSE IF needs_approval(in) THEN "require_approval"
  ELSE IF allow(in) THEN "allow"
  ELSE "deny"

\* The else chain of `reason`, kept as the outcome its wording announces.
reason(in) ==
  IF \/ ~is_trusted(in)
     \/ ~has_tenant(in)
     \/ in.tool \notin Catalogue
     \/ in.tool \in BulkTools
     \/ ~may_call(in, in.tool)
     \/ in.tool = RefundTool /\ ~is_positive_number(in.amount)
     \/ /\ in.tool = RefundTool
        /\ is_positive_number(in.amount)
        /\ GreaterThan(in.amount, ApprovalRefundLimit)
     \/ in.tool \in PiiTools /\ ~has_role(in, "privacy")
  THEN "denied"
  ELSE IF needs_approval(in) THEN "requires approval"
  ELSE IF allow(in) THEN "allowed" ELSE "denied"

-----------------------------------------------------------------------------
(* sdk/agentnhi/policy.py: the query. `answer` is what came back from OPA: *)
(* a decision, something that is not one, or no answer at all.             *)

\* Slip: the client fails open.
PolicyClientDecide_FailOpen(answer) ==
  IF answer \in {"allow", "deny", "require_approval"} THEN answer ELSE "allow"

PolicyClientDecide(answer) ==
  IF answer \in {"allow", "deny", "require_approval"} THEN answer ELSE "deny"

\* app/common/policy.py: the offer is empty when OPA cannot be asked.
OfferedTools(tenant, roles, reachable) ==
  IF reachable THEN tools_for_roles(tenant, roles) ELSE {}
=============================================================================
