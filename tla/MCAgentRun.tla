---------------------------- MODULE MCAgentRun ------------------------------
(* Values for AgentRun: two people of one tenant who may both ask for and  *)
(* decide on refunds, a manager of another tenant, an automatic refund,    *)
(* two held ones and a read.                                               *)
EXTENDS AgentRun, TLC

CONSTANTS alice, mia, gus

MCPerson == {alice, mia}
MCRolesOf == [p \in MCPerson |-> {"support_rep", "manager"}]
MCTenantOf == [p \in MCPerson |-> "acme"]
MCTenant == {"acme", "globex"}

MCPerson3 == {alice, mia, gus}
MCRolesOf3 == [p \in MCPerson3 |-> {"support_rep", "manager"}]
MCTenantOf3 == [p \in MCPerson3 |-> IF p = gus THEN "globex" ELSE "acme"]

MCId == {"o-1001"}
MCValue == {20, 100, 200}

Args(amount) == [id |-> "o-1001", amount |-> amount]
Read  == [tool |-> "crm.orders.list", args |-> Args(NoAmount)]
Small == [tool |-> RefundTool, args |-> Args(Number(20))]
Medium == [tool |-> RefundTool, args |-> Args(Number(100))]
Large == [tool |-> RefundTool, args |-> Args(Number(200))]
NoSum == [tool |-> RefundTool, args |-> Args(NoAmount)]     \* the amount is missing
Unnamed == [tool |-> RefundTool,                            \* the order is missing
            args |-> [NoArgs EXCEPT !.amount = Number(200)]]

MCGaps     == {Large, NoSum}
MCNoSum    == {NoSum}
MCLarge    == {Large}
MCKept     == {Medium, Unnamed}
MCEverything == {Read, Small, Medium, Large, Unnamed}

Approve == [yes |-> TRUE,  values |-> NoArgs]
Reject  == [yes |-> FALSE, values |-> NoArgs]
Sum(n)  == [yes |-> FALSE, values |-> [NoArgs EXCEPT !.amount = Text(n)]]
Order   == [yes |-> FALSE, values |-> [NoArgs EXCEPT !.id = "o-1001"]]

MCAnswers   == {Approve, Sum(20), Sum(100), Sum(200)}
MCAnswers1  == {Approve, Sum(100)}
MCAnswers2  == {Approve, Reject, Order}

MCFaults == {"unreachable", "no policy", "no verify", "lost answer"}
MCNoFaults == {}

Requests(people, tenants) ==
  UNION {[tool : Catalogue, args : Arg, user : {p}, agent : {TrustedAgent},
          tenant : {tenants[p]}] : p \in people}
MCRequest  == Requests(MCPerson, MCTenantOf)
MCRequest3 == Requests(MCPerson3, MCTenantOf3)

Symmetry == Permutations(ApprovalId) \cup Permutations(Replica) \cup Permutations(Worker)
=============================================================================
