--------------------------- MODULE MCToolDecision ---------------------------
(* Values for ToolDecision: an order, a customer and a ticket; tasks that  *)
(* name none, one or two of them; a tool that lists, one that acts and the *)
(* one that takes free text.                                               *)
EXTENDS ToolDecision

MCId == {"o-1001", "c-100", "t-500"}
MCKindOf == [i \in MCId |-> CASE i = "c-100" -> "customer_id"
                              [] i = "t-500" -> "ticket_id"
                              [] OTHER       -> "order_id"]
MCTask == {[ids |-> s, amount |-> n] :
             s \in {<<>>, <<"o-1001">>, <<"t-500">>, <<"c-100", "o-1001">>},
             n \in {"none", "number"}}
MCOffers == {{}, {"crm.orders.list", "refunds.issue", "tickets.reply.draft"}}
=============================================================================
