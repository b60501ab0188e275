----------------------------- MODULE Approvals ------------------------------
(***************************************************************************)
(* The approval store (app/approvals/store.py) behind the api's routes     *)
(* (app/api/main.py): held requests and the decisions people take on them. *)
(*                                                                         *)
(* An approval is bound to the exact request: a record with at least the   *)
(* fields user and tenant; the agent run adds tool, args and agent.  Both  *)
(* backends are the same here: the in-memory one takes a lock around       *)
(* decide, the Postgres one decides in a single UPDATE, so every operation *)
(* is one step.  The reason, the note and the two timestamps are left out. *)
(***************************************************************************)
CONSTANTS
  ApprovalId,   \* the ids uuid4 may hand out
  Request,      \* the requests the agent may ask approval for
  Person,       \* the users of the platform
  Tenant,       \* the tenants they belong to
  TenantOf,     \* TenantOf[p]: the tenant in p's token
  Managers,     \* the people whose token carries the manager role
  NoOne         \* "nobody yet", for the approver of a pending approval

ASSUME ApprovalsAssumption ==
  /\ TenantOf \in [Person -> Tenant]
  /\ Managers \subseteq Person
  /\ NoOne \notin Person
  /\ \A req \in Request : req.user \in Person /\ req.tenant = TenantOf[req.user]

VARIABLE approvals   \* approvals[id]: the row, or NoApproval

NoApproval == [status |-> "none"]
Approval == [status : {"pending", "approved", "denied"}, request : Request,
             approver : Person \cup {NoOne}]

ApprovalsInit == approvals = [id \in ApprovalId |-> NoApproval]

\* POST /approvals -> store.create, under a fresh id.
Create(id, req) ==
  /\ approvals[id] = NoApproval
  /\ approvals' = [approvals EXCEPT
       ![id] = [status |-> "pending", request |-> req, approver |-> NoOne]]

\* POST /approvals/{id}/decision -> store.decide: a manager's route; the store
\* takes the decision only on a pending approval of the decider's own tenant
\* that somebody else asked for, and answers 409 otherwise.
Decide(id, approver, approved) ==
  /\ approver \in Managers
  /\ approvals[id].status = "pending"
  /\ approvals[id].request.tenant = TenantOf[approver]
  /\ approvals[id].request.user # approver
  /\ approvals' = [approvals EXCEPT
       ![id] = [@ EXCEPT !.status = IF approved THEN "approved" ELSE "denied",
                         !.approver = approver]]

\* Slip: the arguments of the request are not compared.
Verify_AnyArguments(id, req) ==
  /\ id \in ApprovalId
  /\ approvals[id].status = "approved"
  /\ approvals[id].request.tool = req.tool
  /\ approvals[id].request.user = req.user

\* store.verify: this very request, approved.
Verify(id, req) ==
  /\ id \in ApprovalId
  /\ approvals[id].status = "approved"
  /\ approvals[id].request = req

ApprovalsNext ==
  \/ \E id \in ApprovalId, req \in Request : Create(id, req)
  \/ \E id \in ApprovalId, p \in Person, yes \in BOOLEAN : Decide(id, p, yes)

(* What the store promises whoever uses it: a row is created once, under a *)
(* fresh id, and decided at most once (store.create, store.decide).        *)
ApprovalsSpec == ApprovalsInit /\ [][ApprovalsNext]_approvals

-----------------------------------------------------------------------------
(* The rows of the store.                                                  *)
ApprovalsTypeOK == approvals \in [ApprovalId -> Approval \cup {NoApproval}]

Decided(id) == approvals[id].status \in {"approved", "denied"}

(* Every decided approval names the manager who took the decision: not the *)
(* person it is for, and one of that person's own tenant (separation of    *)
(* duties and tenant scoping, store.decide).                               *)
DecidedBySomebodyElse ==
  \A id \in ApprovalId : Decided(id) =>
    /\ approvals[id].approver \in Managers
    /\ approvals[id].approver # approvals[id].request.user
    /\ TenantOf[approvals[id].approver] = approvals[id].request.tenant

(* A decision is final and a request is never rewritten under it: two      *)
(* managers cannot both win, and what was approved stays what was asked.   *)
(* It is what lets the tool server act on a verification after the fact.   *)
DecisionIsFinal ==
  [][\A id \in ApprovalId :
       /\ Decided(id) => approvals'[id] = approvals[id]
       /\ approvals[id] # NoApproval =>
            approvals'[id] # NoApproval /\ approvals'[id].request = approvals[id].request
    ]_approvals
=============================================================================
