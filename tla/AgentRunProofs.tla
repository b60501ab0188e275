--------------------------- MODULE AgentRunProofs ---------------------------
(***************************************************************************)
(* Safety of the agent run for any number of replicas, threads, people and *)
(* approvals, any proposals, any answers and any faults.                   *)
(*                                                                         *)
(* TypeOK is not inductive: what is sent to the approval store has the     *)
(* right type only because a run past the planning node has chosen a tool, *)
(* and a call in the hands of the vendor is the call of a run that waits   *)
(* for it or of one that gave it up. RunInv adds both. The approval store, *)
(* which the run is composed with, comes first, by itself; then what is    *)
(* held and paid, what a run says of itself, and last the queue of one run.*)
(***************************************************************************)
EXTENDS AgentRun, FiniteSetTheorems, SequenceTheorems, TLAPS

-----------------------------------------------------------------------------
(* The approval store, for any number of approvals, people and tenants.    *)
(* ApprovalsTypeOK is inductive, and DecidedBySomebodyElse is given the    *)
(* types, so the argument is one step per operation.                       *)

(* A decision the store takes is on a row that is there.                   *)
LEMMA DecideOnARow ==
  ASSUME ApprovalsTypeOK, NEW id \in ApprovalId, approvals[id].status # "none"
  PROVE  approvals[id] \in Approval
  BY DEF ApprovalsTypeOK, NoApproval

(* The row a decision leaves behind, field by field.                       *)
LEMMA DecidedRow ==
  ASSUME ApprovalsTypeOK, NEW id \in ApprovalId, NEW p \in Person, NEW yes \in BOOLEAN,
         Decide(id, p, yes)
  PROVE  \E row \in Approval :
           /\ approvals' = [approvals EXCEPT ![id] = row]
           /\ row.status = IF yes THEN "approved" ELSE "denied"
           /\ row.request = approvals[id].request
           /\ row.approver = p
  <1> DEFINE row == [approvals[id] EXCEPT !.status = IF yes THEN "approved" ELSE "denied",
                                          !.approver = p]
  <1>1. approvals[id] \in Approval
    BY DecideOnARow DEF Decide
  <1>2. /\ row \in Approval
        /\ row.status = IF yes THEN "approved" ELSE "denied"
        /\ row.request = approvals[id].request
        /\ row.approver = p
    BY <1>1 DEF Approval
  <1>3. approvals' = [approvals EXCEPT ![id] = row]
    BY Zenon DEF Decide
  <1> QED
    BY <1>2, <1>3

(* Creating an approval keeps the rows well formed.                        *)
LEMMA CreateTypeOK ==
  ASSUME ApprovalsTypeOK, NEW id \in ApprovalId, NEW req \in Request, Create(id, req)
  PROVE  ApprovalsTypeOK'
  BY DEF ApprovalsTypeOK, Create, Approval

(* Deciding one keeps them well formed.                                    *)
LEMMA DecideTypeOK ==
  ASSUME ApprovalsTypeOK, NEW id \in ApprovalId, NEW p \in Person, NEW yes \in BOOLEAN,
         Decide(id, p, yes)
  PROVE  ApprovalsTypeOK'
  <1>1. PICK row \in Approval :
          /\ approvals' = [approvals EXCEPT ![id] = row]
          /\ row.status = IF yes THEN "approved" ELSE "denied"
          /\ row.request = approvals[id].request
          /\ row.approver = p
    BY DecidedRow
  <1> QED
    BY <1>1 DEF ApprovalsTypeOK

(* A new approval is pending, and the others are as they were.             *)
LEMMA CreateKeepsDecisions ==
  ASSUME ApprovalsTypeOK, DecidedBySomebodyElse,
         NEW id \in ApprovalId, NEW req \in Request, Create(id, req)
  PROVE  DecidedBySomebodyElse'
  BY DEF ApprovalsTypeOK, DecidedBySomebodyElse, Decided, Create

(* The decision that is taken is somebody else's, in the right tenant.     *)
LEMMA DecideKeepsDecisions ==
  ASSUME ApprovalsTypeOK, DecidedBySomebodyElse,
         NEW id \in ApprovalId, NEW p \in Person, NEW yes \in BOOLEAN,
         Decide(id, p, yes)
  PROVE  DecidedBySomebodyElse'
  <1>1. PICK row \in Approval :
          /\ approvals' = [approvals EXCEPT ![id] = row]
          /\ row.status = IF yes THEN "approved" ELSE "denied"
          /\ row.request = approvals[id].request
          /\ row.approver = p
    BY DecidedRow
  <1>2. SUFFICES ASSUME NEW j \in ApprovalId, Decided(j)'
                 PROVE  /\ approvals'[j].approver \in Managers
                        /\ approvals'[j].approver # approvals'[j].request.user
                        /\ TenantOf[approvals'[j].approver] = approvals'[j].request.tenant
    BY DEF DecidedBySomebodyElse
  <1>3. CASE j = id
    BY <1>1, <1>3 DEF Decide, ApprovalsTypeOK
  <1>4. CASE j # id
    BY <1>1, <1>2, <1>4 DEF DecidedBySomebodyElse, Decided, ApprovalsTypeOK
  <1> QED
    BY <1>3, <1>4

(* What one operation of the store may do to a row.                        *)
RowIsKept(id) ==
  /\ Decided(id) => approvals'[id] = approvals[id]
  /\ approvals[id] # NoApproval =>
       approvals'[id] # NoApproval /\ approvals'[id].request = approvals[id].request

(* Creating an approval leaves every existing row alone.                   *)
LEMMA CreateKeepsRows ==
  ASSUME ApprovalsTypeOK, NEW id \in ApprovalId, NEW req \in Request, Create(id, req)
  PROVE  \A j \in ApprovalId : RowIsKept(j)
  BY DEF ApprovalsTypeOK, Create, RowIsKept, Decided, NoApproval

(* A decision touches a pending row only, and keeps its request.           *)
LEMMA DecideKeepsRows ==
  ASSUME ApprovalsTypeOK, NEW id \in ApprovalId, NEW p \in Person, NEW yes \in BOOLEAN,
         Decide(id, p, yes)
  PROVE  \A j \in ApprovalId : RowIsKept(j)
  <1>1. PICK row \in Approval :
          /\ approvals' = [approvals EXCEPT ![id] = row]
          /\ row.status = IF yes THEN "approved" ELSE "denied"
          /\ row.request = approvals[id].request
          /\ row.approver = p
    BY DecidedRow
  <1>2. approvals[id].status = "pending"
    BY DEF Decide
  <1> QED
    BY <1>1, <1>2 DEF RowIsKept, Decided, ApprovalsTypeOK, NoApproval

StoreInv == ApprovalsTypeOK /\ DecidedBySomebodyElse

(* The store starts empty.                                                 *)
LEMMA StoreInit == ApprovalsInit => StoreInv
  BY DEF ApprovalsInit, StoreInv, ApprovalsTypeOK, DecidedBySomebodyElse, Decided, NoApproval

(* Every operation of the store keeps StoreInv.                                 *)
LEMMA StoreNext == StoreInv /\ [ApprovalsNext]_approvals => StoreInv'
  <1> SUFFICES ASSUME StoreInv, [ApprovalsNext]_approvals PROVE StoreInv'
    OBVIOUS
  <1>1. ASSUME NEW id \in ApprovalId, NEW req \in Request, Create(id, req) PROVE StoreInv'
    BY <1>1, CreateTypeOK, CreateKeepsDecisions DEF StoreInv
  <1>2. ASSUME NEW id \in ApprovalId, NEW p \in Person, NEW yes \in BOOLEAN,
               Decide(id, p, yes)
        PROVE  StoreInv'
    BY <1>2, DecideTypeOK, DecideKeepsDecisions DEF StoreInv
  <1>3. CASE UNCHANGED approvals
    BY <1>3 DEF StoreInv, ApprovalsTypeOK, DecidedBySomebodyElse, Decided
  <1> QED
    BY <1>1, <1>2, <1>3 DEF ApprovalsNext

(* The rows of the store are well formed (ApprovalStore, Approval).        *)
THEOREM StoreTypeOK == ApprovalsSpec => []ApprovalsTypeOK
  <1>1. StoreInv => ApprovalsTypeOK
    BY DEF StoreInv
  <1> QED
    BY StoreInit, StoreNext, <1>1, PTL DEF ApprovalsSpec

(* Separation of duties and tenant scoping: every decision was taken by a  *)
(* manager of the requester's tenant who is not the requester              *)
(* (store.decide).                                                         *)
THEOREM SeparationOfDuties == ApprovalsSpec => []DecidedBySomebodyElse
  <1>1. StoreInv => DecidedBySomebodyElse
    BY DEF StoreInv
  <1> QED
    BY StoreInit, StoreNext, <1>1, PTL DEF ApprovalsSpec

(* No operation changes a decision, or the request under it.               *)
THEOREM DecisionsAreFinal == ApprovalsSpec => DecisionIsFinal
  <1>1. StoreInv /\ [ApprovalsNext]_approvals => [\A id \in ApprovalId : RowIsKept(id)]_approvals
    <2> SUFFICES ASSUME StoreInv, ApprovalsNext PROVE \A id \in ApprovalId : RowIsKept(id)
      OBVIOUS
    <2>1. ASSUME NEW id \in ApprovalId, NEW req \in Request, Create(id, req)
          PROVE  \A j \in ApprovalId : RowIsKept(j)
      BY <2>1, CreateKeepsRows DEF StoreInv
    <2>2. ASSUME NEW id \in ApprovalId, NEW p \in Person, NEW yes \in BOOLEAN,
                 Decide(id, p, yes)
          PROVE  \A j \in ApprovalId : RowIsKept(j)
      BY <2>2, DecideKeepsRows DEF StoreInv
    <2> QED
      BY <2>1, <2>2 DEF ApprovalsNext
  <1> QED
    BY StoreInit, StoreNext, <1>1, PTL DEF ApprovalsSpec, DecisionIsFinal, RowIsKept

-----------------------------------------------------------------------------
(* The run.                                                                *)

RunTyped == TypeOK /\ ToolIsChosen

\* A replica that waits for the vendor is at its call, and has one call there.
CallersWait ==
  \A c \in vendor : c.waits =>
    /\ exec[c.by].at = "refunding"
    /\ exec[c.by].st.tool = RefundTool
    /\ c.id = exec[c.by].st.args.id
    /\ c.amount = coerce_args(exec[c.by].st.args).amount.value
    /\ c.key = exec[c.by].st.approval_id
    /\ \A d \in vendor : d.waits /\ d.by = c.by => d = c

RunInv == RunTyped /\ CallersWait

-----------------------------------------------------------------------------
(* The operators the actions are built from.                               *)

(* The routers name a node of the graph or its end.                        *)
LEMMA Routes ==
  ASSUME NEW st
  PROVE  /\ after_call(st) \in {"await_decision", "create_approval", "plan", "END"}
         /\ after_create(st) \in {"await_decision", "END"}
         /\ after_decision(st) \in {"call_tool", "END"}
         /\ after_plan(st) \in {"ask_clarification", "call_tool", "END"}
         /\ after_clarification(st) \in {"ask_clarification", "call_tool", "END"}
  BY DEF after_call, after_create, after_decision, after_plan, after_clarification

(* Amounts are records of a kind and an integer.                           *)
LEMMA ArgAmount ==
  ASSUME NEW args \in Arg
  PROVE  /\ args.amount.value \in Int
         /\ args.amount.kind = "number" => args.amount = Number(args.amount.value)
  <1>1. Value \subseteq Int
    BY AgentRunAssumption
  <1>2. \/ args.amount = NoAmount
        \/ \E n \in Value : args.amount = Number(n) \/ args.amount = Text(n)
    BY DEF Arg
  <1>3. NoAmount.value \in Int /\ NoAmount.kind # "number"
    BY DEF NoAmount
  <1>4. \A n : /\ Number(n).value = n /\ Text(n).value = n
               /\ Text(n).kind # "number"
    BY DEF Number, Text
  <1> QED
    BY <1>1, <1>2, <1>3, <1>4

(* Coercion keeps the arguments well formed.                               *)
LEMMA CoerceType == ASSUME NEW args \in Arg PROVE coerce_args(args) \in Arg
  <1>1. CASE args.amount.kind = "text"
    BY <1>1 DEF Arg, coerce_args, NoAmount, Number, Text
  <1>2. CASE args.amount.kind # "text"
    BY <1>2 DEF Arg, coerce_args
  <1> QED
    BY <1>1, <1>2

(* Merging an answer keeps the arguments well formed.                      *)
LEMMA MergeType ==
  ASSUME NEW args \in Arg, NEW values \in Arg PROVE Merge(args, values) \in Arg
  BY DEF Arg, Merge

(* The fields an invocation's state is used through.                       *)
LEMMA StateFields ==
  ASSUME NEW st \in AgentState
  PROVE  /\ st.args \in Arg /\ st.tool \in Catalogue \cup {""}
         /\ st.asks \in Nat /\ st.steps \in Nat
         /\ st.observations \in Seq(Observation)
         /\ st.approval_id \in ApprovalId \cup {NoKey}
         /\ st.more \in BOOLEAN /\ st.missing \in SUBSET {"id", "amount"}
  BY DEF AgentState

(* An invocation that is anywhere is a well-formed one.                    *)
LEMMA Working ==
  ASSUME TypeOK, NEW r \in Replica, exec[r].at # "idle"
  PROVE  exec[r] \in Invocation
  BY DEF TypeOK, Idle

(* The fields an invocation is used through.                               *)
LEMMA InvocationFields ==
  ASSUME NEW inv \in Invocation
  PROVE  /\ inv.st \in AgentState /\ inv.thread \in Thread /\ inv.as \in Person
         /\ inv.answer \in [yes : BOOLEAN, values : Arg]
         /\ inv.ret \in Return /\ inv.at \in Place
  BY DEF Invocation

-----------------------------------------------------------------------------
(* Advancing the graph keeps the invariant.                                *)
LEMMA AdvanceInv ==
  ASSUME RunTyped, NEW r \in Replica, exec[r] \in Invocation,
         NEW st \in AgentState, NEW next \in Node \cup {"END"},
         next \in Node \ {"plan"} => st.tool \in Catalogue,
         Advance(r, st, next)
  PROVE  /\ exec' \in [Replica -> Invocation \cup {Idle}]
         /\ ckpt' \in [Thread -> Checkpoint]
         /\ ToolIsChosen'
  <1> DEFINE inv == IF next \in Pause \cup {"END"} THEN Idle
                    ELSE [exec[r] EXCEPT !.at = next, !.st = st,
                                         !.answer = NoAnswer, !.ret = NoReturn]
             cp == [next |-> next, st |-> st]
  <1>1. exec' = [exec EXCEPT ![r] = inv] /\ ckpt' = [ckpt EXCEPT ![exec[r].thread] = cp]
    BY DEF Advance
  <1>2. NoAnswer \in [yes : BOOLEAN, values : Arg] /\ NoReturn \in Return
    BY DEF NoAnswer, NoReturn, Return, NoArgs, Arg, Status, NoReceipt
  <1>3. inv \in Invocation \cup {Idle}
    BY <1>2 DEF Invocation, Place, Pause
  <1>4. cp \in Checkpoint
    BY DEF Checkpoint
  <1>5. exec[r].thread \in Thread
    BY InvocationFields
  <1>6. inv.at \in Place \ {"plan"} => inv.st.tool \in Catalogue
    <2>1. CASE next \in Pause \cup {"END"}
      BY <2>1 DEF Idle, Place, Node
    <2>2. CASE next \notin Pause \cup {"END"}
      <3>1. inv.at = next /\ inv.st = st
        BY <2>2 DEF Invocation
      <3> QED
        BY <2>2, <3>1
    <2> QED
      BY <2>1, <2>2
  <1>7. cp.next \in Node \ {"plan"} => cp.st.tool \in Catalogue
    OBVIOUS
  <1> HIDE DEF inv, cp
  <1>8. ToolIsChosen'
    BY <1>1, <1>5, <1>6, <1>7 DEF RunTyped, TypeOK, ToolIsChosen
  <1> QED
    BY <1>1, <1>3, <1>4, <1>5, <1>8 DEF RunTyped, TypeOK

(* What an action that only advances the graph has to show.                *)
LEMMA AdvanceOnly ==
  ASSUME RunTyped, NEW r \in Replica, exec[r] \in Invocation,
         NEW st \in AgentState, NEW next \in Node \cup {"END"},
         next \in Node \ {"plan"} => st.tool \in Catalogue,
         Advance(r, st, next),
         UNCHANGED <<approvals, runs, refunds, seq, vendor, contended, performed, bounds>>
  PROVE  RunTyped'
  BY AdvanceInv DEF RunTyped, TypeOK, ApprovalsTypeOK

-----------------------------------------------------------------------------
(* One lemma per action: it keeps RunTyped.                                  *)

(* A complete decision names a tool of the catalogue.                      *)
LEMMA PlanCallInv ==
  ASSUME RunTyped, NEW r \in Replica, NEW p \in Proposal, NEW more \in BOOLEAN,
         PlanCall(r, p, more)
  PROVE  RunTyped'
  <1> DEFINE st == [exec[r].st EXCEPT !.tool = p.tool, !.args = p.args, !.more = more,
                                      !.final = FALSE, !.approval_id = NoKey]
  <1>1. exec[r] \in Invocation
    BY Working DEF RunTyped, PlanCall
  <1>0. exec[r].st \in AgentState
    BY <1>1, InvocationFields
  <1>2. p.tool \in Catalogue /\ p.args \in Arg
    BY AgentRunAssumption DEF Call
  <1>3. st \in AgentState /\ st.tool = p.tool
    BY <1>0, <1>2 DEF AgentState
  <1>4. Advance(r, st, after_plan(st))
        /\ UNCHANGED <<approvals, runs, refunds, seq, vendor, contended, performed, bounds>>
    BY DEF PlanCall
  <1> HIDE DEF st
  <1>5. after_plan(st) \in Node \cup {"END"}
    BY Routes DEF Node
  <1> QED
    BY <1>1, <1>2, <1>3, <1>4, <1>5, AdvanceOnly

(* So does a decision with a gap.                                          *)
LEMMA PlanClarifyInv ==
  ASSUME RunTyped, NEW r \in Replica, NEW p \in Proposal, PlanClarify(r, p)
  PROVE  RunTyped'
  <1> DEFINE st == [exec[r].st EXCEPT !.tool = p.tool, !.args = p.args,
                                      !.missing = Missing(p.tool, p.args),
                                      !.status = "clarification_required"]
  <1>1. exec[r] \in Invocation
    BY Working DEF RunTyped, PlanClarify
  <1>0. exec[r].st \in AgentState
    BY <1>1, InvocationFields
  <1>2. p.tool \in Catalogue /\ p.args \in Arg
    BY AgentRunAssumption DEF Call
  <1>3. Missing(p.tool, p.args) \in SUBSET {"id", "amount"}
    BY DEF Missing, Required
  <1>4. "clarification_required" \in Status
    BY DEF Status
  <1>5. st \in AgentState /\ st.tool = p.tool
    BY <1>0, <1>2, <1>3, <1>4 DEF AgentState
  <1>6. Advance(r, st, after_plan(st))
        /\ UNCHANGED <<approvals, runs, refunds, seq, vendor, contended, performed, bounds>>
    BY DEF PlanClarify
  <1> HIDE DEF st
  <1>7. after_plan(st) \in Node \cup {"END"}
    BY Routes DEF Node
  <1> QED
    BY <1>1, <1>2, <1>5, <1>6, <1>7, AdvanceOnly

(* No usable decision ends the run: no tool is needed.                     *)
LEMMA PlanNothingInv ==
  ASSUME RunTyped, NEW r \in Replica, NEW status \in {"refused", "error"},
         PlanNothing(r, status)
  PROVE  RunTyped'
  <1> DEFINE st == [exec[r].st EXCEPT !.status = status]
  <1>1. exec[r] \in Invocation
    BY Working DEF RunTyped, PlanNothing
  <1>0. exec[r].st \in AgentState
    BY <1>1, InvocationFields
  <1>2. status \in Status
    BY DEF Status
  <1>3. st \in AgentState /\ st.status = status
    BY <1>0, <1>2 DEF AgentState
  <1>4. Advance(r, st, after_plan(st))
        /\ UNCHANGED <<approvals, runs, refunds, seq, vendor, contended, performed, bounds>>
    BY DEF PlanNothing
  <1> HIDE DEF st
  <1>5. after_plan(st) = "END"
    BY <1>3 DEF after_plan
  <1> QED
    BY <1>1, <1>3, <1>4, <1>5, AdvanceOnly DEF Node

(* A repeated call changes the status only.                                *)
LEMMA RepeatCallInv ==
  ASSUME RunTyped, NEW r \in Replica, RepeatCall(r)
  PROVE  RunTyped'
  <1> DEFINE st == [exec[r].st EXCEPT !.status = "ok", !.final = TRUE]
  <1>1. exec[r] \in Invocation
    BY Working DEF RunTyped, RepeatCall
  <1>0. exec[r].st \in AgentState
    BY <1>1, InvocationFields
  <1>2. exec[r].st.tool \in Catalogue
    BY DEF RunTyped, ToolIsChosen, RepeatCall, Place, Node
  <1>3. "ok" \in Status
    BY DEF Status
  <1>4. st \in AgentState /\ st.tool = exec[r].st.tool
    BY <1>0, <1>3 DEF AgentState
  <1>5. Advance(r, st, after_call(st))
        /\ UNCHANGED <<approvals, runs, refunds, seq, vendor, contended, performed, bounds>>
    BY DEF RepeatCall
  <1> HIDE DEF st
  <1>6. after_call(st) \in Node \cup {"END"}
    BY Routes DEF Node
  <1> QED
    BY <1>1, <1>2, <1>4, <1>5, <1>6, AdvanceOnly

(* Recording a tool's answer keeps the observations well formed.           *)
LEMMA ToolAnsweredInv ==
  ASSUME RunTyped, NEW r \in Replica, ToolAnswered(r)
  PROVE  RunTyped'
  <1> DEFINE inv == exec[r]
             obs == [tool |-> inv.st.tool, args |-> inv.st.args, receipt |-> inv.ret.receipt]
             done == [inv.st EXCEPT !.status = "ok", !.steps = @ + 1,
                        !.observations = Append(@, obs), !.final = ~inv.st.more]
             failed == [inv.st EXCEPT !.status = inv.ret.status, !.final = TRUE]
             st == IF inv.ret.status = "ok" THEN done ELSE failed
  <1>1. inv \in Invocation
    BY Working DEF RunTyped, ToolAnswered
  <1>2. inv.st.tool \in Catalogue
    BY DEF RunTyped, ToolIsChosen, ToolAnswered, Place, Node
  <1>3. inv.st \in AgentState /\ inv.ret \in Return
    BY <1>1, InvocationFields
  <1>4. /\ "ok" \in Status /\ inv.ret.status \in Status
        /\ inv.st.steps + 1 \in Nat
        /\ (~inv.st.more) \in BOOLEAN
    <2>1. "ok" \in Status
      BY DEF Status
    <2>2. inv.ret.status \in Status
      BY <1>3 DEF Return
    <2>3. inv.st.steps \in Nat
      BY <1>3, StateFields
    <2> QED
      BY <2>1, <2>2, <2>3
  <1>5. Append(inv.st.observations, obs) \in Seq(Observation)
    <2>1. obs \in Observation
      <3>1. inv.st.args \in Arg
        BY <1>3, StateFields
      <3>2. inv.ret.receipt \in Nat
        BY <1>3 DEF Return
      <3> QED
        BY <1>2, <3>1, <3>2 DEF Observation
    <2>2. inv.st.observations \in Seq(Observation)
      BY <1>3, StateFields
    <2>3. \A q \in Seq(Observation), o \in Observation : Append(q, o) \in Seq(Observation)
      OBVIOUS
    <2> QED
      BY <2>1, <2>2, <2>3, Zenon
  <1>6. done \in AgentState /\ done.tool = inv.st.tool
    BY <1>3, <1>4, <1>5 DEF AgentState
  <1>7. failed \in AgentState /\ failed.tool = inv.st.tool
    BY <1>3, <1>4 DEF AgentState
  <1>8. Advance(r, st, after_call(st))
        /\ UNCHANGED <<approvals, runs, refunds, seq, vendor, contended, performed, bounds>>
    BY DEF ToolAnswered
  <1>9. st \in AgentState /\ st.tool \in Catalogue
    BY <1>2, <1>6, <1>7
  <1> HIDE DEF st
  <1>10. after_call(st) \in Node \cup {"END"}
    BY Routes DEF Node
  <1> QED
    BY <1>1, <1>8, <1>9, <1>10, AdvanceOnly

(* Asking for an approval sends a well-formed request.                     *)
LEMMA HeldRequestType ==
  ASSUME NEW inv \in Invocation, inv.st.tool \in Catalogue
  PROVE  HeldRequest(inv) \in Request
  <1>1. inv.st.args \in Arg /\ inv.as \in Person
    BY InvocationFields, StateFields
  <1> QED
    BY <1>1, AgentRunAssumption DEF HeldRequest

(* So does the tool server when it asks for a verification.                *)
LEMMA ToolRequestType ==
  ASSUME NEW inv \in Invocation, inv.st.tool \in Catalogue
  PROVE  ToolRequest(inv) \in Request
  <1>1. inv.st.args \in Arg /\ inv.as \in Person
    BY InvocationFields, StateFields
  <1>2. coerce_args(inv.st.args) \in Arg
    BY <1>1, CoerceType
  <1> QED
    BY <1>1, <1>2, AgentRunAssumption DEF ToolRequest

(* The history stays well formed.                                          *)
LEMMA HistoryType ==
  ASSUME TypeOK, NEW inv \in Invocation, inv.st.tool \in Catalogue, NEW fault
  PROVE  performed \cup LetThrough(inv, fault)
           \subseteq [request : Request, key : ApprovalId \cup {NoKey}]
  <1>1. ToolRequest(inv) \in Request
    BY ToolRequestType
  <1>2. inv.st.approval_id \in ApprovalId \cup {NoKey}
    BY InvocationFields, StateFields
  <1> QED
    BY <1>1, <1>2 DEF TypeOK, LetThrough

(* A call that is answered: the history and the answer.                    *)
LEMMA CallToolInv ==
  ASSUME RunTyped, NEW r \in Replica, NEW fault \in Fault \cup {"none"}, CallTool(r, fault)
  PROVE  RunTyped'
  <1> DEFINE inv == exec[r]
             outcome == Enforced(inv, fault)
  <1>1. inv \in Invocation /\ TypeOK
    BY Working DEF RunTyped, CallTool
  <1>2. inv.st.tool \in Catalogue
    BY DEF RunTyped, ToolIsChosen, CallTool, Place, Node
  <1>3. PICK receipt \in IF outcome = "ok" THEN Receipts(inv.st) ELSE {NoReceipt} :
          exec' = [exec EXCEPT ![r] = [@ EXCEPT
            !.at = "tool answered",
            !.ret = [status |-> IF fault = "lost answer" THEN "error" ELSE outcome,
                     receipt |-> receipt, id |-> NoKey]]]
    BY DEF CallTool
  <1> DEFINE ret == [status |-> IF fault = "lost answer" THEN "error" ELSE outcome,
                     receipt |-> receipt, id |-> NoKey]
             after == [inv EXCEPT !.at = "tool answered", !.ret = ret]
  <1>4. ret \in Return
    <2>1. outcome \in Status /\ "error" \in Status
      BY DEF Enforced, Status
    <2>2. receipt \in Nat
      BY <1>1, <1>3 DEF Receipts, IssuedUnder, TypeOK, Refund, NoReceipt
    <2> QED
      BY <2>1, <2>2 DEF Return
  <1>5. after \in Invocation /\ after.at = "tool answered" /\ after.st = inv.st
    BY <1>1, <1>4 DEF Invocation, Place
  <1>6. exec' = [exec EXCEPT ![r] = after]
        /\ UNCHANGED <<approvals, ckpt, runs, refunds, seq, vendor, contended, bounds>>
    BY <1>3 DEF CallTool
  <1>7. performed' \subseteq [request : Request, key : ApprovalId \cup {NoKey}]
    BY <1>1, <1>2, HistoryType DEF CallTool
  <1> HIDE DEF after, ret
  <1>8. TypeOK'
    BY <1>1, <1>5, <1>6, <1>7 DEF TypeOK, ApprovalsTypeOK
  <1>9. ToolIsChosen'
    BY <1>1, <1>2, <1>5, <1>6 DEF RunTyped, ToolIsChosen, TypeOK
  <1> QED
    BY <1>8, <1>9 DEF RunTyped

(* The call a worker of the vendor's takes on is a well-formed one.        *)
LEMMA VendorCallType ==
  ASSUME NEW inv \in Invocation, IsNewRefund(inv.st), NEW r \in Replica, NEW w \in Worker
  PROVE  [worker |-> w, by |-> r, waits |-> TRUE, id |-> inv.st.args.id,
          amount |-> coerce_args(inv.st.args).amount.value,
          tenant |-> TenantOf[inv.as], key |-> inv.st.approval_id] \in VendorCall
  <1>1. inv.st.args \in Arg /\ inv.as \in Person
        /\ inv.st.approval_id \in ApprovalId \cup {NoKey}
    BY InvocationFields, StateFields
  <1>2. coerce_args(inv.st.args).amount.value \in Int
    BY <1>1, CoerceType, ArgAmount
  <1>3. TenantOf[inv.as] \in STRING /\ inv.st.args.id \in Id
    BY <1>1, AgentRunAssumption DEF IsNewRefund
  <1> QED
    BY <1>1, <1>2, <1>3 DEF VendorCall

(* A call the vendor takes on.                                             *)
LEMMA CallVendorInv ==
  ASSUME RunTyped, NEW r \in Replica, NEW fault \in Fault \cup {"none"}, NEW w \in Worker,
         CallVendor(r, fault, w)
  PROVE  RunTyped'
  <1> DEFINE inv == exec[r]
             after == [inv EXCEPT !.at = "refunding"]
  <1>1. inv \in Invocation /\ TypeOK
    BY Working DEF RunTyped, CallVendor
  <1>2. inv.st.tool \in Catalogue
    BY DEF RunTyped, ToolIsChosen, CallVendor, Place, Node
  <1>3. after \in Invocation /\ after.at = "refunding" /\ after.st = inv.st
    BY <1>1 DEF Invocation, Place
  <1>4. exec' = [exec EXCEPT ![r] = after]
        /\ UNCHANGED <<approvals, ckpt, runs, refunds, seq, bounds>>
    BY DEF CallVendor
  <1>5. performed' \subseteq [request : Request, key : ApprovalId \cup {NoKey}]
    BY <1>1, <1>2, HistoryType DEF CallVendor
  <1>6. vendor' \subseteq VendorCall
    BY <1>1, VendorCallType DEF CallVendor, TypeOK
  <1>7. contended' \subseteq ApprovalId \cup {NoKey}
    <2>1. \A c \in vendor : c.key \in ApprovalId \cup {NoKey}
      BY <1>1 DEF TypeOK, VendorCall
    <2> QED
      BY <1>1, <2>1 DEF CallVendor, TypeOK
  <1> HIDE DEF after
  <1>8. TypeOK'
    BY <1>1, <1>3, <1>4, <1>5, <1>6, <1>7 DEF TypeOK, ApprovalsTypeOK
  <1>9. ToolIsChosen'
    BY <1>1, <1>2, <1>3, <1>4 DEF RunTyped, ToolIsChosen, TypeOK
  <1> QED
    BY <1>8, <1>9 DEF RunTyped

(* A call whose caller has gone is still a well-formed one.                *)
LEMMA OrphanType ==
  ASSUME TypeOK, NEW r PROVE Orphaned(r) \subseteq VendorCall
  BY DEF TypeOK, Orphaned, VendorCall

(* A replica that is answered, or answers itself, past its call.           *)
LEMMA AnsweredInv ==
  ASSUME RunTyped, NEW q \in Replica, exec[q].at = "refunding", NEW ret \in Return,
         exec' = [exec EXCEPT ![q] = [@ EXCEPT !.at = "tool answered", !.ret = ret]],
         ckpt' = ckpt
  PROVE  exec' \in [Replica -> Invocation \cup {Idle}] /\ ToolIsChosen'
  <1> DEFINE inv == exec[q]
             after == [inv EXCEPT !.at = "tool answered", !.ret = ret]
  <1>1. inv \in Invocation /\ TypeOK
    BY Working DEF RunTyped
  <1>2. inv.st.tool \in Catalogue
    BY DEF RunTyped, ToolIsChosen, Place, Node
  <1>3. after \in Invocation /\ after.at = "tool answered" /\ after.st = inv.st
    BY <1>1 DEF Invocation, Place
  <1>4. exec' = [exec EXCEPT ![q] = after]
    OBVIOUS
  <1> HIDE DEF after
  <1> QED
    BY <1>1, <1>2, <1>3, <1>4 DEF RunTyped, ToolIsChosen, TypeOK

LEMMA CallTimesOutInv ==
  ASSUME RunTyped, NEW r \in Replica, CallTimesOut(r)
  PROVE  RunTyped'
  <1> DEFINE ret == [NoReturn EXCEPT !.status = "error"]
  <1>1. ret \in Return
    BY DEF NoReturn, Return, Status, NoReceipt
  <1>2. exec' \in [Replica -> Invocation \cup {Idle}] /\ ToolIsChosen'
    <2>1. exec' = [exec EXCEPT ![r] = [@ EXCEPT !.at = "tool answered", !.ret = ret]]
          /\ exec[r].at = "refunding" /\ ckpt' = ckpt
      BY DEF CallTimesOut
    <2> HIDE DEF ret
    <2> QED
      BY <1>1, <2>1, AnsweredInv
  <1>3. vendor' \subseteq VendorCall
    BY OrphanType DEF CallTimesOut, RunTyped
  <1> QED
    BY <1>2, <1>3 DEF CallTimesOut, RunTyped, TypeOK, ApprovalsTypeOK

(* The vendor's books stay well formed, and whoever waits is answered.     *)
LEMMA IssueInv ==
  ASSUME RunInv, NEW c \in vendor, issue_refund(c)
  PROVE  RunTyped'
  <1>1. TypeOK /\ RunTyped /\ c \in VendorCall
    BY DEF RunInv, RunTyped, TypeOK
  <1>2. c.by \in Replica /\ c.id \in Id /\ c.amount \in Int /\ c.tenant \in STRING
        /\ c.key \in ApprovalId \cup {NoKey} /\ seq \in Nat \ {0}
    BY <1>1 DEF VendorCall, TypeOK
  <1>3. refunds' \subseteq Refund /\ seq' \in Nat \ {0} /\ vendor' \subseteq VendorCall
        /\ UNCHANGED <<approvals, ckpt, runs, contended, performed, bounds>>
    BY <1>1, <1>2 DEF issue_refund, Refund, TypeOK
  <1>4. exec' \in [Replica -> Invocation \cup {Idle}] /\ ToolIsChosen'
    <2>1. CASE ~c.waits
      <3>1. exec' = exec
        BY <2>1 DEF issue_refund
      <3> QED
        BY <1>1, <1>3, <3>1 DEF RunTyped, TypeOK, ToolIsChosen
    <2>2. CASE c.waits
      <3> DEFINE ret == [status |-> "ok", receipt |-> seq, id |-> NoKey]
      <3>1. exec' = [exec EXCEPT ![c.by] = [@ EXCEPT !.at = "tool answered", !.ret = ret]]
        BY <2>2 DEF issue_refund
      <3>2. ret \in Return
        BY <1>2 DEF Return, Status
      <3>3. exec[c.by].at = "refunding"
        BY <2>2 DEF RunInv, CallersWait
      <3> HIDE DEF ret
      <3> QED
        BY <1>1, <1>2, <1>3, <3>1, <3>2, <3>3, AnsweredInv
    <2> QED
      BY <2>1, <2>2
  <1> QED
    BY <1>1, <1>3, <1>4 DEF RunTyped, TypeOK, ApprovalsTypeOK

(* Asking for an approval adds one well-formed row.                        *)
LEMMA CreateApprovalInv ==
  ASSUME RunTyped, NEW r \in Replica, NEW id \in ApprovalId, CreateApproval(r, id)
  PROVE  RunTyped'
  <1> DEFINE ret == [NoReturn EXCEPT !.id = id]
             after == [exec[r] EXCEPT !.at = "approval created", !.ret = ret]
  <1>1. exec[r] \in Invocation /\ TypeOK
    BY Working DEF RunTyped, CreateApproval
  <1>2. exec[r].st.tool \in Catalogue
    BY DEF RunTyped, ToolIsChosen, CreateApproval, Place, Node
  <1>3. ret \in Return
    BY DEF Return, NoReturn, Status, NoReceipt
  <1>4. after \in Invocation /\ after.st = exec[r].st
    BY <1>1, <1>3 DEF Invocation, Place
  <1>5. exec' = [exec EXCEPT ![r] = after]
        /\ UNCHANGED <<ckpt, runs, refunds, seq, vendor, contended, performed, bounds>>
    BY DEF CreateApproval
  <1>6. ApprovalsTypeOK'
    BY <1>1, <1>2, HeldRequestType, CreateTypeOK DEF TypeOK, CreateApproval
  <1> HIDE DEF after, ret
  <1>7. TypeOK'
    BY <1>1, <1>4, <1>5, <1>6 DEF TypeOK
  <1>8. ToolIsChosen'
    BY <1>1, <1>2, <1>4, <1>5 DEF RunTyped, ToolIsChosen, TypeOK
  <1> QED
    BY <1>7, <1>8 DEF RunTyped

(* The id the store answered with is kept in the state.                    *)
LEMMA ApprovalCreatedInv ==
  ASSUME RunTyped, NEW r \in Replica, ApprovalCreated(r)
  PROVE  RunTyped'
  <1> DEFINE st == [exec[r].st EXCEPT !.approval_id = exec[r].ret.id]
  <1>1. exec[r] \in Invocation
    BY Working DEF RunTyped, ApprovalCreated
  <1>2. exec[r].st.tool \in Catalogue
    BY DEF RunTyped, ToolIsChosen, ApprovalCreated, Place, Node
  <1>3. exec[r].st \in AgentState /\ exec[r].ret \in Return
    BY <1>1, InvocationFields
  <1>4. exec[r].ret.id \in ApprovalId \cup {NoKey}
    BY <1>3 DEF Return
  <1>5. st \in AgentState /\ st.tool = exec[r].st.tool
    BY <1>3, <1>4 DEF AgentState
  <1>6. Advance(r, st, after_create(st))
        /\ UNCHANGED <<approvals, runs, refunds, seq, vendor, contended, performed, bounds>>
    BY DEF ApprovalCreated
  <1> HIDE DEF st
  <1>7. after_create(st) \in Node \cup {"END"}
    BY Routes DEF Node
  <1> QED
    BY <1>1, <1>2, <1>5, <1>6, <1>7, AdvanceOnly

(* A request that fails may have left its row in the store.                *)
LEMMA CreateFailsInv ==
  ASSUME RunTyped, NEW r \in Replica, NEW fault \in Fault, CreateFails(r, fault)
  PROVE  RunTyped'
  <1> DEFINE st == [exec[r].st EXCEPT !.status = "error"]
  <1>1. exec[r] \in Invocation /\ TypeOK
    BY Working DEF RunTyped, CreateFails
  <1>2. exec[r].st.tool \in Catalogue
    BY DEF RunTyped, ToolIsChosen, CreateFails, Place, Node
  <1>3. exec[r].st \in AgentState
    BY <1>1, InvocationFields
  <1>4. st \in AgentState /\ st.status = "error"
    BY <1>3 DEF AgentState, Status
  <1>5. Advance(r, st, after_create(st))
        /\ UNCHANGED <<runs, refunds, seq, vendor, contended, performed, bounds>>
    BY DEF CreateFails
  <1>6. ApprovalsTypeOK'
    <2>1. UNCHANGED approvals \/ \E id \in ApprovalId : Create(id, HeldRequest(exec[r]))
      BY DEF CreateFails
    <2> QED
      BY <1>1, <1>2, <2>1, HeldRequestType, CreateTypeOK DEF TypeOK, ApprovalsTypeOK
  <1> HIDE DEF st
  <1>7. after_create(st) = "END"
    BY <1>4 DEF after_create
  <1>8. /\ exec' \in [Replica -> Invocation \cup {Idle}]
        /\ ckpt' \in [Thread -> Checkpoint]
        /\ ToolIsChosen'
    BY <1>1, <1>4, <1>5, <1>7, AdvanceInv DEF Node
  <1> QED
    BY <1>1, <1>5, <1>6, <1>8 DEF RunTyped, TypeOK

(* A decision changes the status only.                                     *)
LEMMA AwaitDecisionInv ==
  ASSUME RunTyped, NEW r \in Replica, AwaitDecision(r)
  PROVE  RunTyped'
  <1> DEFINE status == IF exec[r].answer.yes THEN "approved" ELSE "denied"
             st == [exec[r].st EXCEPT !.status = status]
  <1>1. exec[r] \in Invocation
    BY Working DEF RunTyped, AwaitDecision
  <1>2. exec[r].st.tool \in Catalogue
    BY DEF RunTyped, ToolIsChosen, AwaitDecision, Place, Node
  <1>3. exec[r].st \in AgentState
    BY <1>1, InvocationFields
  <1>4. status \in Status
    BY DEF Status
  <1>5. st \in AgentState /\ st.tool = exec[r].st.tool
    BY <1>3, <1>4 DEF AgentState
  <1>6. Advance(r, st, after_decision(st))
        /\ UNCHANGED <<approvals, runs, refunds, seq, vendor, contended, performed, bounds>>
    BY DEF AwaitDecision
  <1> HIDE DEF st
  <1>7. after_decision(st) \in Node \cup {"END"}
    BY Routes DEF Node
  <1> QED
    BY <1>1, <1>2, <1>5, <1>6, <1>7, AdvanceOnly

(* An answer fills arguments and counts an ask.                            *)
LEMMA AskClarificationInv ==
  ASSUME RunTyped, NEW r \in Replica, AskClarification(r)
  PROVE  RunTyped'
  <1> DEFINE old == exec[r].st
             args == Merge(old.args, exec[r].answer.values)
             remaining == old.missing \cap Missing(old.tool, args)
             asks == old.asks + 1
             st == [old EXCEPT !.args = args, !.missing = remaining, !.asks = asks,
                               !.status = IF remaining # {} /\ asks >= MAX_ASKS
                                          THEN "refused" ELSE @]
  <1>1. exec[r] \in Invocation
    BY Working DEF RunTyped, AskClarification
  <1>2. old.tool \in Catalogue
    BY DEF RunTyped, ToolIsChosen, AskClarification, Place, Node
  <1>3. old \in AgentState /\ exec[r].answer.values \in Arg
    BY <1>1, InvocationFields
  <1>4. old.args \in Arg /\ old.asks \in Nat /\ old.missing \in SUBSET {"id", "amount"}
    BY <1>3, StateFields
  <1>5. args \in Arg
    BY <1>3, <1>4, MergeType
  <1>6. remaining \in SUBSET {"id", "amount"} /\ asks \in Nat /\ "refused" \in Status
    BY <1>4 DEF Status
  <1>7. Advance(r, st, after_clarification(st))
        /\ UNCHANGED <<approvals, runs, refunds, seq, vendor, contended, performed, bounds>>
    BY DEF AskClarification
  <1> HIDE DEF args, remaining, asks
  <1>8. st \in AgentState /\ st.tool = old.tool
    BY <1>3, <1>5, <1>6 DEF AgentState
  <1> HIDE DEF st
  <1>9. after_clarification(st) \in Node \cup {"END"}
    BY Routes DEF Node
  <1> QED
    BY <1>1, <1>2, <1>7, <1>8, <1>9, AdvanceOnly

(* What a request starts with: the thread's state, at a node it may be at. *)
LEMMA StartInv ==
  ASSUME RunTyped, NEW r \in Replica, NEW t \in Thread, NEW u \in Person,
         NEW a \in [yes : BOOLEAN, values : Arg], NEW node \in Node,
         node # "plan" => ckpt[t].st.tool \in Catalogue,
         Start(r, t, u, a, node)
  PROVE  /\ exec' \in [Replica -> Invocation \cup {Idle}]
         /\ \A q \in Replica : exec'[q].at \in Place \ {"plan"}
                                 => exec'[q].st.tool \in Catalogue
  <1> DEFINE inv == [at |-> node, thread |-> t, st |-> ckpt[t].st, as |-> u,
                     answer |-> a, ret |-> NoReturn]
  <1>1. NoReturn \in Return
    BY DEF NoReturn, Return, Status, NoReceipt
  <1>2. ckpt[t].st \in AgentState
    BY DEF RunTyped, TypeOK, Checkpoint
  <1>3. inv \in Invocation
    BY <1>1, <1>2 DEF Invocation, Place
  <1>4. exec' = [exec EXCEPT ![r] = inv]
    BY DEF Start
  <1>5. inv.at = node /\ inv.st = ckpt[t].st
    OBVIOUS
  <1> HIDE DEF inv
  <1> QED
    BY <1>3, <1>4, <1>5 DEF RunTyped, TypeOK, ToolIsChosen

(* /run: the graph starts at plan, where no tool is needed.                *)
LEMMA RunRequestInv ==
  ASSUME RunTyped, NEW r \in Replica, NEW t \in Thread, NEW u \in Person, Run(r, t, u)
  PROVE  RunTyped'
  <1>1. NoAnswer \in [yes : BOOLEAN, values : Arg]
    BY DEF NoAnswer, NoArgs, Arg
  <1>2. /\ exec' \in [Replica -> Invocation \cup {Idle}]
        /\ \A q \in Replica : exec'[q].at \in Place \ {"plan"}
                                => exec'[q].st.tool \in Catalogue
    BY <1>1, StartInv DEF Run, Node
  <1>3. /\ ckpt' \in [Thread -> Checkpoint]
        /\ \A v \in Thread : ckpt'[v].next \in Node \ {"plan"}
                               => ckpt'[v].st.tool \in Catalogue
    <2> DEFINE cp == [ckpt[t] EXCEPT !.next = "plan"]
    <2>1. cp \in Checkpoint /\ cp.next = "plan"
      BY DEF RunTyped, TypeOK, Checkpoint, Node
    <2>2. ckpt' = [ckpt EXCEPT ![t] = cp]
      BY DEF Run
    <2> HIDE DEF cp
    <2> QED
      BY <2>1, <2>2 DEF RunTyped, TypeOK, ToolIsChosen
  <1>4. runs' \in [Replica -> [Thread -> Person \cup {NoOne}]]
    BY DEF Run, RunTyped, TypeOK
  <1>5. bounds' \in [runs : 0..MaxRuns, restarts : 0..MaxRestarts, overlaps : 0..MaxOverlaps]
    <2>1. MaxRuns \in Nat /\ MaxOverlaps \in Nat
      BY AgentRunAssumption
    <2>2. bounds \in [runs : 0..MaxRuns, restarts : 0..MaxRestarts, overlaps : 0..MaxOverlaps]
      BY DEF RunTyped, TypeOK
    <2> DEFINE o == IF WorkedOn(t) THEN bounds.overlaps + 1 ELSE bounds.overlaps
    <2>3. bounds' = [bounds EXCEPT !.runs = bounds.runs + 1, !.overlaps = o]
      BY DEF Run
    <2>4. o \in 0..MaxOverlaps /\ bounds.runs + 1 \in 0..MaxRuns
      BY <2>1, <2>2 DEF Run
    <2> HIDE DEF o
    <2> QED
      BY <2>2, <2>3, <2>4
  <1> QED
    BY <1>2, <1>3, <1>4, <1>5 DEF RunTyped, TypeOK, ToolIsChosen, ApprovalsTypeOK, Run

(* /resume: the graph goes on where the checkpoint says.                   *)
LEMMA ResumeInv ==
  ASSUME RunTyped, NEW r \in Replica, NEW t \in Thread, NEW u \in Person, NEW a \in Answer,
         Resume(r, t, u, a)
  PROVE  RunTyped'
  <1> DEFINE as == IF runs[r][t] = NoOne THEN u ELSE runs[r][t]
             node == ckpt[t].next
             ans == IF node \in Pause THEN a ELSE NoAnswer
  <1>1. ans \in [yes : BOOLEAN, values : Arg]
    <2>1. a \in [yes : BOOLEAN, values : Arg]
      BY AgentRunAssumption
    <2>2. NoAnswer \in [yes : BOOLEAN, values : Arg]
      BY DEF NoAnswer, NoArgs, Arg
    <2> QED
      BY <2>1, <2>2
  <1>2. as \in Person
    BY DEF RunTyped, TypeOK
  <1>3. /\ node \in Node /\ Start(r, t, as, ans, node)
        /\ runs' = [runs EXCEPT ![r] = [runs[r] EXCEPT ![t] = as]]
        /\ WorkedOn(t) => bounds.overlaps < MaxOverlaps
        /\ bounds' = [bounds EXCEPT !.overlaps = IF WorkedOn(t) THEN bounds.overlaps + 1
                                                 ELSE bounds.overlaps]
        /\ UNCHANGED <<approvals, ckpt, refunds, seq, vendor, contended, performed>>
    BY DEF Resume
  <1>4. node # "plan" => ckpt[t].st.tool \in Catalogue
    BY <1>3 DEF RunTyped, ToolIsChosen
  <1> HIDE DEF as, ans, node
  <1>5. /\ exec' \in [Replica -> Invocation \cup {Idle}]
        /\ \A q \in Replica : exec'[q].at \in Place \ {"plan"}
                                => exec'[q].st.tool \in Catalogue
    BY <1>1, <1>2, <1>3, <1>4, StartInv
  <1>6. runs' \in [Replica -> [Thread -> Person \cup {NoOne}]]
    BY <1>2, <1>3 DEF RunTyped, TypeOK
  <1>7. bounds' \in [runs : 0..MaxRuns, restarts : 0..MaxRestarts, overlaps : 0..MaxOverlaps]
    <2>1. MaxOverlaps \in Nat
      BY AgentRunAssumption
    <2> QED
      BY <1>3, <2>1 DEF RunTyped, TypeOK
  <1> QED
    BY <1>3, <1>5, <1>6, <1>7 DEF RunTyped, TypeOK, ToolIsChosen, ApprovalsTypeOK

(* A restart forgets a request and a cache.                                *)
LEMMA RestartInv ==
  ASSUME RunTyped, NEW r \in Replica, Restart(r)
  PROVE  RunTyped'
  <1>1. exec' = [exec EXCEPT ![r] = Idle] /\ Idle.at \notin Place
    BY DEF Restart, Idle, Place, Node
  <1>2. MaxRestarts \in Nat
    BY AgentRunAssumption
  <1>3. bounds' \in [runs : 0..MaxRuns, restarts : 0..MaxRestarts, overlaps : 0..MaxOverlaps]
    BY <1>2 DEF Restart, RunTyped, TypeOK
  <1>4. runs' \in [Replica -> [Thread -> Person \cup {NoOne}]]
    BY DEF Restart, RunTyped, TypeOK
  <1>5. ToolIsChosen'
    BY <1>1 DEF Restart, RunTyped, TypeOK, ToolIsChosen
  <1>6. exec' \in [Replica -> Invocation \cup {Idle}]
    BY <1>1 DEF RunTyped, TypeOK
  <1>7. vendor' \subseteq VendorCall
    BY OrphanType DEF Restart, RunTyped
  <1> QED
    BY <1>3, <1>4, <1>5, <1>6, <1>7 DEF Restart, RunTyped, TypeOK, ApprovalsTypeOK

(* A manager's decision is the store's own step.                           *)
LEMMA ManagerDecidesInv ==
  ASSUME RunTyped, NEW id \in ApprovalId, NEW p \in Person, NEW yes \in BOOLEAN,
         ManagerDecides(id, p, yes)
  PROVE  RunTyped'
  <1>1. ApprovalsTypeOK'
    BY DecideTypeOK DEF RunTyped, TypeOK, ManagerDecides
  <1> QED
    BY <1>1 DEF ManagerDecides, agentVars, RunTyped, TypeOK, ToolIsChosen

(* Nothing has begun.                                                      *)
LEMMA RunInit == Init => RunInv
  <1> SUFFICES ASSUME Init PROVE RunInv
    OBVIOUS
  <1>1. NewState \in AgentState
    BY DEF NewState, AgentState, NoArgs, Arg, Status
  <1>2. Unstarted \in Checkpoint /\ Unstarted.next = "none"
    BY <1>1 DEF Unstarted, Checkpoint
  <1>3. ApprovalsTypeOK
    BY StoreInit DEF Init, StoreInv
  <1>4. MaxRuns \in Nat /\ MaxRestarts \in Nat /\ MaxOverlaps \in Nat
    BY AgentRunAssumption
  <1>5. bounds \in [runs : 0..MaxRuns, restarts : 0..MaxRestarts, overlaps : 0..MaxOverlaps]
    BY <1>4 DEF Init
  <1>6. ToolIsChosen
    BY <1>2 DEF Init, ToolIsChosen, Idle, Place, Node
  <1> QED
    BY <1>2, <1>3, <1>5, <1>6 DEF Init, RunInv, RunTyped, CallersWait, TypeOK

(* One step of the graph keeps RunInv.                                     *)
LEMMA StepInv ==
  ASSUME RunTyped, NEW r \in Replica, Step(r) PROVE RunTyped'
  BY PlanCallInv, PlanClarifyInv, PlanNothingInv, RepeatCallInv, CallToolInv,
     CallVendorInv, CallTimesOutInv, ToolAnsweredInv, CreateApprovalInv,
     ApprovalCreatedInv, CreateFailsInv, AwaitDecisionInv, AskClarificationInv,
     Zenon DEF Step

-----------------------------------------------------------------------------
(* Who waits for the vendor.                                               *)

(* A step that changes no invocation that is waiting, and no call.         *)
LEMMA WaitersStay ==
  ASSUME RunInv, vendor' = vendor,
         \A q \in Replica : exec[q].at = "refunding" => exec'[q] = exec[q]
  PROVE  CallersWait'
  <1>1. \A c \in vendor : c.by \in Replica
    BY DEF RunInv, RunTyped, TypeOK, VendorCall
  <1>2. ASSUME NEW c \in vendor, c.waits
        PROVE  /\ exec'[c.by].at = "refunding"
               /\ exec'[c.by].st.tool = RefundTool
               /\ c.id = exec'[c.by].st.args.id
               /\ c.amount = coerce_args(exec'[c.by].st.args).amount.value
               /\ c.key = exec'[c.by].st.approval_id
               /\ \A d \in vendor : d.waits /\ d.by = c.by => d = c
    <2>1. exec'[c.by] = exec[c.by]
      BY <1>1, <1>2 DEF RunInv, CallersWait
    <2> QED
      BY <1>2, <2>1 DEF RunInv, CallersWait
  <1> QED
    BY <1>2 DEF CallersWait

(* The steps of a replica, its calls to the vendor apart.                  *)
LEMMA StepWaits ==
  ASSUME RunInv, NEW r \in Replica, Step(r),
         ~ \E fault \in Fault \cup {"none"}, w \in Worker : CallVendor(r, fault, w),
         ~ CallTimesOut(r)
  PROVE  CallersWait'
  <1>1. exec \in [Replica -> Invocation \cup {Idle}]
    BY DEF RunInv, RunTyped, TypeOK
  <1>2. vendor' = vendor /\ exec[r].at # "refunding"
        /\ \A q \in Replica : q # r => exec'[q] = exec[q]
    <2>1. CASE \/ \E p \in Proposal, more \in BOOLEAN : PlanCall(r, p, more)
               \/ \E p \in Proposal : PlanClarify(r, p)
               \/ \E status \in {"refused", "error"} : PlanNothing(r, status)
               \/ RepeatCall(r)
      BY <1>1, <2>1 DEF PlanCall, PlanClarify, PlanNothing, RepeatCall, Advance
    <2>2. CASE \/ ToolAnswered(r) \/ ApprovalCreated(r) \/ AwaitDecision(r)
               \/ AskClarification(r) \/ \E fault \in Fault : CreateFails(r, fault)
      BY <1>1, <2>2 DEF ToolAnswered, ApprovalCreated, AwaitDecision, AskClarification,
                        CreateFails, Advance
    <2>3. CASE \/ \E fault \in Fault \cup {"none"} : CallTool(r, fault)
               \/ \E id \in ApprovalId : CreateApproval(r, id)
      BY <1>1, <2>3 DEF CallTool, CreateApproval
    <2> QED
      BY <2>1, <2>2, <2>3 DEF Step
  <1> QED
    BY <1>2, WaitersStay

(* A call that is taken on is its replica's only one.                      *)
LEMMA CallVendorWaits ==
  ASSUME RunInv, NEW r \in Replica, NEW fault \in Fault \cup {"none"}, NEW w \in Worker,
         CallVendor(r, fault, w)
  PROVE  CallersWait'
  <1> DEFINE inv == exec[r]
             new == [worker |-> w, by |-> r, waits |-> TRUE, id |-> inv.st.args.id,
                     amount |-> coerce_args(inv.st.args).amount.value,
                     tenant |-> TenantOf[inv.as], key |-> inv.st.approval_id]
  <1>1. inv \in Invocation /\ exec \in [Replica -> Invocation \cup {Idle}]
    BY Working DEF RunInv, RunTyped, TypeOK, CallVendor
  <1>2. vendor' = vendor \cup {new} /\ inv.at = "call_tool" /\ inv.st.tool = RefundTool
    BY DEF CallVendor, IsNewRefund
  <1>3. exec'[r].at = "refunding" /\ exec'[r].st = inv.st
        /\ \A q \in Replica : q # r => exec'[q] = exec[q]
    BY <1>1 DEF CallVendor, Invocation
  <1>4. \A c \in vendor : c.by \in Replica /\ (c.waits => c.by # r)
    BY <1>2 DEF RunInv, RunTyped, CallersWait, TypeOK, VendorCall
  <1>5. new.by = r /\ new.id = inv.st.args.id /\ new.key = inv.st.approval_id
        /\ new.amount = coerce_args(inv.st.args).amount.value /\ new.waits
    OBVIOUS
  <1> HIDE DEF new
  <1>6. ASSUME NEW c \in vendor', c.waits
        PROVE  /\ exec'[c.by].at = "refunding"
               /\ exec'[c.by].st.tool = RefundTool
               /\ c.id = exec'[c.by].st.args.id
               /\ c.amount = coerce_args(exec'[c.by].st.args).amount.value
               /\ c.key = exec'[c.by].st.approval_id
               /\ \A d \in vendor' : d.waits /\ d.by = c.by => d = c
    <2>1. CASE c = new
      BY <1>2, <1>3, <1>4, <1>5, <2>1
    <2>2. CASE c # new
      <3>1. c \in vendor /\ c.by # r /\ exec'[c.by] = exec[c.by]
        BY <1>2, <1>3, <1>4, <1>6, <2>2
      <3> QED
        BY <1>2, <1>5, <1>6, <3>1 DEF RunInv, CallersWait
    <2> QED
      BY <2>1, <2>2
  <1> QED
    BY <1>6 DEF CallersWait

(* A replica that has gone does not wait.                                  *)
LEMMA OrphansDoNotWait ==
  ASSUME RunInv, NEW r \in Replica, vendor' = Orphaned(r),
         \A q \in Replica : q # r => exec'[q] = exec[q]
  PROVE  CallersWait'
  <1>1. vendor \subseteq VendorCall
    BY DEF RunInv, RunTyped, TypeOK
  <1>2. \A c \in vendor' : c.waits => c \in vendor /\ c.by # r /\ c.by \in Replica
    <2> SUFFICES ASSUME NEW d \in vendor, NEW c, c = IF d.by = r THEN [d EXCEPT !.waits = FALSE] ELSE d,
                        c.waits
                 PROVE  c \in vendor /\ c.by # r /\ c.by \in Replica
      BY DEF Orphaned
    <2>1. d \in VendorCall
      BY <1>1
    <2>2. CASE d.by = r
      <3>1. c = [d EXCEPT !.waits = FALSE]
        BY <2>2
      <3>2. c.waits = FALSE
        BY <2>1, <3>1 DEF VendorCall
      <3> QED
        BY <3>2
    <2>3. CASE d.by # r
      BY <2>1, <2>3 DEF VendorCall
    <2> QED
      BY <2>2, <2>3
  <1>3. ASSUME NEW c \in vendor', c.waits
        PROVE  /\ exec'[c.by].at = "refunding"
               /\ exec'[c.by].st.tool = RefundTool
               /\ c.id = exec'[c.by].st.args.id
               /\ c.amount = coerce_args(exec'[c.by].st.args).amount.value
               /\ c.key = exec'[c.by].st.approval_id
               /\ \A d \in vendor' : d.waits /\ d.by = c.by => d = c
    <2>1. c \in vendor /\ exec'[c.by] = exec[c.by]
      BY <1>2, <1>3
    <2> QED
      BY <1>2, <1>3, <2>1 DEF RunInv, CallersWait
  <1> QED
    BY <1>3 DEF CallersWait

(* Only the replica that is answered stops waiting.                        *)
LEMMA IssueWaits ==
  ASSUME RunInv, NEW c \in vendor, issue_refund(c)
  PROVE  CallersWait'
  <1>1. c.by \in Replica /\ exec \in [Replica -> Invocation \cup {Idle}]
        /\ \A d \in vendor : d.by \in Replica
    BY DEF RunInv, RunTyped, TypeOK, VendorCall
  <1>2. \A q \in Replica : (q = c.by => ~c.waits) => exec'[q] = exec[q]
    BY <1>1 DEF issue_refund
  <1>3. ASSUME NEW d \in vendor', d.waits
        PROVE  /\ exec'[d.by].at = "refunding"
               /\ exec'[d.by].st.tool = RefundTool
               /\ d.id = exec'[d.by].st.args.id
               /\ d.amount = coerce_args(exec'[d.by].st.args).amount.value
               /\ d.key = exec'[d.by].st.approval_id
               /\ \A e \in vendor' : e.waits /\ e.by = d.by => e = d
    <2>1. d \in vendor /\ d # c /\ vendor' \subseteq vendor
      BY DEF issue_refund
    <2>2. d.by = c.by => ~c.waits
      BY <1>3, <2>1 DEF RunInv, CallersWait
    <2>3. exec'[d.by] = exec[d.by]
      BY <1>1, <1>2, <2>1, <2>2
    <2> QED
      BY <1>3, <2>1, <2>3 DEF RunInv, CallersWait
  <1> QED
    BY <1>3 DEF CallersWait

(* Every step keeps who waits.                                             *)
LEMMA NextWaits == ASSUME RunInv, [Next]_vars PROVE CallersWait'
  <1>1. CASE UNCHANGED vars
    BY <1>1, WaitersStay DEF vars
  <1>2. ASSUME NEW r \in Replica, Step(r) PROVE CallersWait'
    <2>1. CASE CallTimesOut(r)
      <3>1. \A q \in Replica : q # r => exec'[q] = exec[q]
        BY <2>1 DEF CallTimesOut, RunInv, RunTyped, TypeOK
      <3> QED
        BY <2>1, <3>1, OrphansDoNotWait DEF CallTimesOut
    <2> QED
      BY <1>2, <2>1, StepWaits, CallVendorWaits
  <1>3. ASSUME NEW w \in Worker, Pay(w) PROVE CallersWait'
    BY <1>3, IssueWaits DEF Pay
  <1>4. ASSUME NEW r \in Replica, Restart(r) PROVE CallersWait'
    <2>1. \A q \in Replica : q # r => exec'[q] = exec[q]
      BY <1>4 DEF Restart, RunInv, RunTyped, TypeOK
    <2> QED
      BY <1>4, <2>1, OrphansDoNotWait DEF Restart
  <1>5. ASSUME NEW r \in Replica, NEW t \in Thread, NEW u \in Person,
               Run(r, t, u) \/ \E a \in Answer : Resume(r, t, u, a)
        PROVE  CallersWait'
    <2>1. exec[r] = Idle /\ vendor' = vendor /\ \A q \in Replica : q # r => exec'[q] = exec[q]
      BY <1>5 DEF Run, Resume, Start, RunInv, RunTyped, TypeOK
    <2>2. exec[r].at # "refunding"
      BY <2>1 DEF Idle
    <2> QED
      BY <2>1, <2>2, WaitersStay
  <1>6. ASSUME NEW id \in ApprovalId, NEW p \in Person, NEW yes \in BOOLEAN,
               ManagerDecides(id, p, yes)
        PROVE  CallersWait'
    BY <1>6, WaitersStay DEF ManagerDecides, agentVars
  <1> QED
    BY <1>1, <1>2, <1>3, <1>4, <1>5, <1>6 DEF Next

(* Every step keeps RunInv.                                                *)
LEMMA RunNext == RunInv /\ [Next]_vars => RunInv'
  <1> SUFFICES ASSUME RunInv, [Next]_vars PROVE RunInv'
    OBVIOUS
  <1>1. RunTyped
    BY DEF RunInv
  <1>2. CASE UNCHANGED vars
    <2>1. RunTyped'
      BY <1>1, <1>2 DEF vars, RunTyped, TypeOK, ApprovalsTypeOK, ToolIsChosen
    <2> QED
      BY <2>1, NextWaits DEF RunInv
  <1>3. ASSUME NEW w \in Worker, Pay(w) PROVE RunTyped'
    BY <1>3, IssueInv DEF Pay
  <1>4. CASE Next
    <2>1. RunTyped'
      BY <1>1, <1>3, <1>4, StepInv, RunRequestInv, ResumeInv, RestartInv, ManagerDecidesInv,
         Zenon DEF Next
    <2> QED
      BY <2>1, NextWaits DEF RunInv
  <1> QED
    BY <1>2, <1>4

(* The types of the graph, the checkpoints, the vendor's ledger and the    *)
(* store, for every instance.                                              *)
THEOREM AgentRunTypeOK == Spec => []TypeOK
  <1>1. RunInv => TypeOK
    BY DEF RunInv, RunTyped
  <1> QED
    BY RunInit, RunNext, <1>1, PTL DEF Spec

(* A run past the planning node always has a tool of the catalogue, so a   *)
(* refusal never falls through to a call (plan, after_plan).               *)
THEOREM ChosenTool == Spec => []ToolIsChosen
  <1>1. RunInv => ToolIsChosen
    BY DEF RunInv, RunTyped
  <1> QED
    BY RunInit, RunNext, <1>1, PTL DEF Spec

-----------------------------------------------------------------------------
(* What is held is approved before it is carried out, the vendor's ledger  *)
(* agrees with the approval store, and an approval that is resumed again   *)
(* is paid once. Together: the run implements the held action. Then what a *)
(* run says of itself: a hold names the approval of its own call, and a    *)
(* receipt is of the refund.                                               *)
(*                                                                         *)
(* The first argument has three parts. Policy: a refund allowed outright   *)
(* is at most the automatic limit. The store: a decision never changes, so *)
(* what a past action relied on still holds. The vendor: what a worker is  *)
(* about to issue was approved when its call went out and is unpaid unless *)
(* another worker took the same key on, which contended records.           *)

CallsAreApproved ==
  \A c \in vendor : c.amount > AutoRefundLimit =>
    /\ c.key \in ApprovalId
    /\ approvals[c.key].status = "approved"
    /\ approvals[c.key].request.tool = RefundTool
    /\ approvals[c.key].request.args = [id |-> c.id, amount |-> Number(c.amount)]
    /\ approvals[c.key].request.tenant = c.tenant

OneCallPerWorker == \A c, d \in vendor : c.worker = d.worker => c = d

NumbersAreSpent == \A f \in refunds : f.n < seq

UncontendedIsUnpaid ==
  \A c \in vendor : c.key \notin contended \cup {NoKey} =>
    /\ \A f \in refunds : f.key # c.key
    /\ \A d \in vendor : d.key = c.key => d = c

SafeInv ==
  /\ RunInv
  /\ DecidedBySomebodyElse
  /\ HeldCallsAreApproved
  /\ LargeRefundsAreApproved /\ CallsAreApproved
  /\ OneCallPerWorker /\ NumbersAreSpent
  /\ UncontendedIsUnpaid /\ ResumedApprovalPaysOnce

-----------------------------------------------------------------------------
(* The policy lets a refund through on its own only up to the automatic    *)
(* limit, and holds only refunds of a proper amount (authz.rego).          *)
LEMMA RefundDecision ==
  ASSUME NEW in, in.tool = RefundTool, in.amount.value \in Int
  PROVE  /\ decision(in) = "allow" =>
              in.amount.kind = "number" /\ in.amount.value <= AutoRefundLimit
         /\ decision(in) = "require_approval" => in.amount.kind = "number"
  BY DEF decision, allow, deny, needs_approval, is_positive_number, GreaterThan,
         AutoRefundLimit, ApprovalRefundLimit, RefundTool, PiiTools

(* What the tool server lets through was allowed, or held and approved.    *)
LEMMA LetThroughIsAllowed ==
  ASSUME NEW inv, NEW fault, Enforced(inv, fault) = "ok"
  PROVE  \/ Verdict(inv, fault) = "allow" /\ decision(PolicyInput(inv)) = "allow"
         \/ /\ Verdict(inv, fault) = "require_approval" /\ Approved(inv, fault)
            /\ decision(PolicyInput(inv)) = "require_approval"
  <1>1. Verdict(inv, fault) # "deny"
    BY DEF Enforced
  <1>2. Verdict(inv, fault) = decision(PolicyInput(inv))
        /\ Verdict(inv, fault) \in {"allow", "require_approval"}
    BY <1>1 DEF Verdict, PolicyClientDecide
  <1> QED
    BY <1>2 DEF Enforced

-----------------------------------------------------------------------------
(* What one step does to the approval store.                               *)
StoreStep ==
  \/ UNCHANGED approvals
  \/ \E id \in ApprovalId, req \in Request : Create(id, req)
  \/ \E id \in ApprovalId, p \in Person, yes \in BOOLEAN : Decide(id, p, yes)

(* Every step of the composition is one of the store's, or none.           *)
LEMMA StepOfTheStore == ASSUME RunInv, [Next]_vars PROVE StoreStep
  <1>1. ASSUME NEW r \in Replica, NEW id \in ApprovalId, exec[r].at = "create_approval",
               Create(id, HeldRequest(exec[r]))
        PROVE  StoreStep
    <2>1. exec[r] \in Invocation
      BY <1>1, Working DEF RunInv, RunTyped
    <2>2. exec[r].st.tool \in Catalogue
      BY <1>1 DEF RunInv, RunTyped, ToolIsChosen, Place, Node
    <2>3. HeldRequest(exec[r]) \in Request
      BY <2>1, <2>2, HeldRequestType
    <2> QED
      BY <1>1, <2>3 DEF StoreStep
  <1>2. ASSUME NEW r \in Replica, Step(r) PROVE StoreStep
    <2>1. ASSUME NEW id \in ApprovalId, CreateApproval(r, id) PROVE StoreStep
      BY <1>1, <2>1 DEF CreateApproval
    <2>2. ASSUME NEW fault \in Fault, CreateFails(r, fault) PROVE StoreStep
      BY <1>1, <2>2 DEF CreateFails, StoreStep
    <2>3. CASE \/ \E p \in Proposal, more \in BOOLEAN : PlanCall(r, p, more)
               \/ \E p \in Proposal : PlanClarify(r, p)
               \/ \E status \in {"refused", "error"} : PlanNothing(r, status)
               \/ RepeatCall(r)
               \/ \E fault \in Fault \cup {"none"} : CallTool(r, fault)
               \/ \E fault \in Fault \cup {"none"}, w \in Worker : CallVendor(r, fault, w)
               \/ CallTimesOut(r)
               \/ ToolAnswered(r) \/ ApprovalCreated(r) \/ AwaitDecision(r)
               \/ AskClarification(r)
      BY <2>3 DEF StoreStep, PlanCall, PlanClarify, PlanNothing, RepeatCall, CallTool,
                  CallVendor, CallTimesOut, ToolAnswered, ApprovalCreated, AwaitDecision,
                  AskClarification
    <2> QED
      BY <1>2, <2>1, <2>2, <2>3 DEF Step
  <1>3. ASSUME NEW id \in ApprovalId, NEW p \in Person, NEW yes \in BOOLEAN,
               ManagerDecides(id, p, yes)
        PROVE  StoreStep
    BY <1>3 DEF ManagerDecides, StoreStep
  <1>4. CASE \/ \E r \in Replica, t \in Thread, u \in Person : Run(r, t, u)
             \/ \E r \in Replica, t \in Thread, u \in Person, a \in Answer :
                  Resume(r, t, u, a)
             \/ \E r \in Replica : Restart(r)
             \/ \E w \in Worker : Pay(w)
             \/ UNCHANGED vars
    BY <1>4 DEF StoreStep, Run, Resume, Restart, Pay, issue_refund, vars
  <1> QED
    BY <1>2, <1>3, <1>4 DEF Next

(* Whatever the step, a decision and the request under it stay.            *)
LEMMA RowsAreKept ==
  ASSUME RunInv, [Next]_vars PROVE \A id \in ApprovalId : RowIsKept(id)
  <1>1. ApprovalsTypeOK
    BY DEF RunInv, RunTyped, TypeOK
  <1>2. CASE UNCHANGED approvals
    BY <1>2 DEF RowIsKept
  <1> QED
    BY <1>1, <1>2, StepOfTheStore, CreateKeepsRows, DecideKeepsRows DEF StoreStep

(* Whatever the step, every decision is somebody else's.                   *)
LEMMA DutiesAreKept ==
  ASSUME RunInv, DecidedBySomebodyElse, [Next]_vars PROVE DecidedBySomebodyElse'
  <1>1. ApprovalsTypeOK
    BY DEF RunInv, RunTyped, TypeOK
  <1>2. CASE UNCHANGED approvals
    BY <1>2 DEF DecidedBySomebodyElse, Decided
  <1> QED
    BY <1>1, <1>2, StepOfTheStore, CreateKeepsDecisions, DecideKeepsDecisions DEF StoreStep

-----------------------------------------------------------------------------
\* A replica stops waiting for the vendor, which goes on.
Leaves(r) ==
  vendor' = Orphaned(r) /\ UNCHANGED <<approvals, refunds, seq, contended, performed>>

(* Only the tool calls and the vendor's workers write the ledger, what is  *)
(* at the vendor and the history; a replica may stop waiting.              *)
LEMMA OnlyCallsWrite ==
  ASSUME [Next]_vars
  PROVE  \/ UNCHANGED <<refunds, seq, vendor, contended, performed>>
         \/ \E r \in Replica, fault \in Fault \cup {"none"} : CallTool(r, fault)
         \/ \E r \in Replica, fault \in Fault \cup {"none"}, w \in Worker :
              CallVendor(r, fault, w)
         \/ \E c \in vendor : issue_refund(c)
         \/ \E r \in Replica : Leaves(r)
  <1>1. CASE UNCHANGED vars
    BY <1>1 DEF vars
  <1>2. ASSUME NEW r \in Replica, Step(r)
        PROVE  \/ UNCHANGED <<refunds, seq, vendor, contended, performed>>
               \/ \E fault \in Fault \cup {"none"} : CallTool(r, fault)
               \/ \E fault \in Fault \cup {"none"}, w \in Worker : CallVendor(r, fault, w)
               \/ Leaves(r)
    BY <1>2 DEF Step, PlanCall, PlanClarify, PlanNothing, RepeatCall, ToolAnswered,
                CallTimesOut, Leaves, CreateApproval, ApprovalCreated, CreateFails,
                AwaitDecision, AskClarification
  <1>3. CASE \/ \E r \in Replica, t \in Thread, u \in Person : Run(r, t, u)
             \/ \E r \in Replica, t \in Thread, u \in Person, a \in Answer :
                  Resume(r, t, u, a)
             \/ \E id \in ApprovalId, p \in Person, yes \in BOOLEAN :
                  ManagerDecides(id, p, yes)
    BY <1>3 DEF Run, Resume, ManagerDecides, agentVars
  <1>4. CASE \E r \in Replica : Restart(r)
    BY <1>4 DEF Restart, Leaves
  <1>5. CASE \E w \in Worker : Pay(w)
    BY <1>5 DEF Pay
  <1> QED
    BY <1>1, <1>2, <1>3, <1>4, <1>5 DEF Next

(* A held call that is let through is approved, by somebody else.          *)
LEMMA CallKeepsHeld ==
  ASSUME SafeInv, UNCHANGED approvals, NEW inv, NEW fault,
         performed' = performed \cup LetThrough(inv, fault)
  PROVE  HeldCallsAreApproved'
  <1> DEFINE e == [request |-> ToolRequest(inv), key |-> inv.st.approval_id]
  <1>1. CASE LetThrough(inv, fault) = {}
    BY <1>1 DEF SafeInv, HeldCallsAreApproved
  <1>2. CASE /\ Enforced(inv, fault) = "ok" /\ Verdict(inv, fault) = "require_approval"
             /\ LetThrough(inv, fault) = {e}
    <2>1. Approved(inv, fault)
      BY <1>2, LetThroughIsAllowed
    <2>2. /\ e.key \in ApprovalId
          /\ approvals[e.key].status = "approved"
          /\ approvals[e.key].request = e.request
      BY <2>1 DEF Approved, Verify
    <2>3. approvals[e.key].approver \in Managers \ {e.request.user}
      BY <2>2 DEF SafeInv, DecidedBySomebodyElse, Decided
    <2> QED
      BY <1>2, <2>2, <2>3 DEF SafeInv, HeldCallsAreApproved
  <1> QED
    BY <1>1, <1>2 DEF LetThrough

\* The call the vendor takes on from replica r.
TakenOn(r, w) ==
  [worker |-> w, by |-> r, waits |-> TRUE, id |-> exec[r].st.args.id,
   amount |-> coerce_args(exec[r].st.args).amount.value,
   tenant |-> TenantOf[exec[r].as], key |-> exec[r].st.approval_id]

(* A large refund is taken on only under an approval of exactly that       *)
(* refund, which nothing has been paid under.                              *)
LEMMA TakenOnIsApproved ==
  ASSUME RunInv, NEW r \in Replica, NEW fault \in Fault \cup {"none"}, NEW w \in Worker,
         CallVendor(r, fault, w), NEW c, c = TakenOn(r, w)
  PROVE  /\ c.key # NoKey => \A f \in refunds : f.key # c.key
         /\ c.amount > AutoRefundLimit =>
              /\ c.key \in ApprovalId
              /\ approvals[c.key].status = "approved"
              /\ approvals[c.key].request.tool = RefundTool
              /\ approvals[c.key].request.args = [id |-> c.id, amount |-> Number(c.amount)]
              /\ approvals[c.key].request.tenant = c.tenant
  <1> DEFINE inv == exec[r]
             args == coerce_args(inv.st.args)
  <1>1. /\ Enforced(inv, fault) = "ok" /\ inv.st.tool = RefundTool
        /\ IssuedUnder(inv.st.approval_id) = {}
    BY DEF CallVendor, IsNewRefund
  <1>2. c.key # NoKey => \A f \in refunds : f.key # c.key
    BY <1>1 DEF IssuedUnder, TakenOn
  <1>3. inv \in Invocation
    BY Working DEF RunInv, RunTyped, CallVendor
  <1>4. inv.st.args \in Arg
    BY <1>3, InvocationFields, StateFields
  <1>5. args \in Arg
    BY <1>4, CoerceType
  <1>6. args.amount.value \in Int
        /\ (args.amount.kind = "number" => args.amount = Number(args.amount.value))
    BY <1>5, ArgAmount
  <1>7. PolicyInput(inv).tool = RefundTool /\ PolicyInput(inv).amount = args.amount
    BY <1>1 DEF PolicyInput
  <1>8. ASSUME c.amount > AutoRefundLimit
        PROVE  /\ c.key \in ApprovalId
               /\ approvals[c.key].status = "approved"
               /\ approvals[c.key].request.tool = RefundTool
               /\ approvals[c.key].request.args = [id |-> c.id, amount |-> Number(c.amount)]
               /\ approvals[c.key].request.tenant = c.tenant
    <2>1. decision(PolicyInput(inv)) # "allow"
      BY <1>6, <1>7, <1>8, RefundDecision DEF AutoRefundLimit, TakenOn
    <2>2. Approved(inv, fault) /\ decision(PolicyInput(inv)) = "require_approval"
      BY <1>1, <2>1, LetThroughIsAllowed
    <2>3. args.amount = Number(args.amount.value)
      BY <1>6, <1>7, <2>2, RefundDecision
    <2>4. args = [id |-> c.id, amount |-> Number(c.amount)]
      BY <2>3 DEF coerce_args, TakenOn
    <2>5. /\ c.key \in ApprovalId
          /\ approvals[c.key].status = "approved"
          /\ approvals[c.key].request = ToolRequest(inv)
      BY <2>2 DEF Approved, Verify, TakenOn
    <2> QED
      BY <1>1, <2>4, <2>5 DEF ToolRequest, TakenOn
  <1> QED
    BY <1>2, <1>8

(* A call the vendor takes on keeps SafeInv.                               *)
LEMMA CallVendorSafe ==
  ASSUME SafeInv, RunInv', DecidedBySomebodyElse', NEW r \in Replica,
         NEW fault \in Fault \cup {"none"}, NEW w \in Worker, CallVendor(r, fault, w)
  PROVE  SafeInv'
  <1>1. PICK c : c = TakenOn(r, w)
    OBVIOUS
  <1>2. /\ c.key # NoKey => \A f \in refunds : f.key # c.key
        /\ c.amount > AutoRefundLimit =>
             /\ c.key \in ApprovalId
             /\ approvals[c.key].status = "approved"
             /\ approvals[c.key].request.tool = RefundTool
             /\ approvals[c.key].request.args = [id |-> c.id, amount |-> Number(c.amount)]
             /\ approvals[c.key].request.tenant = c.tenant
    BY <1>1, TakenOnIsApproved DEF SafeInv
  <1>3. /\ vendor' = vendor \cup {c} /\ \A d \in vendor : d.worker # c.worker
        /\ UNCHANGED <<approvals, refunds, seq>>
        /\ contended \subseteq contended'
        /\ \A d \in vendor : d.key = c.key => c.key \in contended'
    BY <1>1 DEF CallVendor, TakenOn
  <1>4. HeldCallsAreApproved'
    BY CallKeepsHeld DEF CallVendor
  <1>5. LargeRefundsAreApproved' /\ CallsAreApproved'
    BY <1>2, <1>3 DEF SafeInv, LargeRefundsAreApproved, CallsAreApproved
  <1>6. OneCallPerWorker' /\ NumbersAreSpent'
    BY <1>3 DEF SafeInv, OneCallPerWorker, NumbersAreSpent
  <1>7. UncontendedIsUnpaid'
    BY <1>2, <1>3 DEF SafeInv, UncontendedIsUnpaid
  <1>8. ResumedApprovalPaysOnce'
    BY <1>3 DEF SafeInv, ResumedApprovalPaysOnce
  <1> QED
    BY <1>4, <1>5, <1>6, <1>7, <1>8 DEF SafeInv

\* The refund the vendor issues for a call.
Issued(c) == [n |-> seq, id |-> c.id, amount |-> c.amount, tenant |-> c.tenant,
              key |-> c.key]

(* So does the refund that is issued for it.                               *)
LEMMA IssueSafe ==
  ASSUME SafeInv, RunInv', DecidedBySomebodyElse', NEW c \in vendor, issue_refund(c)
  PROVE  SafeInv'
  <1>1. PICK f : f = Issued(c)
    OBVIOUS
  <1>2. /\ f.n = seq /\ f.id = c.id /\ f.amount = c.amount /\ f.tenant = c.tenant
        /\ f.key = c.key
    BY <1>1 DEF Issued
  <1>3. /\ vendor' = vendor \ {c} /\ refunds' = refunds \cup {f} /\ seq' = seq + 1
        /\ UNCHANGED <<approvals, contended, performed>>
    BY <1>1 DEF issue_refund, Issued
  <1>4. seq \in Nat /\ \A g \in refunds : g.n \in Nat
    BY DEF SafeInv, RunInv, RunTyped, TypeOK, Refund
  <1>5. HeldCallsAreApproved'
    BY <1>3 DEF SafeInv, HeldCallsAreApproved
  <1>6. LargeRefundsAreApproved' /\ CallsAreApproved'
    BY <1>2, <1>3 DEF SafeInv, LargeRefundsAreApproved, CallsAreApproved
  <1>7. OneCallPerWorker' /\ NumbersAreSpent'
    BY <1>2, <1>3, <1>4 DEF SafeInv, OneCallPerWorker, NumbersAreSpent
  <1>8. UncontendedIsUnpaid'
    BY <1>2, <1>3 DEF SafeInv, UncontendedIsUnpaid
  <1>9. ResumedApprovalPaysOnce'
    BY <1>2, <1>3 DEF SafeInv, UncontendedIsUnpaid, ResumedApprovalPaysOnce
  <1> QED
    BY <1>5, <1>6, <1>7, <1>8, <1>9 DEF SafeInv

(* A call whose caller has gone is otherwise what it was.                  *)
LEMMA OrphanIsTheCall ==
  ASSUME NEW r \in Replica, vendor \subseteq VendorCall, NEW d \in Orphaned(r)
  PROVE  \E c \in vendor :
           /\ d = (IF c.by = r THEN [c EXCEPT !.waits = FALSE] ELSE c)
           /\ d.worker = c.worker /\ d.by = c.by /\ d.id = c.id /\ d.amount = c.amount
           /\ d.tenant = c.tenant /\ d.key = c.key /\ (d.waits => c.waits)
  <1>1. PICK c \in vendor : d = (IF c.by = r THEN [c EXCEPT !.waits = FALSE] ELSE c)
    BY DEF Orphaned
  <1>2. c \in VendorCall
    OBVIOUS
  <1> QED
    BY <1>1, <1>2 DEF VendorCall

(* A replica that stops waiting changes nothing of this.                   *)
LEMMA LeavesSafe ==
  ASSUME SafeInv, RunInv', DecidedBySomebodyElse', NEW r \in Replica, Leaves(r)
  PROVE  SafeInv'
  <1>1. vendor' = Orphaned(r) /\ UNCHANGED <<approvals, refunds, seq, contended, performed>>
    BY DEF Leaves
  <1>2. \A d \in vendor' : \E c \in vendor :
          /\ d = (IF c.by = r THEN [c EXCEPT !.waits = FALSE] ELSE c)
          /\ d.worker = c.worker /\ d.id = c.id /\ d.amount = c.amount
          /\ d.tenant = c.tenant /\ d.key = c.key
    BY <1>1, OrphanIsTheCall DEF SafeInv, RunInv, RunTyped, TypeOK
  <1>3. HeldCallsAreApproved' /\ LargeRefundsAreApproved' /\ ResumedApprovalPaysOnce'
        /\ NumbersAreSpent'
    BY <1>1 DEF SafeInv, HeldCallsAreApproved, LargeRefundsAreApproved,
       ResumedApprovalPaysOnce, NumbersAreSpent
  <1>4. CallsAreApproved'
    BY <1>1, <1>2 DEF SafeInv, CallsAreApproved
  <1> DEFINE Left(c) == IF c.by = r THEN [c EXCEPT !.waits = FALSE] ELSE c
  <1>5. OneCallPerWorker'
    <2> SUFFICES ASSUME NEW d \in vendor', NEW e \in vendor', d.worker = e.worker
                 PROVE  d = e
      BY DEF OneCallPerWorker
    <2>1. PICK c \in vendor : d = Left(c) /\ d.worker = c.worker
      BY <1>2
    <2>2. PICK b \in vendor : e = Left(b) /\ e.worker = b.worker
      BY <1>2
    <2>3. b = c
      BY <2>1, <2>2 DEF SafeInv, OneCallPerWorker
    <2> HIDE DEF Left
    <2> QED
      BY <2>1, <2>2, <2>3
  <1>6. UncontendedIsUnpaid'
    <2> SUFFICES ASSUME NEW d \in vendor', d.key \notin contended \cup {NoKey}
                 PROVE  /\ \A f \in refunds : f.key # d.key
                        /\ \A e \in vendor' : e.key = d.key => e = d
      BY <1>1 DEF UncontendedIsUnpaid
    <2>1. PICK c \in vendor : d = Left(c) /\ d.key = c.key
      BY <1>2
    <2>2. ASSUME NEW e \in vendor', e.key = d.key PROVE e = d
      <3>1. PICK b \in vendor : e = Left(b) /\ e.key = b.key
        BY <1>2
      <3>2. b = c
        BY <2>1, <2>2, <3>1 DEF SafeInv, UncontendedIsUnpaid
      <3> HIDE DEF Left
      <3> QED
        BY <2>1, <3>1, <3>2
    <2> QED
      BY <2>1, <2>2 DEF SafeInv, UncontendedIsUnpaid
  <1> QED
    BY <1>3, <1>4, <1>5, <1>6 DEF SafeInv

-----------------------------------------------------------------------------
(* The empty ledger and the empty history.                                 *)
LEMMA SafeInit == Init => SafeInv
  BY RunInit, StoreInit DEF Init, SafeInv, StoreInv, HeldCallsAreApproved,
     LargeRefundsAreApproved, CallsAreApproved, OneCallPerWorker, NumbersAreSpent,
     UncontendedIsUnpaid, ResumedApprovalPaysOnce

(* Every step keeps SafeInv.                                               *)
LEMMA SafeNext == SafeInv /\ [Next]_vars => SafeInv'
  <1> SUFFICES ASSUME SafeInv, [Next]_vars PROVE SafeInv'
    OBVIOUS
  <1>1. RunInv' /\ DecidedBySomebodyElse'
    BY RunNext, DutiesAreKept DEF SafeInv
  <1>2. ASSUME NEW r \in Replica, NEW fault \in Fault \cup {"none"}, CallTool(r, fault)
        PROVE  SafeInv'
    <2>1. UNCHANGED <<approvals, refunds, seq, vendor, contended>>
          /\ performed' = performed \cup LetThrough(exec[r], fault)
      BY <1>2 DEF CallTool
    <2>2. HeldCallsAreApproved'
      BY <2>1, CallKeepsHeld
    <2> QED
      BY <1>1, <2>1, <2>2 DEF SafeInv, LargeRefundsAreApproved, CallsAreApproved,
         OneCallPerWorker, NumbersAreSpent, UncontendedIsUnpaid, ResumedApprovalPaysOnce
  <1>3. CASE UNCHANGED <<refunds, seq, vendor, contended, performed>>
    <2>1. \A id \in ApprovalId : approvals[id].status = "approved" =>
                                   approvals'[id] = approvals[id]
      BY RowsAreKept DEF SafeInv, RowIsKept, Decided
    <2>2. HeldCallsAreApproved'
      BY <1>3, <2>1 DEF SafeInv, HeldCallsAreApproved
    <2>3. LargeRefundsAreApproved' /\ CallsAreApproved'
      BY <1>3, <2>1 DEF SafeInv, LargeRefundsAreApproved, CallsAreApproved
    <2> QED
      BY <1>1, <1>3, <2>2, <2>3 DEF SafeInv, OneCallPerWorker, NumbersAreSpent,
         UncontendedIsUnpaid, ResumedApprovalPaysOnce
  <1> QED
    BY <1>1, <1>2, <1>3, OnlyCallsWrite, CallVendorSafe, IssueSafe, LeavesSafe

(* A call the policy holds is carried out only under an approval that      *)
(* somebody else gave for exactly that call (enforcement.py, store.py).    *)
THEOREM HeldIsApproved == Spec => []HeldCallsAreApproved
  <1>1. SafeInv => HeldCallsAreApproved
    BY DEF SafeInv
  <1> QED
    BY SafeInit, SafeNext, <1>1, PTL DEF Spec

(* Every refund above the automatic limit in the vendor's ledger carries   *)
(* an approval of that order, that amount and that tenant.                 *)
THEOREM LedgerAgreesWithStore == Spec => []LargeRefundsAreApproved
  <1>1. SafeInv => LargeRefundsAreApproved
    BY DEF SafeInv
  <1> QED
    BY SafeInit, SafeNext, <1>1, PTL DEF Spec

(* An approval is paid once, however often its run is resumed, restarted   *)
(* or left, unless two calls under it were at the vendor together          *)
(* (payments.issue_refund, which takes no lock).                           *)
THEOREM ApprovalPaysOnce == Spec => []ResumedApprovalPaysOnce
  <1>1. SafeInv => ResumedApprovalPaysOnce
    BY DEF SafeInv
  <1> QED
    BY SafeInit, SafeNext, <1>1, PTL DEF Spec

-----------------------------------------------------------------------------
(* The refinement. Only refunds above the limit are seen: the vendor's     *)
(* taking one on is Begin of the approval it carries, issuing it is        *)
(* CarryOut. A step that does neither is a step of the store, or none.     *)

\* Counting the refunds needs them to be finitely many.
LedgerInv == SafeInv /\ IsFiniteSet(refunds)

(* What a step does to the ledger: nothing, or one more refund.            *)
LEMMA LedgerGrows ==
  ASSUME [Next]_vars
  PROVE  refunds' = refunds \/ \E f : refunds' = refunds \cup {f}
  <1>1. CASE \E c \in vendor : issue_refund(c)
    BY <1>1 DEF issue_refund
  <1> QED
    BY <1>1, OnlyCallsWrite DEF CallTool, CallVendor, Leaves

(* No refund has been issued to begin with.                                *)
LEMMA LedgerInit == Init => LedgerInv
  BY SafeInit, FS_EmptySet DEF Init, LedgerInv

(* A step adds at most one refund.                                         *)
LEMMA LedgerNext == LedgerInv /\ [Next]_vars => LedgerInv'
  BY SafeNext, LedgerGrows, FS_AddElement DEF LedgerInv

-----------------------------------------------------------------------------
\* What the abstract specification sees of a step.
Seen == <<approvals, CarriedOut, UnderWay, Cardinality(LargeRefunds)>>

(* A step that leaves the ledger and the vendor alone is the store's, or   *)
(* none.                                                                   *)
LEMMA QuietStep ==
  ASSUME LedgerInv, [Next]_vars, refunds' = refunds, UnderWay' = UnderWay
  PROVE  [Held!HeldNext]_Seen
  <1>1. LargeRefunds' = LargeRefunds
    BY DEF LargeRefunds
  <1>2. CarriedOut' = CarriedOut
    BY <1>1 DEF CarriedOut
  <1>3. StoreStep
    BY StepOfTheStore DEF LedgerInv, SafeInv
  <1>4. ApprovalsNext \/ UNCHANGED approvals
    BY <1>3 DEF StoreStep, ApprovalsNext
  <1> QED
    BY <1>1, <1>2, <1>4 DEF Held!HeldNext, Held!ApprovalsNext, Held!Create, Held!Decide,
       ApprovalsNext, Create, Decide, Seen, Held!NoApproval, NoApproval

(* What is under way does not depend on who waits for it.                  *)
LEMMA LeavingIsQuiet ==
  ASSUME SafeInv, NEW r \in Replica, Leaves(r)
  PROVE  UnderWay' = UnderWay
  <1>1. vendor' = Orphaned(r) /\ vendor \subseteq VendorCall
    BY DEF Leaves, SafeInv, RunInv, RunTyped, TypeOK
  <1>2. \A d \in vendor' : \E c \in vendor :
          d.worker = c.worker /\ d.amount = c.amount /\ d.key = c.key
    BY <1>1, OrphanIsTheCall
  <1>3. \A c \in vendor : \E d \in vendor' :
          d.worker = c.worker /\ d.amount = c.amount /\ d.key = c.key
    <2> SUFFICES ASSUME NEW c \in vendor
                 PROVE  \E d \in vendor' :
                          d.worker = c.worker /\ d.amount = c.amount /\ d.key = c.key
      OBVIOUS
    <2> DEFINE d == IF c.by = r THEN [c EXCEPT !.waits = FALSE] ELSE c
    <2>1. d \in vendor'
      BY <1>1 DEF Orphaned
    <2>2. d.worker = c.worker /\ d.amount = c.amount /\ d.key = c.key
      BY <1>1 DEF VendorCall
    <2> QED
      BY <2>1, <2>2
  <1>4. UnderWay = {[worker |-> c.worker, key |-> c.key] :
                      c \in {d \in vendor : d.amount > AutoRefundLimit}}
        /\ UnderWay' = {[worker |-> c.worker, key |-> c.key] :
                          c \in {d \in vendor' : d.amount > AutoRefundLimit}}
    BY DEF UnderWay
  <1>5. ASSUME NEW g \in UnderWay PROVE g \in UnderWay'
    BY <1>3, <1>4, <1>5
  <1>6. ASSUME NEW g \in UnderWay' PROVE g \in UnderWay
    BY <1>2, <1>4, <1>6
  <1> QED
    BY <1>5, <1>6

(* A large call the vendor takes on begins its approval; a small one is    *)
(* not seen.                                                               *)
LEMMA CallVendorBegins ==
  ASSUME LedgerInv, [Next]_vars, NEW r \in Replica, NEW fault \in Fault \cup {"none"},
         NEW w \in Worker, CallVendor(r, fault, w)
  PROVE  [Held!HeldNext]_Seen
  <1>1. PICK c : c = TakenOn(r, w)
    OBVIOUS
  <1>2. /\ c.key # NoKey => \A f \in refunds : f.key # c.key
        /\ c.amount > AutoRefundLimit =>
             /\ c.key \in ApprovalId
             /\ approvals[c.key].status = "approved"
             /\ approvals[c.key].request.tool = RefundTool
             /\ approvals[c.key].request.args = [id |-> c.id, amount |-> Number(c.amount)]
             /\ approvals[c.key].request.tenant = c.tenant
    BY <1>1, TakenOnIsApproved DEF LedgerInv, SafeInv
  <1>3. /\ vendor' = vendor \cup {c} /\ c.worker = w /\ \A d \in vendor : d.worker # w
        /\ UNCHANGED <<approvals, refunds>>
    BY <1>1 DEF CallVendor, TakenOn
  <1>4. CASE ~(c.amount > AutoRefundLimit)
    <2>1. UnderWay' = UnderWay
      BY <1>3, <1>4 DEF UnderWay
    <2> QED
      BY <1>3, <2>1, QuietStep
  <1>5. CASE c.amount > AutoRefundLimit
    <2>1. UnderWay' = UnderWay \cup {[worker |-> w, key |-> c.key]}
      BY <1>3, <1>5 DEF UnderWay
    <2>2. \A g \in UnderWay : g.worker # w
      BY <1>3 DEF UnderWay
    <2>3. c.key # NoKey
      BY <1>2, <1>5, AgentRunAssumption
    <2>4. \A e \in CarriedOut : e.key # c.key
      BY <1>2, <2>3 DEF CarriedOut, LargeRefunds
    <2>5. LargeRefunds' = LargeRefunds /\ CarriedOut' = CarriedOut
      BY <1>3 DEF LargeRefunds, CarriedOut
    <2>6. Held!Begin(w, c.key)
      BY <1>2, <1>3, <1>5, <2>1, <2>2, <2>4, <2>5 DEF Held!Begin
    <2> QED
      BY <1>2, <1>5, <2>6 DEF Held!HeldNext
  <1> QED
    BY <1>4, <1>5

(* The refund that is issued for it carries it out.                        *)
LEMMA IssueCarriesOut ==
  ASSUME LedgerInv, [Next]_vars, NEW c \in vendor, issue_refund(c)
  PROVE  [Held!HeldNext]_Seen
  <1>1. PICK f : f = Issued(c)
    OBVIOUS
  <1>2. /\ f.n = seq /\ f.id = c.id /\ f.amount = c.amount /\ f.tenant = c.tenant
        /\ f.key = c.key
    BY <1>1 DEF Issued
  <1>3. /\ vendor' = vendor \ {c} /\ refunds' = refunds \cup {f} /\ UNCHANGED approvals
    BY <1>1 DEF issue_refund, Issued
  <1>4. CASE ~(c.amount > AutoRefundLimit)
    <2>1. LargeRefunds' = LargeRefunds
      BY <1>2, <1>3, <1>4 DEF LargeRefunds
    <2>2. CarriedOut' = CarriedOut
      BY <2>1 DEF CarriedOut
    <2>3. UnderWay' = UnderWay
      BY <1>3, <1>4 DEF UnderWay
    <2> QED
      BY <1>3, <2>1, <2>2, <2>3 DEF Seen
  <1>5. CASE c.amount > AutoRefundLimit
    <2> DEFINE g == [worker |-> c.worker, key |-> c.key]
    <2>1. g \in UnderWay /\ g.key = c.key
      BY <1>5 DEF UnderWay
    <2>2. UnderWay' = UnderWay \ {g}
      <3>1. \A d \in vendor : d # c => d.worker # c.worker
        BY DEF LedgerInv, SafeInv, OneCallPerWorker
      <3> QED
        BY <1>3, <3>1 DEF UnderWay
    <2>3. /\ approvals[c.key].request.args = [id |-> f.id, amount |-> Number(f.amount)]
          /\ approvals[c.key].request.tenant = f.tenant
      BY <1>2, <1>5 DEF LedgerInv, SafeInv, CallsAreApproved
    <2>4. LargeRefunds' = LargeRefunds \cup {f}
      BY <1>2, <1>3, <1>5 DEF LargeRefunds
    <2>5. f \notin LargeRefunds
      <3>1. seq \in Nat
        BY DEF LedgerInv, SafeInv, RunInv, RunTyped, TypeOK
      <3> QED
        BY <1>2, <3>1 DEF LargeRefunds, LedgerInv, SafeInv, NumbersAreSpent
    <2>6. Cardinality(LargeRefunds') = Cardinality(LargeRefunds) + 1
      <3>1. IsFiniteSet(LargeRefunds)
        BY FS_Subset DEF LargeRefunds, LedgerInv
      <3> QED
        BY <3>1, <2>4, <2>5, FS_AddElement
    <2>7. CarriedOut' = CarriedOut \cup {Held!Effect(g.key)}
      BY <1>2, <2>3, <2>4 DEF CarriedOut, Held!Effect
    <2>8. Held!CarryOut(g)
      BY <1>3, <2>1, <2>2, <2>6, <2>7 DEF Held!CarryOut
    <2> QED
      BY <2>1, <2>8 DEF Held!HeldNext
  <1> QED
    BY <1>4, <1>5

(* The agent, the tool server, the store and the vendor together implement *)
(* the held action: every step of theirs is one of its steps, or none.     *)
THEOREM RunImplementsHeldAction == Spec => HeldSpec
  <1>1. Init => Held!HeldInit
    <2> SUFFICES ASSUME Init PROVE Held!HeldInit
      OBVIOUS
    <2>1. LargeRefunds = {} /\ CarriedOut = {} /\ UnderWay = {}
      BY DEF Init, LargeRefunds, CarriedOut, UnderWay
    <2> QED
      BY <2>1, FS_EmptySet DEF Init, ApprovalsInit, NoApproval, Held!HeldInit,
         Held!ApprovalsInit, Held!NoApproval
  <1>2. LedgerInv /\ [Next]_vars => [Held!HeldNext]_Seen
    <2> SUFFICES ASSUME LedgerInv, [Next]_vars PROVE [Held!HeldNext]_Seen
      OBVIOUS
    <2>1. CASE UNCHANGED <<refunds, vendor>>
      BY <2>1, QuietStep DEF UnderWay
    <2>2. CASE \E r \in Replica : Leaves(r)
      BY <2>2, QuietStep, LeavingIsQuiet DEF LedgerInv, Leaves
    <2>3. CASE \E r \in Replica, fault \in Fault \cup {"none"} : CallTool(r, fault)
      BY <2>1, <2>3 DEF CallTool
    <2> QED
      BY <2>1, <2>2, <2>3, OnlyCallsWrite, CallVendorBegins, IssueCarriesOut
  <1> QED
    BY LedgerInit, LedgerNext, <1>1, <1>2, PTL DEF Spec, HeldSpec, Held!HeldActionSpec, Seen

-----------------------------------------------------------------------------
(* Holds and receipts. Most steps of the graph finish a node: they write   *)
(* its checkpoint and go on. What such a step does to the approval a run   *)
(* names, to the questions it asked and to what it observed:               *)
Moves(r, st, next) ==
  LET inv == exec[r]
  IN  /\ inv \in Invocation /\ Advance(r, st, next)
      /\ st.asks = 0 => inv.st.asks = 0
      /\ \/ st.approval_id \in {NoKey, inv.st.approval_id}
         \/ inv.at = "approval created" /\ st.approval_id = inv.ret.id
      /\ \/ st.observations = inv.st.observations
         \/ /\ inv.at = "tool answered" /\ inv.ret.status = "ok"
            /\ st.observations = Append(inv.st.observations,
                 [tool |-> inv.st.tool, args |-> inv.st.args, receipt |-> inv.ret.receipt])
      /\ st.asks = 0 /\ next \in {"call_tool", "await_decision"} =>
           \/ st.approval_id = NoKey /\ next = "call_tool"
           \/ /\ st.tool = inv.st.tool /\ st.args = inv.st.args
              /\ \/ /\ inv.at \in {"tool answered", "await_decision"}
                    /\ st.approval_id = inv.st.approval_id
                    /\ next = "await_decision" => st.approval_id # NoKey
                 \/ inv.at = "approval created" /\ st.approval_id = inv.ret.id

\* A step of the graph that finishes a node.
Moved(r) == \E st \in AgentState, next \in Node \cup {"END"} : Moves(r, st, next)

(* A plan names no approval, and one that makes no call goes nowhere near. *)
LEMMA PlanMoves ==
  ASSUME RunInv, NEW r \in Replica,
         \/ \E p \in Proposal, more \in BOOLEAN : PlanCall(r, p, more)
         \/ \E p \in Proposal : PlanClarify(r, p)
         \/ \E status \in {"refused", "error"} : PlanNothing(r, status)
  PROVE  Moved(r)
  <1> DEFINE old == exec[r].st
  <1>1. exec[r] \in Invocation /\ old \in AgentState
    BY Working, InvocationFields DEF RunInv, RunTyped, PlanCall, PlanClarify, PlanNothing
  <1>2. CASE \E p \in Proposal, more \in BOOLEAN : PlanCall(r, p, more)
    <2>1. PICK p \in Proposal, more \in BOOLEAN : PlanCall(r, p, more)
      BY <1>2
    <2> DEFINE st == [old EXCEPT !.tool = p.tool, !.args = p.args, !.more = more,
                                 !.final = FALSE, !.approval_id = NoKey]
    <2>2. p.tool \in Catalogue /\ p.args \in Arg
      BY AgentRunAssumption DEF Call
    <2>3. /\ st \in AgentState /\ st.approval_id = NoKey /\ st.asks = old.asks
          /\ st.observations = old.observations
      BY <1>1, <2>2 DEF AgentState
    <2>4. Advance(r, st, after_plan(st))
      BY <2>1 DEF PlanCall
    <2> HIDE DEF st
    <2>5. after_plan(st) \in Node \cup {"END"} /\ after_plan(st) # "await_decision"
      BY Routes DEF Node
    <2> QED BY <1>1, <2>3, <2>4, <2>5 DEF Moved, Moves
  <1>3. CASE \E p \in Proposal : PlanClarify(r, p)
    <2>1. PICK p \in Proposal : PlanClarify(r, p)
      BY <1>3
    <2> DEFINE st == [old EXCEPT !.tool = p.tool, !.args = p.args,
                                 !.missing = Missing(p.tool, p.args),
                                 !.status = "clarification_required"]
    <2>2. /\ p.tool \in Catalogue /\ p.args \in Arg
          /\ Missing(p.tool, p.args) \in SUBSET {"id", "amount"}
          /\ "clarification_required" \in Status
      BY AgentRunAssumption DEF Call, Missing, Required, Status
    <2>3. /\ st \in AgentState /\ st.approval_id = old.approval_id /\ st.asks = old.asks
          /\ st.observations = old.observations /\ st.status = "clarification_required"
      BY <1>1, <2>2 DEF AgentState
    <2>4. Advance(r, st, after_plan(st))
      BY <2>1 DEF PlanClarify
    <2> HIDE DEF st
    <2>5. after_plan(st) = "ask_clarification"
      BY <2>3 DEF after_plan
    <2> QED BY <1>1, <2>3, <2>4, <2>5 DEF Moved, Moves, Node
  <1>4. CASE \E status \in {"refused", "error"} : PlanNothing(r, status)
    <2>1. PICK status \in {"refused", "error"} : PlanNothing(r, status)
      BY <1>4
    <2> DEFINE st == [old EXCEPT !.status = status]
    <2>2. status \in Status
      BY DEF Status
    <2>3. /\ st \in AgentState /\ st.approval_id = old.approval_id /\ st.asks = old.asks
          /\ st.observations = old.observations /\ st.status = status
      BY <1>1, <2>2 DEF AgentState
    <2>4. Advance(r, st, after_plan(st))
      BY <2>1 DEF PlanNothing
    <2> HIDE DEF st
    <2>5. after_plan(st) = "END"
      BY <2>3 DEF after_plan
    <2> QED BY <1>1, <2>3, <2>4, <2>5 DEF Moved, Moves
  <1> QED BY <1>2, <1>3, <1>4

(* A call that is not repeated, and one whose answer is recorded.          *)
LEMMA CallMoves ==
  ASSUME RunInv, NEW r \in Replica, RepeatCall(r) \/ ToolAnswered(r)
  PROVE  Moved(r)
  <1> DEFINE old == exec[r].st
             inv == exec[r]
  <1>1. inv \in Invocation /\ old \in AgentState /\ inv.ret \in Return
    BY Working, InvocationFields DEF RunInv, RunTyped, RepeatCall, ToolAnswered
  <1>2. CASE RepeatCall(r)
    <2> DEFINE st == [old EXCEPT !.status = "ok", !.final = TRUE]
    <2>1. "ok" \in Status
      BY DEF Status
    <2>2. /\ st \in AgentState /\ st.approval_id = old.approval_id /\ st.asks = old.asks
          /\ st.observations = old.observations /\ st.status = "ok"
      BY <1>1, <2>1 DEF AgentState
    <2>3. Advance(r, st, after_call(st))
      BY <1>2 DEF RepeatCall
    <2> HIDE DEF st
    <2>4. after_call(st) \in {"plan", "END"}
      BY <2>2 DEF after_call
    <2> QED BY <1>1, <2>2, <2>3, <2>4 DEF Moved, Moves, Node
  <1>3. CASE ToolAnswered(r)
    <2> DEFINE obs == [tool |-> old.tool, args |-> old.args, receipt |-> inv.ret.receipt]
               done == [old EXCEPT !.status = "ok", !.steps = @ + 1,
                          !.observations = Append(@, obs), !.final = ~old.more]
               failed == [old EXCEPT !.status = inv.ret.status, !.final = TRUE]
               st == IF inv.ret.status = "ok" THEN done ELSE failed
    <2>1. /\ "ok" \in Status /\ inv.ret.status \in Status /\ old.steps + 1 \in Nat
          /\ Append(old.observations, obs) \in Seq(Observation)
      <3>1. old.tool \in Catalogue
        BY <1>3 DEF RunInv, RunTyped, ToolIsChosen, ToolAnswered, Place, Node
      <3>2. obs \in Observation
        BY <1>1, <3>1, StateFields DEF Observation, Return
      <3> HIDE DEF obs
      <3>3. old.observations \in Seq(Observation) /\ old.steps \in Nat
        BY <1>1, StateFields
      <3>4. Append(old.observations, obs) \in Seq(Observation)
        BY <3>2, <3>3, AppendProperties
      <3>5. "ok" \in Status /\ inv.ret.status \in Status
        BY <1>1 DEF Status, Return
      <3>6. old.steps + 1 \in Nat
        BY <3>3
      <3> HIDE DEF inv, old
      <3> QED BY <3>4, <3>5, <3>6
    <2>2. (~old.more) \in BOOLEAN
      OBVIOUS
    <2>3. /\ done \in AgentState /\ done.approval_id = old.approval_id /\ done.asks = old.asks
          /\ done.status = "ok" /\ done.observations = Append(old.observations, obs)
      BY <1>1, <2>1, <2>2 DEF AgentState
    <2>4. /\ failed \in AgentState /\ failed.approval_id = old.approval_id
          /\ failed.asks = old.asks /\ failed.observations = old.observations
          /\ failed.tool = old.tool /\ failed.args = old.args
      BY <1>1, <2>1 DEF AgentState
    <2>5. inv.at = "tool answered" /\ Advance(r, st, after_call(st))
      BY <1>3 DEF ToolAnswered
    <2>6. CASE inv.ret.status = "ok"
      <3>1. st = done
        BY <2>6
      <3> HIDE DEF done, st
      <3>2. after_call(st) \in {"plan", "END"}
        BY <2>3, <3>1 DEF after_call
      <3> QED BY <1>1, <2>3, <2>5, <2>6, <3>1, <3>2 DEF Moved, Moves, Node
    <2>7. CASE inv.ret.status # "ok"
      <3>1. st = failed
        BY <2>7
      <3> HIDE DEF failed, st
      <3>2. /\ after_call(st) \in Node \cup {"END"} /\ after_call(st) # "call_tool"
            /\ after_call(st) = "await_decision" => st.approval_id # NoKey
        BY Routes DEF Node, after_call
      <3> QED BY <1>1, <2>4, <2>5, <3>1, <3>2 DEF Moved, Moves
    <2> QED BY <2>6, <2>7
  <1> QED BY <1>2, <1>3

(* An approval that was stored is named, one that was not ends the run.    *)
LEMMA CreatedMoves ==
  ASSUME RunInv, NEW r \in Replica,
         ApprovalCreated(r) \/ \E fault \in Fault : CreateFails(r, fault)
  PROVE  Moved(r)
  <1> DEFINE old == exec[r].st
  <1>1. exec[r] \in Invocation /\ old \in AgentState /\ exec[r].ret \in Return
    BY Working, InvocationFields DEF RunInv, RunTyped, ApprovalCreated, CreateFails
  <1>2. CASE ApprovalCreated(r)
    <2> DEFINE st == [old EXCEPT !.approval_id = exec[r].ret.id]
    <2>1. exec[r].ret.id \in ApprovalId \cup {NoKey}
      BY <1>1 DEF Return
    <2>2. /\ st \in AgentState /\ st.approval_id = exec[r].ret.id /\ st.asks = old.asks
          /\ st.observations = old.observations
          /\ st.tool = old.tool /\ st.args = old.args
      BY <1>1, <2>1 DEF AgentState
    <2>3. exec[r].at = "approval created" /\ Advance(r, st, after_create(st))
      BY <1>2 DEF ApprovalCreated
    <2> HIDE DEF st
    <2>4. after_create(st) \in Node \cup {"END"} /\ after_create(st) # "call_tool"
      BY Routes DEF Node
    <2> QED BY <1>1, <2>2, <2>3, <2>4 DEF Moved, Moves
  <1>3. CASE \E fault \in Fault : CreateFails(r, fault)
    <2> DEFINE st == [old EXCEPT !.status = "error"]
    <2>1. "error" \in Status
      BY DEF Status
    <2>2. /\ st \in AgentState /\ st.approval_id = old.approval_id /\ st.asks = old.asks
          /\ st.observations = old.observations /\ st.status = "error"
      BY <1>1, <2>1 DEF AgentState
    <2>3. Advance(r, st, after_create(st))
      BY <1>3 DEF CreateFails
    <2> HIDE DEF st
    <2>4. after_create(st) = "END"
      BY <2>2 DEF after_create
    <2> QED BY <1>1, <2>2, <2>3, <2>4 DEF Moved, Moves
  <1> QED BY <1>2, <1>3

(* A decision sends the run back to the call it was held at; an answer to  *)
(* a question is counted.                                                  *)
LEMMA PauseMoves ==
  ASSUME RunInv, NEW r \in Replica, AwaitDecision(r) \/ AskClarification(r)
  PROVE  Moved(r)
  <1> DEFINE old == exec[r].st
  <1>1. exec[r] \in Invocation /\ old \in AgentState
    BY Working, InvocationFields DEF RunInv, RunTyped, AwaitDecision, AskClarification
  <1>2. CASE AwaitDecision(r)
    <2> DEFINE st == [old EXCEPT !.status = IF exec[r].answer.yes THEN "approved" ELSE "denied"]
    <2>1. (IF exec[r].answer.yes THEN "approved" ELSE "denied") \in Status
      BY DEF Status
    <2>2. /\ st \in AgentState /\ st.approval_id = old.approval_id /\ st.asks = old.asks
          /\ st.observations = old.observations
          /\ st.tool = old.tool /\ st.args = old.args
      BY <1>1, <2>1 DEF AgentState
    <2>3. exec[r].at = "await_decision" /\ Advance(r, st, after_decision(st))
      BY <1>2 DEF AwaitDecision
    <2> HIDE DEF st
    <2>4. after_decision(st) \in Node \cup {"END"} /\ after_decision(st) # "await_decision"
      BY Routes DEF Node
    <2> QED BY <1>1, <2>2, <2>3, <2>4 DEF Moved, Moves
  <1>3. CASE AskClarification(r)
    <2> DEFINE args == Merge(old.args, exec[r].answer.values)
               remaining == old.missing \cap Missing(old.tool, args)
               status == IF remaining # {} /\ old.asks + 1 >= MAX_ASKS
                         THEN "refused" ELSE old.status
               st == [old EXCEPT !.args = args, !.missing = remaining,
                                 !.asks = old.asks + 1, !.status = status]
    <2>1. args \in Arg
      BY <1>1, InvocationFields, StateFields, MergeType
    <2>2. remaining \in SUBSET {"id", "amount"}
      BY <1>1, StateFields
    <2>3. status \in Status
      BY <1>1 DEF AgentState, Status
    <2>4. old.asks + 1 \in Nat /\ old.asks + 1 # 0
      <3>1. old.asks \in Nat
        BY <1>1, StateFields
      <3> HIDE DEF old
      <3> QED BY <3>1
    <2> HIDE DEF args, remaining, status
    <2>5. /\ st \in AgentState /\ st.approval_id = old.approval_id /\ st.asks # 0
          /\ st.observations = old.observations
      BY <1>1, <2>1, <2>2, <2>3, <2>4 DEF AgentState
    <2>6. Advance(r, st, after_clarification(st))
      BY <1>3 DEF AskClarification, args, remaining, status
    <2> HIDE DEF st
    <2>7. after_clarification(st) \in Node \cup {"END"}
      BY Routes DEF Node
    <2> QED BY <1>1, <2>5, <2>6, <2>7 DEF Moved, Moves
  <1> QED BY <1>2, <1>3

\* A replica's call goes out or is answered.
Calls(r) ==
  \/ \E fault \in Fault \cup {"none"} : CallTool(r, fault)
  \/ \E fault \in Fault \cup {"none"}, w \in Worker : CallVendor(r, fault, w)
  \/ CallTimesOut(r)
  \/ \E c \in vendor : c.waits /\ c.by = r /\ issue_refund(c)

(* Every step of the graph finishes a node, or leaves its checkpoint and   *)
(* its state alone: the call that goes out, the approval that is stored.   *)
LEMMA GraphStep ==
  ASSUME RunInv, NEW r \in Replica, Step(r)
  PROVE  \/ Moved(r)
         \/ Calls(r)
         \/ \E id \in ApprovalId : CreateApproval(r, id)
  BY PlanMoves, CallMoves, CreatedMoves, PauseMoves DEF Step, Calls

\* The call's state, its checkpoint and the other invocations stay.
Passes(r) ==
  /\ exec[r] \in Invocation /\ exec'[r] \in Invocation
  /\ exec[r].at \in {"call_tool", "refunding"}
  /\ exec'[r].at \in {"refunding", "tool answered"}
  /\ exec'[r].st = exec[r].st /\ exec'[r].thread = exec[r].thread
  /\ exec'[r].as = exec[r].as
  /\ \A q \in Replica : q # r => exec'[q] = exec[q]
  /\ UNCHANGED <<approvals, ckpt>>

(* So a call passes, whoever answers it.                                   *)
LEMMA CallsPass ==
  ASSUME RunInv, [Next]_vars, NEW r \in Replica, Calls(r)
  PROVE  Passes(r)
  <1>1. exec \in [Replica -> Invocation \cup {Idle}]
        /\ exec' \in [Replica -> Invocation \cup {Idle}] /\ vendor \subseteq VendorCall
    BY RunNext DEF RunInv, RunTyped, TypeOK
  <1>2. exec[r].at \in {"call_tool", "refunding"} /\ UNCHANGED <<approvals, ckpt>>
    BY DEF Calls, CallTool, CallVendor, CallTimesOut, issue_refund, RunInv, CallersWait
  <1>3. exec[r] \in Invocation
    BY <1>2, Working DEF RunInv, RunTyped
  <1> DEFINE Like(inv) == /\ inv.at \in {"refunding", "tool answered"}
                          /\ inv.st = exec[r].st /\ inv.thread = exec[r].thread
                          /\ inv.as = exec[r].as
             Waiting == [exec[r] EXCEPT !.at = "refunding"]
             Answered(ret) == [exec[r] EXCEPT !.at = "tool answered", !.ret = ret]
  <1>4. Like(Waiting) /\ \A ret : Like(Answered(ret))
    BY <1>3 DEF Invocation
  <1>5. \/ exec' = [exec EXCEPT ![r] = Waiting]
        \/ \E ret : exec' = [exec EXCEPT ![r] = Answered(ret)]
    <2>1. CASE \E fault \in Fault \cup {"none"} : CallTool(r, fault)
      BY <2>1 DEF CallTool
    <2>2. CASE \E fault \in Fault \cup {"none"}, w \in Worker : CallVendor(r, fault, w)
      BY <2>2 DEF CallVendor
    <2>3. CASE CallTimesOut(r)
      BY <2>3 DEF CallTimesOut
    <2>4. CASE \E c \in vendor : c.waits /\ c.by = r /\ issue_refund(c)
      BY <2>4 DEF issue_refund
    <2> QED BY <2>1, <2>2, <2>3, <2>4 DEF Calls
  <1> HIDE DEF Waiting, Answered
  <1>6. /\ Like(exec'[r])
        /\ \A q \in Replica : q # r => exec'[q] = exec[q]
    BY <1>1, <1>4, <1>5
  <1>7. exec'[r] \in Invocation
    <2>1. Idle.at = "idle"
      BY DEF Idle
    <2> QED BY <1>1, <1>6, <2>1
  <1> QED BY <1>2, <1>3, <1>6, <1>7 DEF Passes

(* A worker answers the replica that waits for it, or nobody.              *)
LEMMA PayAnswers ==
  ASSUME RunInv, NEW w \in Worker, Pay(w)
  PROVE  \/ \E r \in Replica : Calls(r)
         \/ \E c \in vendor : ~c.waits /\ issue_refund(c)
  <1>1. PICK c \in vendor : issue_refund(c)
    BY DEF Pay
  <1>2. c.by \in Replica
    BY DEF RunInv, RunTyped, TypeOK, VendorCall
  <1> QED BY <1>1, <1>2 DEF Calls

(* What a step that finishes a node does to the checkpoints and the        *)
(* invocations.                                                            *)
LEMMA MovesTo ==
  ASSUME RunInv, NEW r \in Replica, NEW st, NEW next, Moves(r, st, next)
  PROVE  /\ \A t \in Thread :
              ckpt'[t] = IF t = exec[r].thread THEN [next |-> next, st |-> st] ELSE ckpt[t]
         /\ \A q \in Replica : q # r => exec'[q] = exec[q]
         /\ \/ exec'[r] = Idle
            \/ /\ exec'[r].at = next /\ exec'[r].st = st /\ exec'[r].ret = NoReturn
               /\ exec'[r].thread = exec[r].thread
  <1>1. exec[r] \in Invocation /\ exec \in [Replica -> Invocation \cup {Idle}]
        /\ ckpt \in [Thread -> Checkpoint]
    BY DEF Moves, RunInv, RunTyped, TypeOK
  <1>2. Advance(r, st, next)
    BY DEF Moves
  <1>3. \A t \in Thread :
          ckpt'[t] = IF t = exec[r].thread THEN [next |-> next, st |-> st] ELSE ckpt[t]
    BY <1>1, <1>2 DEF Advance
  <1>4. \A q \in Replica : q # r => exec'[q] = exec[q]
    BY <1>1, <1>2 DEF Advance
  <1>5. exec'[r] = IF next \in Pause \cup {"END"} THEN Idle
                   ELSE [exec[r] EXCEPT !.at = next, !.st = st, !.answer = NoAnswer,
                                        !.ret = NoReturn]
    BY <1>1, <1>2 DEF Advance
  <1>6. \/ exec'[r] = Idle
        \/ /\ exec'[r].at = next /\ exec'[r].st = st /\ exec'[r].ret = NoReturn
           /\ exec'[r].thread = exec[r].thread
    BY <1>1, <1>5 DEF Invocation
  <1> QED BY <1>3, <1>4, <1>6

-----------------------------------------------------------------------------
(* The approval a run names. Between a plan that cleared it and the answer *)
(* to the call, the name is empty or that of a stored request for the very *)
(* call the run is at; the checkpoint and every invocation agree on that,  *)
(* each for itself, so overlapping resumes and restarts cannot upset it.   *)

\* Row id of the store was asked for the call the state is at.
Names(rows, id, st) ==
  /\ id \in ApprovalId /\ rows[id] # NoApproval
  /\ rows[id].request.tool = st.tool /\ rows[id].request.args = st.args

HoldIsNamed(rows, at, st) ==
  st.asks = 0 /\ at \in {"call_tool", "refunding", "tool answered", "await_decision"} =>
    \/ st.approval_id = NoKey /\ at # "await_decision"
    \/ Names(rows, st.approval_id, st)

HoldInv ==
  /\ \A t \in Thread : HoldIsNamed(approvals, ckpt[t].next, ckpt[t].st)
  /\ \A r \in Replica :
       /\ HoldIsNamed(approvals, exec[r].at, exec[r].st)
       /\ exec[r].at = "approval created" => Names(approvals, exec[r].ret.id, exec[r].st)

(* No row disappears or is asked for something else.                       *)
LEMMA NamesAreKept ==
  ASSUME RunInv, [Next]_vars
  PROVE  /\ \A id, st : Names(approvals, id, st) => Names(approvals', id, st)
         /\ \A at, st : HoldIsNamed(approvals, at, st) => HoldIsNamed(approvals', at, st)
  <1>1. \A id, st : Names(approvals, id, st) => Names(approvals', id, st)
    BY RowsAreKept DEF Names, RowIsKept
  <1> QED BY <1>1 DEF HoldIsNamed

(* What a run is at after a node is named as it should be.                 *)
LEMMA MovedIsNamed ==
  ASSUME RunInv, HoldInv, NEW r \in Replica, NEW st \in AgentState,
         NEW next \in Node \cup {"END"}, Moves(r, st, next)
  PROVE  HoldIsNamed(approvals, next, st)
  <1> DEFINE inv == exec[r]
  <1>1. HoldIsNamed(approvals, inv.at, inv.st)
        /\ (inv.at = "approval created" => Names(approvals, inv.ret.id, inv.st))
    BY DEF HoldInv
  <1> SUFFICES ASSUME st.asks = 0, next \in {"call_tool", "await_decision"},
                      ~(st.approval_id = NoKey /\ next = "call_tool")
               PROVE  Names(approvals, st.approval_id, st)
    <2>1. next \notin {"refunding", "tool answered"}
      BY DEF Node
    <2> QED BY <2>1 DEF HoldIsNamed
  <1>2. /\ inv.st.asks = 0 /\ st.tool = inv.st.tool /\ st.args = inv.st.args
        /\ \/ /\ inv.at \in {"tool answered", "await_decision"}
              /\ st.approval_id = inv.st.approval_id
              /\ next = "await_decision" => st.approval_id # NoKey
           \/ inv.at = "approval created" /\ st.approval_id = inv.ret.id
    BY DEF Moves
  <1> HIDE DEF inv
  <1> QED BY <1>1, <1>2 DEF HoldIsNamed, Names

(* A step that finishes a node keeps every hold named.                     *)
LEMMA MovedHolds ==
  ASSUME RunInv, HoldInv, [Next]_vars, NEW r \in Replica, Moved(r)
  PROVE  HoldInv'
  <1>1. PICK st \in AgentState, next \in Node \cup {"END"} : Moves(r, st, next)
    BY DEF Moved
  <1>2. HoldIsNamed(approvals', next, st)
    BY <1>1, MovedIsNamed, NamesAreKept
  <1>3. ASSUME NEW t \in Thread PROVE HoldIsNamed(approvals', ckpt'[t].next, ckpt'[t].st)
    <2>1. ckpt'[t] = IF t = exec[r].thread THEN [next |-> next, st |-> st] ELSE ckpt[t]
      BY <1>1, MovesTo
    <2>2. CASE t = exec[r].thread
      BY <1>2, <2>1, <2>2
    <2>3. CASE t # exec[r].thread
      <3>1. ckpt'[t] = ckpt[t] /\ HoldIsNamed(approvals, ckpt[t].next, ckpt[t].st)
        BY <2>1, <2>3 DEF HoldInv
      <3> QED BY <3>1, NamesAreKept
    <2> QED BY <2>2, <2>3
  <1>4. ASSUME NEW q \in Replica
        PROVE  /\ HoldIsNamed(approvals', exec'[q].at, exec'[q].st)
               /\ exec'[q].at = "approval created" =>
                    Names(approvals', exec'[q].ret.id, exec'[q].st)
    <2>1. CASE q # r
      <3>1. /\ exec'[q] = exec[q] /\ HoldIsNamed(approvals, exec[q].at, exec[q].st)
            /\ exec[q].at = "approval created" => Names(approvals, exec[q].ret.id, exec[q].st)
        BY <1>1, <2>1, MovesTo, ZenonT(30) DEF HoldInv
      <3> QED BY <3>1, NamesAreKept
    <2>2. CASE q = r
      <3>1. CASE exec'[r] = Idle
        BY <2>2, <3>1 DEF HoldIsNamed, Idle
      <3>2. CASE exec'[r].at = next /\ exec'[r].st = st
        BY <1>2, <2>2, <3>2 DEF Node
      <3>3. \/ exec'[r] = Idle
            \/ /\ exec'[r].at = next /\ exec'[r].st = st /\ exec'[r].ret = NoReturn
               /\ exec'[r].thread = exec[r].thread
        BY <1>1, MovesTo
      <3> QED BY <3>1, <3>2, <3>3
    <2> QED BY <2>1, <2>2
  <1> QED BY <1>3, <1>4 DEF HoldInv

(* So does every other step of a replica: it changes its own invocation at *)
(* most.                                                                   *)
LEMMA OthersHold ==
  ASSUME RunInv, HoldInv, [Next]_vars, NEW r \in Replica,
         \A t \in Thread : HoldIsNamed(approvals, ckpt'[t].next, ckpt'[t].st),
         \A q \in Replica : q # r => exec'[q] = exec[q],
         HoldIsNamed(approvals, exec'[r].at, exec'[r].st),
         exec'[r].at = "approval created" => Names(approvals', exec'[r].ret.id, exec'[r].st)
  PROVE  HoldInv'
  <1>1. ASSUME NEW t \in Thread PROVE HoldIsNamed(approvals', ckpt'[t].next, ckpt'[t].st)
    BY NamesAreKept
  <1>2. ASSUME NEW q \in Replica
        PROVE  /\ HoldIsNamed(approvals', exec'[q].at, exec'[q].st)
               /\ exec'[q].at = "approval created" =>
                    Names(approvals', exec'[q].ret.id, exec'[q].st)
    <2>1. CASE q # r
      <3>1. /\ exec'[q] = exec[q] /\ HoldIsNamed(approvals, exec[q].at, exec[q].st)
            /\ exec[q].at = "approval created" => Names(approvals, exec[q].ret.id, exec[q].st)
        BY <2>1 DEF HoldInv
      <3> QED BY <3>1, NamesAreKept
    <2>2. CASE q = r
      BY <2>2, NamesAreKept
    <2> QED BY <2>1, <2>2
  <1> QED BY <1>1, <1>2 DEF HoldInv

(* The call that goes out, and the approval that is stored.                *)
LEMMA EffectHolds ==
  ASSUME RunInv, HoldInv, [Next]_vars, NEW r \in Replica,
         Calls(r) \/ \E id \in ApprovalId : CreateApproval(r, id)
  PROVE  HoldInv'
  <1>3. CASE Calls(r)
    <2>1. Passes(r)
      BY <1>3, CallsPass
    <2>2. HoldIsNamed(approvals, exec'[r].at, exec'[r].st)
      <3>1. HoldIsNamed(approvals, exec[r].at, exec[r].st)
        BY DEF HoldInv
      <3> QED BY <2>1, <3>1 DEF HoldIsNamed, Passes
    <2> QED BY <2>1, <2>2, OthersHold DEF Passes, HoldInv
  <1>4. CASE \E id \in ApprovalId : CreateApproval(r, id)
    <2>1. PICK id \in ApprovalId : CreateApproval(r, id)
      BY <1>4
    <2>5. exec[r] \in Invocation /\ exec \in [Replica -> Invocation \cup {Idle}]
      BY <2>1, Working DEF RunInv, RunTyped, TypeOK, CreateApproval
    <2>6. \A t \in Thread : HoldIsNamed(approvals, ckpt'[t].next, ckpt'[t].st)
      BY <2>1 DEF CreateApproval, HoldInv
    <2>2. /\ \A q \in Replica : q # r => exec'[q] = exec[q]
          /\ exec'[r].at = "approval created" /\ exec'[r].st = exec[r].st
          /\ exec'[r].ret.id = id
      BY <2>1, <2>5 DEF CreateApproval, Invocation, NoReturn
    <2>3. Names(approvals', id, exec[r].st)
      <3>1. approvals'[id] = [status |-> "pending", request |-> HeldRequest(exec[r]),
                              approver |-> NoOne]
        BY <2>1 DEF CreateApproval, Create, RunInv, RunTyped, TypeOK, ApprovalsTypeOK
      <3>2. approvals'[id] # NoApproval
        BY <3>1 DEF NoApproval
      <3>3. /\ approvals'[id].request.tool = exec[r].st.tool
            /\ approvals'[id].request.args = exec[r].st.args
        BY <3>1 DEF HeldRequest
      <3> QED BY <3>2, <3>3 DEF Names
    <2>4. HoldIsNamed(approvals, exec'[r].at, exec'[r].st)
      BY <2>2 DEF HoldIsNamed
    <2> QED BY <2>2, <2>3, <2>4, <2>6, OthersHold
  <1> QED BY <1>3, <1>4

(* A request that comes in or is lost: the run goes on from its            *)
(* checkpoint, or starts over at the plan.                                 *)
LEMMA RequestHolds ==
  ASSUME RunInv, HoldInv, [Next]_vars, NEW r \in Replica,
         \/ \E t \in Thread, u \in Person : Run(r, t, u)
         \/ \E t \in Thread, u \in Person, a \in Answer : Resume(r, t, u, a)
         \/ Restart(r)
  PROVE  HoldInv'
  <1>1. /\ exec \in [Replica -> Invocation \cup {Idle}] /\ ckpt \in [Thread -> Checkpoint]
        /\ \A at, st :
             at \notin {"call_tool", "refunding", "tool answered", "await_decision"} =>
               HoldIsNamed(approvals, at, st)
    BY DEF RunInv, RunTyped, TypeOK, HoldIsNamed
  <1>2. \A q \in Replica : q # r => exec'[q] = exec[q]
    BY <1>1 DEF Run, Resume, Restart, Start
  <1>3. CASE \E t \in Thread, u \in Person : Run(r, t, u)
    <2>1. PICK t \in Thread, u \in Person : Run(r, t, u)
      BY <1>3
    <2>2. exec'[r].at = "plan"
      BY <1>1, <2>1 DEF Run, Start
    <2>3. ASSUME NEW s \in Thread PROVE HoldIsNamed(approvals, ckpt'[s].next, ckpt'[s].st)
      <3>1. CASE s = t
        <4>1. ckpt'[s].next = "plan"
          BY <1>1, <2>1, <3>1 DEF Run, Checkpoint
        <4> QED BY <1>1, <4>1
      <3>2. CASE s # t
        <4>1. ckpt'[s] = ckpt[s]
          BY <1>1, <2>1, <3>2 DEF Run
        <4> QED BY <4>1 DEF HoldInv
      <3> QED BY <3>1, <3>2
    <2> QED BY <1>1, <1>2, <2>2, <2>3, OthersHold
  <1>4. CASE \E t \in Thread, u \in Person, a \in Answer : Resume(r, t, u, a)
    <2>1. PICK t \in Thread, u \in Person, a \in Answer : Resume(r, t, u, a)
      BY <1>4
    <2>2. /\ exec'[r].at = ckpt[t].next /\ exec'[r].st = ckpt[t].st
          /\ ckpt[t].next # "approval created" /\ ckpt' = ckpt
      BY <1>1, <2>1 DEF Resume, Start, Node
    <2> QED BY <1>2, <2>2, OthersHold DEF HoldInv
  <1>5. CASE Restart(r)
    <2>1. exec'[r].at = "idle" /\ ckpt' = ckpt
      BY <1>1, <1>5 DEF Restart, Idle
    <2> QED BY <1>1, <1>2, <2>1, OthersHold DEF HoldInv
  <1> QED BY <1>3, <1>4, <1>5

(* A thread that was never started holds nothing.                          *)
LEMMA HoldInit == Init => HoldInv
  <1> SUFFICES ASSUME Init PROVE HoldInv
    OBVIOUS
  <1>1. /\ \A t \in Thread : ckpt[t].next = "none"
        /\ \A r \in Replica : exec[r].at = "idle"
    BY DEF Init, Unstarted, Idle
  <1> QED BY <1>1 DEF HoldInv, HoldIsNamed

(* Every step keeps every hold named.                                      *)
LEMMA HoldNext == RunInv /\ HoldInv /\ [Next]_vars => HoldInv'
  <1> SUFFICES ASSUME RunInv, HoldInv, [Next]_vars PROVE HoldInv'
    OBVIOUS
  <1>1. ASSUME NEW r \in Replica, Step(r) PROVE HoldInv'
    BY <1>1, GraphStep, MovedHolds, EffectHolds
  <1>2. CASE \/ \E r \in Replica, t \in Thread, u \in Person : Run(r, t, u)
             \/ \E r \in Replica, t \in Thread, u \in Person, a \in Answer :
                  Resume(r, t, u, a)
             \/ \E r \in Replica : Restart(r)
    BY <1>2, RequestHolds
  <1>3. CASE \/ \E id \in ApprovalId, p \in Person, yes \in BOOLEAN :
                  ManagerDecides(id, p, yes)
             \/ \E c \in vendor : ~c.waits /\ issue_refund(c)
             \/ UNCHANGED vars
    <2>1. exec' = exec /\ ckpt' = ckpt
      BY <1>3 DEF ManagerDecides, issue_refund, agentVars, vars
    <2> QED BY <2>1, NamesAreKept DEF HoldInv
  <1>4. ASSUME NEW w \in Worker, Pay(w) PROVE HoldInv'
    BY <1>3, <1>4, PayAnswers, EffectHolds
  <1> QED BY <1>1, <1>2, <1>3, <1>4 DEF Next

(* A run that waits for a decision waits for one on the call it will make, *)
(* however it was resumed, overlapped or restarted (graph.py, after_call). *)
THEOREM HoldsAreNamed == Spec => []HoldNamesItsApproval
  <1>1. RunInv /\ HoldInv => HoldNamesItsApproval
    <2> SUFFICES ASSUME RunInv, HoldInv, NEW t \in Thread, ckpt[t].next = "await_decision",
                        ckpt[t].st.asks = 0
                 PROVE  Names(approvals, ckpt[t].st.approval_id, ckpt[t].st)
      BY DEF HoldNamesItsApproval, NamesItsApproval, Names
    <2> QED BY DEF HoldInv, HoldIsNamed
  <1> QED BY RunInit, RunNext, HoldInit, HoldNext, <1>1, PTL DEF Spec

-----------------------------------------------------------------------------
(* Receipts, for runs nobody resumes while they are being worked on. A     *)
(* receipt is a refund the vendor has just issued, or the one it had under *)
(* the key the call carried. The second is of the right order and amount   *)
(* only because no other run can have paid under that key: an approval is  *)
(* named by one thread, and one invocation at a time works on a thread.    *)

Key(t) == ckpt[t].st.approval_id

\* The refunds that were issued and those a worker is about to issue.
Payments == {[key |-> f.key, id |-> f.id, amount |-> f.amount] : f \in refunds \cup vendor}

\* A refund step's receipt is in the ledger, for that order and that amount.
Shown(ledger, o) ==
  o.tool = RefundTool /\ o.args.id \in KnownId =>
    \E f \in ledger : f.n = o.receipt /\ f.id = o.args.id /\ f.amount = o.args.amount.value

\* What the threads, the ledger and the store say of each other.
KeysAreStored ==
  /\ \A t \in Thread : Key(t) # NoKey => approvals[Key(t)] # NoApproval
  /\ \A f \in Payments : f.key # NoKey => approvals[f.key] # NoApproval
KeysAreApart ==
  \A t, u \in Thread : Key(t) = Key(u) /\ Key(t) # NoKey => t = u
PaidAsAsked ==
  \A t \in Thread, f \in Payments :
    ckpt[t].st.asks = 0 /\ Key(t) # NoKey /\ f.key = Key(t) =>
      /\ f.id = approvals[f.key].request.args.id
      /\ f.amount = approvals[f.key].request.args.amount.value
StepsAreShown ==
  \A t \in Thread : ckpt[t].st.asks = 0 =>
    \A i \in DOMAIN ckpt[t].st.observations : Shown(refunds, ckpt[t].st.observations[i])

ThreadInv == KeysAreStored /\ KeysAreApart /\ PaidAsAsked /\ StepsAreShown

\* What the invocations add to that.
OneAtWork ==
  \A r, q \in Replica :
    exec[r] # Idle /\ exec[q] # Idle /\ exec[r].thread = exec[q].thread => r = q
InStep == \A r \in Replica : exec[r] # Idle => exec[r].st = ckpt[exec[r].thread].st
NewKeysAreFresh ==
  \A r \in Replica : exec[r].at = "approval created" =>
    /\ \A t \in Thread : Key(t) # exec[r].ret.id
    /\ \A f \in Payments : f.key # exec[r].ret.id
    /\ \A q \in Replica :
         exec[q].at = "approval created" /\ exec[q].ret.id = exec[r].ret.id => q = r
AnswersAreShown ==
  \A r \in Replica :
    exec[r].at = "tool answered" /\ exec[r].ret.status = "ok" /\ exec[r].st.asks = 0 =>
      Shown(refunds, [tool |-> exec[r].st.tool, args |-> exec[r].st.args,
                      receipt |-> exec[r].ret.receipt])

WorkInv == OneAtWork /\ InStep /\ NewKeysAreFresh /\ AnswersAreShown

\* The invariant: with the types, and with the approval each hold names.
ReceiptInv == RunInv /\ HoldInv /\ ThreadInv /\ WorkInv

\* A step in which no thread's state changes and no payment is added.
Quiet ==
  /\ \A t \in Thread : ckpt'[t].st = ckpt[t].st
  /\ refunds \subseteq refunds' /\ Payments' = Payments

(* The keys payments carry are ids of the store, or none.                  *)
LEMMA PaymentKeys ==
  ASSUME TypeOK PROVE \A f \in Payments : f.key \in ApprovalId \cup {NoKey}
  BY DEF TypeOK, Refund, VendorCall, Payments

(* A receipt stays in the ledger.                                          *)
LEMMA ShownStays ==
  ASSUME NEW few, NEW many, few \subseteq many
  PROVE  \A o : Shown(few, o) => Shown(many, o)
  BY DEF Shown

(* A replica that leaves, and a refund that is issued for a call the       *)
(* vendor had taken on, add no payment.                                    *)
LEMMA SamePayments ==
  ASSUME TypeOK,
         \/ \E r \in Replica : vendor' = Orphaned(r) /\ refunds' = refunds
         \/ \E c \in vendor : issue_refund(c)
         \/ UNCHANGED <<vendor, refunds>>
  PROVE  refunds \subseteq refunds' /\ Payments' = Payments
  <1> DEFINE Paid(f) == [key |-> f.key, id |-> f.id, amount |-> f.amount]
  <1>1. ASSUME NEW r \in Replica, vendor' = Orphaned(r), refunds' = refunds
        PROVE  Payments' = Payments
    <2> DEFINE Left(c) == IF c.by = r THEN [c EXCEPT !.waits = FALSE] ELSE c
    <2>1. vendor \subseteq VendorCall
      BY DEF TypeOK
    <2>2. \A c \in vendor : Paid(Left(c)) = Paid(c)
      BY <2>1 DEF VendorCall
    <2>3. vendor' = {Left(c) : c \in vendor}
      BY <1>1 DEF Orphaned
    <2> HIDE DEF Left
    <2>4. Payments = {Paid(f) : f \in refunds \cup vendor}
          /\ Payments' = {Paid(f) : f \in refunds \cup vendor'}
      BY <1>1 DEF Payments
    <2> HIDE DEF Paid
    <2> QED BY <2>2, <2>3, <2>4
  <1>2. ASSUME NEW c \in vendor, issue_refund(c)
        PROVE  refunds \subseteq refunds' /\ Payments' = Payments
    <2>1. refunds' = refunds \cup {Issued(c)} /\ vendor' = vendor \ {c}
      BY <1>2 DEF issue_refund, Issued
    <2>2. Paid(Issued(c)) = Paid(c)
      BY DEF Issued
    <2>3. Payments = {Paid(f) : f \in refunds \cup vendor}
          /\ Payments' = {Paid(f) : f \in refunds' \cup vendor'}
      BY DEF Payments
    <2> HIDE DEF Paid
    <2> QED BY <2>1, <2>2, <2>3
  <1>3. CASE UNCHANGED <<vendor, refunds>>
    BY <1>3 DEF Payments
  <1> QED BY <1>1, <1>2, <1>3

(* Such a step keeps what the threads, the ledger and the store say.       *)
LEMMA QuietThreads ==
  ASSUME RunInv, ThreadInv, [Next]_vars, Quiet
  PROVE  ThreadInv'
  <1>1. \A t \in Thread : Key(t)' = Key(t) /\ Key(t) \in ApprovalId \cup {NoKey}
    BY StateFields DEF Quiet, Key, RunInv, RunTyped, TypeOK, Checkpoint
  <1>2. \A f \in Payments : f.key \in ApprovalId \cup {NoKey}
    BY PaymentKeys DEF RunInv, RunTyped
  <1>3. \A id \in ApprovalId : approvals[id] # NoApproval =>
          approvals'[id] # NoApproval /\ approvals'[id].request = approvals[id].request
    BY RowsAreKept DEF RowIsKept
  <1>4. KeysAreStored'
    BY <1>1, <1>2, <1>3 DEF ThreadInv, KeysAreStored, Quiet
  <1>5. KeysAreApart'
    BY <1>1 DEF ThreadInv, KeysAreApart
  <1>6. PaidAsAsked'
    <2> SUFFICES ASSUME NEW t \in Thread, NEW f \in Payments, ckpt[t].st.asks = 0,
                        Key(t) # NoKey, f.key = Key(t)
                 PROVE  /\ f.id = approvals'[f.key].request.args.id
                        /\ f.amount = approvals'[f.key].request.args.amount.value
      BY <1>1 DEF PaidAsAsked, Quiet
    <2>1. f.key \in ApprovalId /\ approvals[f.key] # NoApproval
      BY <1>1 DEF ThreadInv, KeysAreStored
    <2> QED BY <1>3, <2>1 DEF ThreadInv, PaidAsAsked
  <1>7. StepsAreShown'
    BY ShownStays DEF ThreadInv, StepsAreShown, Quiet
  <1> QED BY <1>4, <1>5, <1>6, <1>7 DEF ThreadInv

(* What an invocation is: idle, or well formed and on a thread.            *)
LEMMA IdleOrWorking ==
  ASSUME TypeOK, NEW r \in Replica
  PROVE  /\ exec[r] = Idle => exec[r].at = "idle"
         /\ exec[r] # Idle => /\ exec[r] \in Invocation /\ exec[r].at \in Place
                              /\ exec[r].at # "idle" /\ exec[r].thread \in Thread
  <1>1. exec[r] = Idle => exec[r].at = "idle"
    BY DEF Idle
  <1>2. exec[r] # Idle => exec[r] \in Invocation
    BY DEF TypeOK
  <1>3. exec[r] \in Invocation => exec[r].at \in Place /\ exec[r].thread \in Thread
    BY InvocationFields
  <1>4. "idle" \notin Place
    BY DEF Place, Node
  <1> QED BY <1>1, <1>2, <1>3, <1>4

(* A request comes in on a thread nobody works on, or is lost.             *)
LEMMA RequestWork ==
  ASSUME RunInv, WorkInv, Quiet, RunInv', NEW r \in Replica,
         \A q \in Replica : q # r => exec'[q] = exec[q],
         exec'[r].at \notin {"approval created", "tool answered"},
         exec'[r] # Idle => exec'[r].st = ckpt[exec'[r].thread].st,
         \A q \in Replica : exec'[r] # Idle /\ q # r /\ exec[q] # Idle =>
                              exec[q].thread # exec'[r].thread
  PROVE  WorkInv'
  <1>1. OneAtWork'
    BY DEF WorkInv, OneAtWork
  <1>2. InStep'
    <2> SUFFICES ASSUME NEW q \in Replica, exec'[q] # Idle
                 PROVE  exec'[q].st = ckpt'[exec'[q].thread].st
      BY DEF InStep
    <2>1. TypeOK'
      BY DEF RunInv, RunTyped
    <2>2. exec'[q].thread \in Thread
      BY <2>1 DEF TypeOK, Invocation
    <2>3. ckpt'[exec'[q].thread].st = ckpt[exec'[q].thread].st
      BY <2>2 DEF Quiet
    <2> QED BY <2>3 DEF WorkInv, InStep
  <1>3. NewKeysAreFresh'
    <2>1. \A t \in Thread : Key(t)' = Key(t)
      BY DEF Quiet, Key
    <2>2. \A q \in Replica : exec'[q].at = "approval created" => q # r /\ exec'[q] = exec[q]
      OBVIOUS
    <2>3. Payments' = Payments
      BY DEF Quiet
    <2> SUFFICES ASSUME NEW q \in Replica, exec'[q].at = "approval created"
                 PROVE  /\ \A t \in Thread : Key(t)' # exec'[q].ret.id
                        /\ \A f \in Payments' : f.key # exec'[q].ret.id
                        /\ \A o \in Replica : exec'[o].at = "approval created"
                             /\ exec'[o].ret.id = exec'[q].ret.id => o = q
      BY DEF NewKeysAreFresh
    <2>4. /\ \A t \in Thread : Key(t) # exec[q].ret.id
          /\ \A f \in Payments : f.key # exec[q].ret.id
          /\ \A o \in Replica : exec[o].at = "approval created"
               /\ exec[o].ret.id = exec[q].ret.id => o = q
      BY <2>2 DEF WorkInv, NewKeysAreFresh
    <2> QED BY <2>1, <2>2, <2>3, <2>4
  <1>4. AnswersAreShown'
    <2> SUFFICES ASSUME NEW q \in Replica, exec'[q].at = "tool answered",
                        exec'[q].ret.status = "ok", exec'[q].st.asks = 0
                 PROVE  Shown(refunds', [tool |-> exec'[q].st.tool, args |-> exec'[q].st.args,
                                         receipt |-> exec'[q].ret.receipt])
      BY DEF AnswersAreShown
    <2>1. exec'[q] = exec[q] /\ refunds \subseteq refunds'
      BY DEF Quiet
    <2> DEFINE o == [tool |-> exec[q].st.tool, args |-> exec[q].st.args,
                     receipt |-> exec[q].ret.receipt]
    <2>2. Shown(refunds, o)
      BY <2>1 DEF WorkInv, AnswersAreShown
    <2> HIDE DEF o
    <2>3. Shown(refunds', o)
      BY <2>1, <2>2, ShownStays
    <2> USE DEF o
    <2> QED BY <2>1, <2>3
  <1> QED BY <1>1, <1>2, <1>3, <1>4 DEF WorkInv

(* A quiet step that no invocation takes part in.                          *)
LEMMA QuietWork ==
  ASSUME WorkInv, Quiet, exec' = exec, ckpt' = ckpt
  PROVE  WorkInv'
  <1>1. OneAtWork' /\ InStep'
    BY DEF WorkInv, OneAtWork, InStep
  <1>2. NewKeysAreFresh'
    BY DEF WorkInv, NewKeysAreFresh, Quiet, Key
  <1>3. AnswersAreShown'
    <2>1. \A o : Shown(refunds, o) => Shown(refunds', o)
      BY ShownStays DEF Quiet
    <2> QED BY <2>1 DEF WorkInv, AnswersAreShown
  <1> QED BY <1>1, <1>2, <1>3 DEF WorkInv

(* Nobody resumes a run that is being worked on.                           *)
LEMMA NobodyElse ==
  ASSUME MaxOverlaps = 0, RunInv, NEW t \in Thread,
         WorkedOn(t) => bounds.overlaps < MaxOverlaps
  PROVE  \A q \in Replica : exec[q] # Idle => exec[q].thread # t
  <1>1. bounds.overlaps \in 0..MaxOverlaps
    BY DEF RunInv, RunTyped, TypeOK
  <1>2. ~WorkedOn(t)
    BY <1>1
  <1> QED BY <1>2 DEF WorkedOn

(* /run, /resume and a restart keep the invariant.                         *)
LEMMA RequestReceipts ==
  ASSUME MaxOverlaps = 0, ReceiptInv, [Next]_vars, NEW r \in Replica,
         \/ \E t \in Thread, u \in Person : Run(r, t, u)
         \/ \E t \in Thread, u \in Person, a \in Answer : Resume(r, t, u, a)
         \/ Restart(r)
  PROVE  ThreadInv' /\ WorkInv'
  <1>1. RunInv /\ RunInv' /\ WorkInv /\ ThreadInv
    BY RunNext DEF ReceiptInv
  <1>2. exec \in [Replica -> Invocation \cup {Idle}] /\ ckpt \in [Thread -> Checkpoint]
    BY <1>1 DEF RunInv, RunTyped, TypeOK
  <1>3. \A q \in Replica : q # r => exec'[q] = exec[q]
    BY <1>2 DEF Run, Resume, Restart, Start
  <1>4. Quiet
    <2>1. CASE \E t \in Thread, u \in Person : Run(r, t, u)
      <3>1. PICK t \in Thread, u \in Person : Run(r, t, u)
        BY <2>1
      <3>2. ckpt' = [ckpt EXCEPT ![t] = [ckpt[t] EXCEPT !.next = "plan"]]
            /\ UNCHANGED <<vendor, refunds>>
        BY <3>1 DEF Run
      <3>3. [ckpt[t] EXCEPT !.next = "plan"].st = ckpt[t].st
        BY <1>2 DEF Checkpoint
      <3> QED BY <1>1, <1>2, <3>2, <3>3, SamePayments DEF Quiet, RunInv, RunTyped
    <2>2. CASE \/ \E t \in Thread, u \in Person, a \in Answer : Resume(r, t, u, a)
               \/ Restart(r)
      <3>1. ckpt' = ckpt /\ refunds' = refunds /\ (vendor' = Orphaned(r) \/ vendor' = vendor)
        BY <2>2 DEF Resume, Restart
      <3> QED BY <1>1, <3>1, SamePayments DEF Quiet, RunInv, RunTyped
    <2> QED BY <2>1, <2>2
  <1>5. ThreadInv'
    BY <1>1, <1>4, QuietThreads
  <1>6. CASE \E t \in Thread, u \in Person : Run(r, t, u)
    <2>1. PICK t \in Thread, u \in Person : Run(r, t, u)
      BY <1>6
    <2>2. exec'[r].at = "plan" /\ exec'[r].st = ckpt[t].st /\ exec'[r].thread = t
      BY <1>2, <2>1 DEF Run, Start
    <2>3. \A q \in Replica : exec[q] # Idle => exec[q].thread # t
      BY <1>1, <2>1, NobodyElse DEF Run
    <2>4. WorkInv'
      BY <1>1, <1>3, <1>4, <2>2, <2>3, RequestWork
    <2> QED BY <1>5, <2>4
  <1>7. CASE \E t \in Thread, u \in Person, a \in Answer : Resume(r, t, u, a)
    <2>1. PICK t \in Thread, u \in Person, a \in Answer : Resume(r, t, u, a)
      BY <1>7
    <2>2. exec'[r].at \in Node /\ exec'[r].st = ckpt[t].st /\ exec'[r].thread = t
      BY <1>2, <2>1 DEF Resume, Start
    <2>3. \A q \in Replica : exec[q] # Idle => exec[q].thread # t
      BY <1>1, <2>1, NobodyElse DEF Resume
    <2>4. exec'[r].at \notin {"approval created", "tool answered"}
      BY <2>2 DEF Node
    <2>5. WorkInv'
      BY <1>1, <1>3, <1>4, <2>2, <2>3, <2>4, RequestWork
    <2> QED BY <1>5, <2>5
  <1>8. CASE Restart(r)
    <2>1. exec'[r] = Idle
      BY <1>2, <1>8 DEF Restart
    <2>2. exec'[r].at \notin {"approval created", "tool answered"}
      BY <2>1 DEF Idle
    <2>3. WorkInv'
      BY <1>1, <1>3, <1>4, <2>1, <2>2, RequestWork
    <2> QED BY <1>5, <2>3
  <1> QED BY <1>6, <1>7, <1>8

(* A new approval is stored under an id that no thread, no refund and no   *)
(* other invocation knows: theirs are in the store already.                *)
LEMMA CreateReceipts ==
  ASSUME ReceiptInv, [Next]_vars, NEW r \in Replica, NEW id \in ApprovalId,
         CreateApproval(r, id)
  PROVE  ThreadInv' /\ WorkInv'
  <1>1. RunInv /\ RunInv' /\ WorkInv /\ ThreadInv /\ TypeOK
    BY RunNext DEF ReceiptInv, RunInv, RunTyped
  <1>2. Quiet /\ ckpt' = ckpt /\ refunds' = refunds /\ Payments' = Payments
    BY <1>1, SamePayments DEF CreateApproval, Quiet
  <1>3. ThreadInv'
    BY <1>1, <1>2, QuietThreads
  <1>4. exec[r] \in Invocation /\ exec[r] # Idle
    BY <1>1, Working, IdleOrWorking DEF CreateApproval
  <1>5. /\ \A q \in Replica : q # r => exec'[q] = exec[q]
        /\ exec'[r].at = "approval created" /\ exec'[r].st = exec[r].st
        /\ exec'[r].ret.id = id /\ exec'[r].thread = exec[r].thread
    BY <1>1, <1>4 DEF CreateApproval, TypeOK, Invocation, NoReturn
  <1>6. approvals[id] = NoApproval /\ id # NoKey
    BY AgentRunAssumption DEF CreateApproval, Create
  <1>7. /\ \A t \in Thread : Key(t)' = Key(t) /\ Key(t) # id
        /\ \A f \in Payments : f.key # id
        /\ \A q \in Replica : exec[q].at = "approval created" => exec[q].ret.id # id
    <2>1. \A t \in Thread : Key(t)' = Key(t)
      BY <1>2 DEF Key
    <2>2. (\A t \in Thread : Key(t) # id) /\ \A f \in Payments : f.key # id
      BY <1>1, <1>6 DEF ThreadInv, KeysAreStored
    <2>3. \A q \in Replica : exec[q].at = "approval created" => exec[q].ret.id # id
      BY <1>6 DEF ReceiptInv, HoldInv, Names
    <2> QED BY <2>1, <2>2, <2>3
  <1>8. OneAtWork'
    <2> SUFFICES ASSUME NEW p \in Replica, NEW q \in Replica, exec'[p] # Idle,
                        exec'[q] # Idle, exec'[p].thread = exec'[q].thread
                 PROVE  p = q
      BY DEF OneAtWork
    <2>1. /\ exec[p] # Idle /\ exec[p].thread = exec'[p].thread
          /\ exec[q] # Idle /\ exec[q].thread = exec'[q].thread
      BY <1>4, <1>5
    <2> QED BY <1>1, <2>1 DEF WorkInv, OneAtWork
  <1>9. InStep'
    BY <1>1, <1>2, <1>4, <1>5 DEF WorkInv, InStep
  <1>10. NewKeysAreFresh'
    <2> SUFFICES ASSUME NEW q \in Replica, exec'[q].at = "approval created"
                 PROVE  /\ \A t \in Thread : Key(t) # exec'[q].ret.id
                        /\ \A f \in Payments : f.key # exec'[q].ret.id
                        /\ \A o \in Replica : exec'[o].at = "approval created"
                             /\ exec'[o].ret.id = exec'[q].ret.id => o = q
      BY <1>2, <1>7 DEF NewKeysAreFresh
    <2>1. CASE q = r
      BY <1>5, <1>7, <2>1
    <2>2. CASE q # r
      <3>1. exec'[q] = exec[q] /\ exec[q].at = "approval created" /\ exec[q].ret.id # id
        BY <1>5, <1>7, <2>2
      <3>2. /\ \A t \in Thread : Key(t) # exec[q].ret.id
            /\ \A f \in Payments : f.key # exec[q].ret.id
            /\ \A o \in Replica : exec[o].at = "approval created"
                 /\ exec[o].ret.id = exec[q].ret.id => o = q
        BY <1>1, <3>1 DEF WorkInv, NewKeysAreFresh
      <3> QED BY <1>5, <3>1, <3>2
    <2> QED BY <2>1, <2>2
  <1>11. AnswersAreShown'
    <2> SUFFICES ASSUME NEW q \in Replica, exec'[q].at = "tool answered",
                        exec'[q].ret.status = "ok", exec'[q].st.asks = 0
                 PROVE  Shown(refunds', [tool |-> exec'[q].st.tool, args |-> exec'[q].st.args,
                                         receipt |-> exec'[q].ret.receipt])
      BY DEF AnswersAreShown
    <2>1. exec'[q] = exec[q]
      BY <1>5
    <2> QED BY <1>1, <1>2, <2>1 DEF WorkInv, AnswersAreShown
  <1> QED BY <1>3, <1>8, <1>9, <1>10, <1>11 DEF WorkInv

(* Coercion changes the spelling of an amount, never the amount.           *)
LEMMA CoerceKeepsValue ==
  ASSUME NEW args
  PROVE  coerce_args(args).id = args.id /\ coerce_args(args).amount.value = args.amount.value
  <1>1. Number(args.amount.value).value = args.amount.value
    BY DEF Number
  <1> QED BY <1>1 DEF coerce_args

(* What a call that goes out or is answered does, in the terms of the      *)
(* invariant: it may add the payment that was asked for.                   *)
LEMMA CallFacts ==
  ASSUME ReceiptInv, [Next]_vars, NEW r \in Replica, Calls(r)
  PROVE  /\ Passes(r) /\ exec[r] # Idle /\ exec[r].thread \in Thread
         /\ exec[r].st = ckpt[exec[r].thread].st
         /\ exec[r].st.approval_id = Key(exec[r].thread)
         /\ exec[r].st.asks = 0 /\ exec[r].st.approval_id # NoKey =>
              Names(approvals, exec[r].st.approval_id, exec[r].st)
         /\ refunds \subseteq refunds'
         /\ \A f \in Payments' \ Payments :
              /\ f.id = exec[r].st.args.id /\ f.amount = exec[r].st.args.amount.value
              /\ f.key = exec[r].st.approval_id
  <1>1. Passes(r) /\ TypeOK
    BY CallsPass DEF ReceiptInv, RunInv, RunTyped
  <1>2. exec[r] # Idle /\ exec[r].thread \in Thread
    <2>1. exec[r].at # "idle"
      BY <1>1 DEF Passes
    <2> QED BY <1>1, <2>1, IdleOrWorking
  <1>3. exec[r].st = ckpt[exec[r].thread].st
    BY <1>2 DEF ReceiptInv, WorkInv, InStep
  <1>4. exec[r].st.approval_id = Key(exec[r].thread)
    BY <1>3 DEF Key
  <1>5. exec[r].st.asks = 0 /\ exec[r].st.approval_id # NoKey =>
          Names(approvals, exec[r].st.approval_id, exec[r].st)
    BY <1>1 DEF ReceiptInv, HoldInv, HoldIsNamed, Passes
  <1>6. /\ refunds \subseteq refunds'
        /\ \A f \in Payments' \ Payments :
             /\ f.id = exec[r].st.args.id /\ f.amount = exec[r].st.args.amount.value
             /\ f.key = exec[r].st.approval_id
    <2>1. CASE \E fault \in Fault \cup {"none"}, w \in Worker : CallVendor(r, fault, w)
      <3>1. PICK w : vendor' = vendor \cup {TakenOn(r, w)} /\ refunds' = refunds
        BY <2>1 DEF CallVendor, TakenOn
      <3>2. /\ TakenOn(r, w).id = exec[r].st.args.id
            /\ TakenOn(r, w).amount = exec[r].st.args.amount.value
            /\ TakenOn(r, w).key = exec[r].st.approval_id
        BY CoerceKeepsValue DEF TakenOn
      <3>3. ASSUME NEW f \in Payments' \ Payments
            PROVE  /\ f.id = exec[r].st.args.id /\ f.amount = exec[r].st.args.amount.value
                   /\ f.key = exec[r].st.approval_id
        <4>1. PICK c \in refunds' \cup vendor' :
                f = [key |-> c.key, id |-> c.id, amount |-> c.amount]
          BY DEF Payments
        <4>2. c = TakenOn(r, w)
          BY <3>1, <4>1 DEF Payments
        <4> QED BY <3>2, <4>1, <4>2
      <3> QED BY <3>1, <3>3
    <2>2. CASE CallTimesOut(r)
      BY <1>1, <2>2, SamePayments DEF CallTimesOut
    <2>3. CASE \E c \in vendor : c.waits /\ c.by = r /\ issue_refund(c)
      BY <1>1, <2>3, SamePayments
    <2>4. CASE \E fault \in Fault \cup {"none"} : CallTool(r, fault)
      BY <1>1, <2>4, SamePayments DEF CallTool
    <2> QED BY <2>1, <2>2, <2>3, <2>4 DEF Calls
  <1> QED BY <1>1, <1>2, <1>3, <1>4, <1>5, <1>6

(* The refund a call is answered with is one of that order and amount.     *)
LEMMA AnswerIsShown ==
  ASSUME ReceiptInv, [Next]_vars, NEW r \in Replica, Calls(r), exec[r].st.asks = 0,
         exec'[r].at = "tool answered", exec'[r].ret.status = "ok"
  PROVE  Shown(refunds', [tool |-> exec[r].st.tool, args |-> exec[r].st.args,
                          receipt |-> exec'[r].ret.receipt])
  <1> DEFINE inv == exec[r]
             key == inv.st.approval_id
             receipt == exec'[r].ret.receipt
  <1> SUFFICES ASSUME inv.st.tool = RefundTool, inv.st.args.id \in KnownId
               PROVE  \E f \in refunds' : /\ f.n = receipt /\ f.id = inv.st.args.id
                                          /\ f.amount = inv.st.args.amount.value
    BY DEF Shown
  <1>1. inv \in Invocation /\ exec \in [Replica -> Invocation \cup {Idle}]
    BY CallsPass DEF Passes, ReceiptInv, RunInv, RunTyped, TypeOK
  <1>2. CASE \E fault \in Fault \cup {"none"} : CallTool(r, fault)
    <2>1. PICK fault \in Fault \cup {"none"} : CallTool(r, fault)
      BY <1>2
    <2>2. PICK n \in IF Enforced(inv, fault) = "ok" THEN Receipts(inv.st) ELSE {NoReceipt} :
            exec' = [exec EXCEPT ![r] = [inv EXCEPT
              !.at = "tool answered",
              !.ret = [status |-> IF fault = "lost answer" THEN "error"
                                  ELSE Enforced(inv, fault),
                       receipt |-> n, id |-> NoKey]]]
      BY <2>1 DEF CallTool
    <2> DEFINE status == IF fault = "lost answer" THEN "error" ELSE Enforced(inv, fault)
               ret == [status |-> status, receipt |-> n, id |-> NoKey]
    <2>3. exec'[r].ret = ret
      BY <1>1, <2>2 DEF Invocation
    <2>4. Enforced(inv, fault) = "ok" /\ receipt = n
      <3> HIDE DEF status
      <3>1. ret.status = status /\ ret.receipt = n
        OBVIOUS
      <3> HIDE DEF ret
      <3>2. status = "ok" /\ receipt = n
        BY <2>3, <3>1
      <3> QED BY <3>2 DEF status
    <2>5. IssuedUnder(key) # {}
      BY <2>1, <2>4 DEF CallTool, IsNewRefund
    <2>6. PICK f \in IssuedUnder(key) : f.n = n
      BY <2>2, <2>4, <2>5 DEF Receipts
    <2>7. f \in refunds /\ f.key = key /\ key # NoKey
      BY <2>6 DEF IssuedUnder
    <2>8. /\ Names(approvals, key, inv.st) /\ key = Key(inv.thread) /\ inv.thread \in Thread
          /\ ckpt[inv.thread].st.asks = 0 /\ refunds \subseteq refunds'
      BY <2>7, CallFacts
    <2> DEFINE p == [key |-> f.key, id |-> f.id, amount |-> f.amount]
    <2>9. p \in Payments /\ p.key = key
      BY <2>7 DEF Payments
    <2>10. p.id = approvals[key].request.args.id
           /\ p.amount = approvals[key].request.args.amount.value
      BY <2>7, <2>8, <2>9 DEF ReceiptInv, ThreadInv, PaidAsAsked
    <2>11. f.id = inv.st.args.id /\ f.amount = inv.st.args.amount.value
      BY <2>8, <2>10 DEF Names
    <2> QED BY <2>4, <2>6, <2>7, <2>8, <2>11
  <1>3. CASE \E c \in vendor : c.waits /\ c.by = r /\ issue_refund(c)
    <2>1. PICK c \in vendor : c.waits /\ c.by = r /\ issue_refund(c)
      BY <1>3
    <2>2. c.id = inv.st.args.id /\ c.amount = inv.st.args.amount.value
      BY <2>1, CoerceKeepsValue DEF ReceiptInv, RunInv, CallersWait
    <2>3. Issued(c) \in refunds'
      BY <2>1 DEF issue_refund, Issued
    <2>4. exec' = [exec EXCEPT ![r] = [inv EXCEPT
            !.at = "tool answered", !.ret = [status |-> "ok", receipt |-> seq, id |-> NoKey]]]
      BY <2>1 DEF issue_refund
    <2>5. receipt = seq
      BY <1>1, <2>4 DEF Invocation
    <2>6. Issued(c).n = seq /\ Issued(c).id = c.id /\ Issued(c).amount = c.amount
      BY DEF Issued
    <2> QED BY <2>2, <2>3, <2>5, <2>6
  <1>4. CASE \E fault \in Fault \cup {"none"}, w \in Worker : CallVendor(r, fault, w)
    <2>1. exec' = [exec EXCEPT ![r] = [inv EXCEPT !.at = "refunding"]]
      BY <1>4 DEF CallVendor
    <2> QED BY <1>1, <2>1 DEF Invocation
  <1>5. CASE CallTimesOut(r)
    <2>1. exec' = [exec EXCEPT ![r] = [inv EXCEPT
            !.at = "tool answered", !.ret = [NoReturn EXCEPT !.status = "error"]]]
      BY <1>5 DEF CallTimesOut
    <2>2. exec'[r].ret = [NoReturn EXCEPT !.status = "error"]
      BY <1>1, <2>1 DEF Invocation
    <2> QED BY <2>2 DEF NoReturn
  <1> QED BY <1>2, <1>3, <1>4, <1>5 DEF Calls

(* The call keeps what the threads, the ledger and the store say.          *)
LEMMA CallThreads ==
  ASSUME ReceiptInv, [Next]_vars, NEW r \in Replica, Calls(r)
  PROVE  ThreadInv'
  <1> DEFINE inv == exec[r]
  <1>1. approvals' = approvals /\ ckpt' = ckpt
    BY CallFacts DEF Passes
  <1>2. \A t \in Thread : Key(t)' = Key(t)
    BY <1>1 DEF Key
  <1>3. /\ inv.thread \in Thread /\ inv.st = ckpt[inv.thread].st
        /\ refunds \subseteq refunds'
        /\ inv.st.approval_id = Key(inv.thread)
    BY CallFacts
  <1>4. KeysAreStored'
    <2>1. \A f \in Payments' \ Payments : f.key = Key(inv.thread)
      BY <1>3, CallFacts
    <2> HIDE DEF inv
    <2> QED BY <1>1, <1>2, <1>3, <2>1 DEF ReceiptInv, ThreadInv, KeysAreStored
  <1>5. KeysAreApart'
    BY <1>2 DEF ReceiptInv, ThreadInv, KeysAreApart
  <1>6. PaidAsAsked'
    <2> SUFFICES ASSUME NEW t \in Thread, NEW f \in Payments', ckpt[t].st.asks = 0,
                        Key(t) # NoKey, f.key = Key(t)
                 PROVE  /\ f.id = approvals[f.key].request.args.id
                        /\ f.amount = approvals[f.key].request.args.amount.value
      BY <1>1, <1>2 DEF PaidAsAsked
    <2>1. CASE f \in Payments
      BY <2>1 DEF ReceiptInv, ThreadInv, PaidAsAsked
    <2>2. CASE f \notin Payments
      <3>1. /\ f.id = inv.st.args.id /\ f.amount = inv.st.args.amount.value
            /\ f.key = inv.st.approval_id
        BY <2>2, CallFacts
      <3>2. t = inv.thread
        BY <1>3, <3>1 DEF ReceiptInv, ThreadInv, KeysAreApart
      <3>3. inv.st.asks = 0 /\ inv.st.approval_id # NoKey
        BY <1>3, <3>1, <3>2
      <3>4. Names(approvals, inv.st.approval_id, inv.st)
        BY <3>3, CallFacts
      <3> HIDE DEF inv
      <3> QED BY <3>1, <3>4 DEF Names
    <2> QED BY <2>1, <2>2
  <1>7. StepsAreShown'
    <2> SUFFICES ASSUME NEW t \in Thread, ckpt[t].st.asks = 0,
                        NEW i \in DOMAIN ckpt[t].st.observations
                 PROVE  Shown(refunds', ckpt[t].st.observations[i])
      BY <1>1 DEF StepsAreShown
    <2>1. Shown(refunds, ckpt[t].st.observations[i])
      BY DEF ReceiptInv, ThreadInv, StepsAreShown
    <2> QED BY <1>3, <2>1, ShownStays
  <1> QED BY <1>4, <1>5, <1>6, <1>7 DEF ThreadInv

(* And what the invocations add.                                           *)
LEMMA CallWork ==
  ASSUME ReceiptInv, [Next]_vars, NEW r \in Replica, Calls(r)
  PROVE  WorkInv'
  <1>1. WorkInv /\ ckpt' = ckpt
    BY CallFacts DEF ReceiptInv, Passes
  <1>2. /\ exec[r] # Idle /\ refunds \subseteq refunds'
        /\ exec[r].thread \in Thread
        /\ exec[r].st.approval_id = Key(exec[r].thread)
    BY CallFacts
  <1>5. /\ \A q \in Replica : q # r => exec'[q] = exec[q]
        /\ exec'[r].at \in {"refunding", "tool answered"} /\ exec'[r].st = exec[r].st
        /\ exec'[r].thread = exec[r].thread
    BY CallFacts DEF Passes
  <1>6. OneAtWork'
    <2> SUFFICES ASSUME NEW p \in Replica, NEW q \in Replica, exec'[p] # Idle,
                        exec'[q] # Idle, exec'[p].thread = exec'[q].thread
                 PROVE  p = q
      BY DEF OneAtWork
    <2>1. /\ exec[p] # Idle /\ exec[p].thread = exec'[p].thread
          /\ exec[q] # Idle /\ exec[q].thread = exec'[q].thread
      BY <1>2, <1>5
    <2> QED BY <1>1, <2>1 DEF WorkInv, OneAtWork
  <1>7. InStep'
    BY <1>1, <1>2, <1>5 DEF WorkInv, InStep
  <1>8. NewKeysAreFresh'
    <2>1. \A f \in Payments' : f \in Payments \/ f.key = Key(exec[r].thread)
      BY <1>2, CallFacts
    <2>2. \A t \in Thread : Key(t)' = Key(t)
      BY <1>1 DEF Key
    <2> SUFFICES ASSUME NEW q \in Replica, exec'[q].at = "approval created"
                 PROVE  /\ \A t \in Thread : Key(t) # exec'[q].ret.id
                        /\ \A f \in Payments' : f.key # exec'[q].ret.id
                        /\ \A o \in Replica : exec'[o].at = "approval created"
                             /\ exec'[o].ret.id = exec'[q].ret.id => o = q
      BY <2>2 DEF NewKeysAreFresh
    <2>3. q # r /\ exec'[q] = exec[q]
      BY <1>5
    <2>4. /\ \A t \in Thread : Key(t) # exec[q].ret.id
          /\ \A f \in Payments : f.key # exec[q].ret.id
          /\ \A o \in Replica : exec[o].at = "approval created"
               /\ exec[o].ret.id = exec[q].ret.id => o = q
      BY <1>1, <2>3 DEF WorkInv, NewKeysAreFresh
    <2>5. \A o \in Replica : exec'[o].at = "approval created" => exec'[o] = exec[o]
      BY <1>5
    <2> QED BY <1>2, <2>1, <2>3, <2>4, <2>5
  <1>9. AnswersAreShown'
    <2> SUFFICES ASSUME NEW q \in Replica, exec'[q].at = "tool answered",
                        exec'[q].ret.status = "ok", exec'[q].st.asks = 0
                 PROVE  Shown(refunds', [tool |-> exec'[q].st.tool, args |-> exec'[q].st.args,
                                         receipt |-> exec'[q].ret.receipt])
      BY DEF AnswersAreShown
    <2>1. CASE q = r
      BY <1>5, <2>1, AnswerIsShown
    <2>2. CASE q # r
      <3>1. exec'[q] = exec[q]
        BY <1>5, <2>2
      <3> DEFINE o == [tool |-> exec[q].st.tool, args |-> exec[q].st.args,
                       receipt |-> exec[q].ret.receipt]
      <3>2. Shown(refunds, o)
        BY <1>1, <3>1 DEF WorkInv, AnswersAreShown
      <3> HIDE DEF o
      <3>3. Shown(refunds', o)
        BY <1>2, <3>2, ShownStays
      <3> USE DEF o
      <3> QED BY <3>1, <3>3
    <2> QED BY <2>1, <2>2
  <1> QED BY <1>6, <1>7, <1>8, <1>9 DEF WorkInv

(* Finishing a node leaves the ledger and the vendor alone.                *)
LEMMA OthersLeaveTheLedger ==
  ASSUME NEW r \in Replica, Step(r), ~Calls(r)
  PROVE  UNCHANGED <<vendor, refunds>>
  BY DEF Step, Calls, PlanCall, PlanClarify, PlanNothing, RepeatCall, ToolAnswered,
         CreateApproval, ApprovalCreated, CreateFails, AwaitDecision, AskClarification

(* A step that finishes a node, in the terms of the invariant: the thread  *)
(* names nothing, what it named, or the approval just stored for it.       *)
LEMMA MoveFacts ==
  ASSUME ReceiptInv, NEW r \in Replica, NEW st \in AgentState,
         NEW next \in Node \cup {"END"}, Moves(r, st, next)
  PROVE  /\ exec[r] # Idle /\ exec[r].thread \in Thread
         /\ exec[r].st = ckpt[exec[r].thread].st
         /\ st.asks = 0 => ckpt[exec[r].thread].st.asks = 0
         /\ \/ st.approval_id \in {NoKey, Key(exec[r].thread)}
            \/ exec[r].at = "approval created" /\ st.approval_id = exec[r].ret.id
         /\ st.approval_id # NoKey => /\ st.approval_id \in ApprovalId
                                      /\ approvals[st.approval_id] # NoApproval
  <1>1. exec[r] \in Invocation /\ TypeOK
    BY DEF Moves, ReceiptInv, RunInv, RunTyped
  <1>2. exec[r] # Idle
    <2>1. exec[r].at \in Place /\ Idle.at = "idle"
      BY <1>1, InvocationFields DEF Idle
    <2>2. "idle" \notin Place
      BY DEF Place, Node
    <2> QED BY <2>1, <2>2
  <1>3. exec[r].thread \in Thread /\ exec[r].st = ckpt[exec[r].thread].st
    BY <1>1, <1>2, InvocationFields DEF ReceiptInv, WorkInv, InStep
  <1>4. st.asks = 0 => ckpt[exec[r].thread].st.asks = 0
    BY <1>3 DEF Moves
  <1>5. \/ st.approval_id \in {NoKey, Key(exec[r].thread)}
        \/ exec[r].at = "approval created" /\ st.approval_id = exec[r].ret.id
    BY <1>3 DEF Moves, Key
  <1>6. st.approval_id # NoKey => /\ st.approval_id \in ApprovalId
                                  /\ approvals[st.approval_id] # NoApproval
    <2>1. st.approval_id \in ApprovalId \cup {NoKey}
      BY StateFields
    <2>2. CASE exec[r].at = "approval created" /\ st.approval_id = exec[r].ret.id
      BY <2>2 DEF ReceiptInv, HoldInv, Names
    <2>3. CASE st.approval_id \in {NoKey, Key(exec[r].thread)}
      BY <1>3, <2>1, <2>3 DEF ReceiptInv, ThreadInv, KeysAreStored
    <2> QED BY <1>5, <2>2, <2>3
  <1> QED BY <1>2, <1>3, <1>4, <1>5, <1>6

(* What the run has observed after a node is in the ledger.                *)
LEMMA MovedIsShown ==
  ASSUME ReceiptInv, NEW r \in Replica, NEW st \in AgentState,
         NEW next \in Node \cup {"END"}, Moves(r, st, next), st.asks = 0,
         NEW i \in DOMAIN st.observations
  PROVE  Shown(refunds, st.observations[i])
  <1> DEFINE inv == exec[r]
             t == exec[r].thread
             old == inv.st.observations
             o == [tool |-> inv.st.tool, args |-> inv.st.args, receipt |-> inv.ret.receipt]
  <1>1. t \in Thread /\ inv.st = ckpt[t].st /\ ckpt[t].st.asks = 0
    BY MoveFacts
  <1>2. \A j \in DOMAIN old : Shown(refunds, old[j])
    BY <1>1 DEF ReceiptInv, ThreadInv, StepsAreShown
  <1>3. CASE st.observations = old
    BY <1>2, <1>3
  <1>4. CASE /\ inv.at = "tool answered" /\ inv.ret.status = "ok"
             /\ st.observations = Append(old, o)
    <2>1. Shown(refunds, o)
      BY <1>1, <1>4 DEF ReceiptInv, WorkInv, AnswersAreShown
    <2>2. inv \in Invocation
      BY DEF Moves
    <2>3. old \in Seq(Observation)
      BY <2>2, InvocationFields, StateFields
    <2>4. o \in Observation
      <3>1. inv.st \in AgentState /\ inv.ret \in Return
        BY <2>2, InvocationFields
      <3>2. inv.st.tool \in Catalogue
        BY <1>4 DEF ReceiptInv, RunInv, RunTyped, ToolIsChosen, Place, Node
      <3> QED BY <3>1, <3>2, StateFields DEF Observation, Return
    <2> HIDE DEF o, old
    <2>5. i \in DOMAIN old \/ st.observations[i] = o
      <3>1. Len(old) \in Nat /\ DOMAIN old = 1..Len(old)
        BY <2>3
      <3>2. DOMAIN Append(old, o) = 1..(Len(old) + 1) /\ Append(old, o)[Len(old) + 1] = o
        BY <2>3, <2>4, AppendProperties
      <3>3. i \in 1..(Len(old) + 1)
        BY <1>4, <3>2
      <3>4. i \in 1..Len(old) \/ i = Len(old) + 1
        BY <3>1, <3>3
      <3> QED BY <1>4, <3>1, <3>2, <3>4
    <2>6. i \in DOMAIN old => st.observations[i] = old[i]
      <3>1. DOMAIN old = 1..Len(old)
        BY <2>3
      <3>2. \A j \in 1..Len(old) : Append(old, o)[j] = old[j]
        BY <2>3, <2>4, AppendProperties
      <3> QED BY <1>4, <3>1, <3>2
    <2> QED BY <1>2, <2>1, <2>5, <2>6
  <1> QED BY <1>3, <1>4 DEF Moves

(* Finishing a node keeps what the threads, the ledger and the store say.  *)
LEMMA MovedThreads ==
  ASSUME ReceiptInv, [Next]_vars, NEW r \in Replica, Moved(r),
         UNCHANGED <<vendor, refunds>>
  PROVE  ThreadInv'
  <1>1. PICK st \in AgentState, next \in Node \cup {"END"} : Moves(r, st, next)
    BY DEF Moved
  <1>2. PICK th \in Thread : th = exec[r].thread
    BY <1>1, MoveFacts
  <1>3. RunInv /\ ThreadInv /\ WorkInv
    BY DEF ReceiptInv
  <1>4. \A t \in Thread :
          ckpt'[t] = IF t = th THEN [next |-> next, st |-> st] ELSE ckpt[t]
    BY <1>1, <1>2, <1>3, MovesTo
  <1>5. /\ th \in Thread
        /\ st.asks = 0 => ckpt[th].st.asks = 0
        /\ \/ st.approval_id \in {NoKey, Key(th)}
           \/ exec[r].at = "approval created" /\ st.approval_id = exec[r].ret.id
        /\ st.approval_id # NoKey => /\ st.approval_id \in ApprovalId
                                     /\ approvals[st.approval_id] # NoApproval
    BY <1>1, <1>2, MoveFacts
  <1>6. /\ ckpt'[th].st = st /\ Key(th)' = st.approval_id
        /\ \A t \in Thread : t # th => ckpt'[t] = ckpt[t] /\ Key(t)' = Key(t)
    <2>1. ckpt'[th] = [next |-> next, st |-> st]
      BY <1>4
    <2>2. ckpt'[th].st = st
      BY <2>1
    <2>3. \A t \in Thread : t # th => ckpt'[t] = ckpt[t]
      BY <1>4
    <2> QED BY <2>2, <2>3 DEF Key
  <1>7. \A id \in ApprovalId : approvals[id] # NoApproval =>
          approvals'[id] # NoApproval /\ approvals'[id].request = approvals[id].request
    BY <1>3, RowsAreKept DEF RowIsKept
  <1>8. /\ \A t \in Thread : Key(t) \in ApprovalId \cup {NoKey}
        /\ \A f \in Payments : f.key \in ApprovalId \cup {NoKey}
        /\ Payments' = Payments
    BY <1>3, StateFields, PaymentKeys, SamePayments DEF Key, RunInv, RunTyped, TypeOK, Checkpoint
  <1>9. \A f \in Payments : f.key = st.approval_id /\ st.approval_id # NoKey =>
                             st.approval_id = Key(th)
    BY <1>3, <1>5 DEF WorkInv, NewKeysAreFresh
  <1>10. \A t \in Thread : Key(t) = st.approval_id /\ st.approval_id # NoKey => t = th
    BY <1>3, <1>5 DEF WorkInv, NewKeysAreFresh, ThreadInv, KeysAreApart
  <1>11. KeysAreStored'
    <2>1. \A t \in Thread : Key(t)' # NoKey => approvals'[Key(t)'] # NoApproval
      <3> SUFFICES ASSUME NEW t \in Thread, Key(t)' # NoKey
                   PROVE  approvals'[Key(t)'] # NoApproval
        OBVIOUS
      <3>1. CASE t = th
        BY <1>5, <1>6, <1>7, <3>1
      <3>2. CASE t # th
        <4>1. Key(t)' = Key(t) /\ Key(t) \in ApprovalId /\ approvals[Key(t)] # NoApproval
          BY <1>3, <1>6, <1>8, <3>2 DEF ThreadInv, KeysAreStored
        <4> QED BY <1>7, <4>1
      <3> QED BY <3>1, <3>2
    <2>2. \A f \in Payments : f.key # NoKey => approvals'[f.key] # NoApproval
      BY <1>3, <1>7, <1>8 DEF ThreadInv, KeysAreStored
    <2> QED BY <1>8, <2>1, <2>2 DEF KeysAreStored
  <1>12. KeysAreApart'
    <2> SUFFICES ASSUME NEW t \in Thread, NEW u \in Thread, Key(t)' = Key(u)', Key(t)' # NoKey
                 PROVE  t = u
      BY DEF KeysAreApart
    <2>1. CASE t = th
      BY <1>6, <1>10, <2>1
    <2>2. CASE u = th
      BY <1>6, <1>10, <2>2
    <2>3. CASE t # th /\ u # th
      BY <1>3, <1>6, <2>3 DEF ThreadInv, KeysAreApart
    <2> QED BY <2>1, <2>2, <2>3
  <1>13. PaidAsAsked'
    <2> SUFFICES ASSUME NEW t \in Thread, NEW f \in Payments, ckpt'[t].st.asks = 0,
                        Key(t)' # NoKey, f.key = Key(t)'
                 PROVE  /\ f.id = approvals'[f.key].request.args.id
                        /\ f.amount = approvals'[f.key].request.args.amount.value
      BY <1>8 DEF PaidAsAsked
    <2>1. Key(t)' = Key(t) /\ ckpt[t].st.asks = 0
      <3>1. CASE t = th
        BY <1>5, <1>6, <1>9, <3>1
      <3>2. CASE t # th
        BY <1>6, <3>2
      <3> QED BY <3>1, <3>2
    <2>2. f.key \in ApprovalId /\ approvals[f.key] # NoApproval
      BY <1>3, <1>8, <2>1 DEF ThreadInv, KeysAreStored
    <2>3. /\ f.id = approvals[f.key].request.args.id
          /\ f.amount = approvals[f.key].request.args.amount.value
      BY <1>3, <2>1 DEF ThreadInv, PaidAsAsked
    <2> QED BY <1>7, <2>2, <2>3
  <1>14. StepsAreShown'
    <2> SUFFICES ASSUME NEW t \in Thread, ckpt'[t].st.asks = 0,
                        NEW i \in DOMAIN ckpt'[t].st.observations
                 PROVE  Shown(refunds, ckpt'[t].st.observations[i])
      BY DEF StepsAreShown
    <2>1. CASE t = th
      BY <1>1, <1>6, <2>1, MovedIsShown
    <2>2. CASE t # th
      BY <1>3, <1>6, <2>2 DEF ThreadInv, StepsAreShown
    <2> QED BY <2>1, <2>2
  <1> QED BY <1>11, <1>12, <1>13, <1>14 DEF ThreadInv

(* And what the invocations add.                                           *)
LEMMA MovedWork ==
  ASSUME ReceiptInv, [Next]_vars, NEW r \in Replica, Moved(r),
         UNCHANGED <<vendor, refunds>>
  PROVE  WorkInv'
  <1>1. PICK st \in AgentState, next \in Node \cup {"END"} : Moves(r, st, next)
    BY DEF Moved
  <1>2. PICK th \in Thread : th = exec[r].thread
    BY <1>1, MoveFacts
  <1>3. RunInv /\ ThreadInv /\ WorkInv /\ TypeOK /\ Payments' = Payments
    BY SamePayments DEF ReceiptInv, RunInv, RunTyped
  <1>4. /\ \A t \in Thread :
             ckpt'[t] = IF t = th THEN [next |-> next, st |-> st] ELSE ckpt[t]
        /\ \A q \in Replica : q # r => exec'[q] = exec[q]
    BY <1>1, <1>2, <1>3, MovesTo
  <1>5. /\ exec[r] # Idle /\ th \in Thread
        /\ \/ st.approval_id \in {NoKey, Key(th)}
           \/ exec[r].at = "approval created" /\ st.approval_id = exec[r].ret.id
    BY <1>1, <1>2, MoveFacts
  <1>6. \/ exec'[r] = Idle
        \/ /\ exec'[r].at = next /\ exec'[r].st = st /\ exec'[r].ret = NoReturn
           /\ exec'[r].thread = th
    <2>1. \/ exec'[r] = Idle
          \/ /\ exec'[r].at = next /\ exec'[r].st = st /\ exec'[r].ret = NoReturn
             /\ exec'[r].thread = exec[r].thread
      BY <1>1, <1>3, MovesTo
    <2> QED BY <1>2, <2>1
  <1>7. exec'[r].at \notin {"approval created", "tool answered"}
    <2>1. CASE exec'[r] = Idle
      BY <2>1 DEF Idle
    <2>2. CASE exec'[r].at = next
      BY <2>2 DEF Node
    <2> QED BY <1>6, <2>1, <2>2
  <1>8. /\ ckpt'[th].st = st /\ Key(th)' = st.approval_id
        /\ \A t \in Thread : t # th => ckpt'[t] = ckpt[t] /\ Key(t)' = Key(t)
    <2>1. ckpt'[th] = [next |-> next, st |-> st]
      BY <1>4
    <2>2. ckpt'[th].st = st
      BY <2>1
    <2>3. \A t \in Thread : t # th => ckpt'[t] = ckpt[t]
      BY <1>4
    <2> QED BY <2>2, <2>3 DEF Key
  <1>9. \A q \in Replica : q # r /\ exec[q] # Idle => exec[q].thread \in Thread \ {th}
    BY <1>2, <1>3, <1>5, IdleOrWorking DEF WorkInv, OneAtWork
  <1>10. OneAtWork'
    <2> SUFFICES ASSUME NEW p \in Replica, NEW q \in Replica, exec'[p] # Idle,
                        exec'[q] # Idle, exec'[p].thread = exec'[q].thread
                 PROVE  p = q
      BY DEF OneAtWork
    <2>1. /\ exec[p] # Idle /\ exec[p].thread = exec'[p].thread
          /\ exec[q] # Idle /\ exec[q].thread = exec'[q].thread
      BY <1>2, <1>4, <1>5, <1>6
    <2> QED BY <1>3, <2>1 DEF WorkInv, OneAtWork
  <1>11. InStep'
    <2> SUFFICES ASSUME NEW q \in Replica, exec'[q] # Idle
                 PROVE  exec'[q].st = ckpt'[exec'[q].thread].st
      BY DEF InStep
    <2>1. CASE q = r
      BY <1>6, <1>8, <2>1
    <2>2. CASE q # r
      <3>1. exec'[q] = exec[q] /\ exec[q].thread \in Thread \ {th}
        BY <1>4, <1>9, <2>2
      <3> QED BY <1>3, <1>8, <3>1 DEF WorkInv, InStep
    <2> QED BY <2>1, <2>2
  <1>12. NewKeysAreFresh'
    <2> SUFFICES ASSUME NEW q \in Replica, exec'[q].at = "approval created"
                 PROVE  /\ \A t \in Thread : Key(t)' # exec'[q].ret.id
                        /\ \A f \in Payments : f.key # exec'[q].ret.id
                        /\ \A o \in Replica : exec'[o].at = "approval created"
                             /\ exec'[o].ret.id = exec'[q].ret.id => o = q
      BY <1>3 DEF NewKeysAreFresh
    <2>1. q # r /\ exec'[q] = exec[q]
      BY <1>4, <1>7
    <2>2. /\ \A t \in Thread : Key(t) # exec[q].ret.id
          /\ \A f \in Payments : f.key # exec[q].ret.id
          /\ \A o \in Replica : exec[o].at = "approval created"
               /\ exec[o].ret.id = exec[q].ret.id => o = q
      BY <1>3, <2>1 DEF WorkInv, NewKeysAreFresh
    <2>3. \A o \in Replica : exec'[o].at = "approval created" => exec'[o] = exec[o]
      BY <1>4, <1>7
    <2>4. st.approval_id # exec[q].ret.id
      <3>1. exec[q].ret.id # NoKey
        BY <2>1, AgentRunAssumption DEF ReceiptInv, HoldInv, Names
      <3> QED BY <1>5, <2>1, <2>2, <3>1
    <2>5. \A t \in Thread : Key(t)' # exec[q].ret.id
      BY <1>8, <2>2, <2>4
    <2> QED BY <2>1, <2>2, <2>3, <2>5
  <1>13. AnswersAreShown'
    <2> SUFFICES ASSUME NEW q \in Replica, exec'[q].at = "tool answered",
                        exec'[q].ret.status = "ok", exec'[q].st.asks = 0
                 PROVE  Shown(refunds, [tool |-> exec'[q].st.tool, args |-> exec'[q].st.args,
                                        receipt |-> exec'[q].ret.receipt])
      BY DEF AnswersAreShown
    <2>1. exec'[q] = exec[q]
      BY <1>4, <1>7
    <2> QED BY <1>3, <2>1 DEF WorkInv, AnswersAreShown
  <1> QED BY <1>10, <1>11, <1>12, <1>13 DEF WorkInv

-----------------------------------------------------------------------------
(* Nothing is named, paid or observed to begin with.                       *)
LEMMA ReceiptInit == Init => ReceiptInv
  <1> SUFFICES ASSUME Init PROVE ReceiptInv
    OBVIOUS
  <1>1. RunInv /\ HoldInv
    BY RunInit, HoldInit
  <1>2. /\ \A t \in Thread : ckpt[t].st = NewState
        /\ \A r \in Replica : exec[r] = Idle
        /\ refunds = {} /\ Payments = {}
    BY DEF Init, Unstarted, Payments
  <1>3. NewState.approval_id = NoKey /\ NewState.observations = <<>> /\ Idle.at = "idle"
    BY DEF NewState, Idle
  <1>4. DOMAIN NewState.observations = {}
    BY <1>3
  <1>5. \A t \in Thread : Key(t) = NoKey
    BY <1>2, <1>3 DEF Key
  <1>6. ThreadInv
    BY <1>2, <1>4, <1>5 DEF ThreadInv, KeysAreStored, KeysAreApart, PaidAsAsked, StepsAreShown
  <1>7. WorkInv
    BY <1>2, <1>3 DEF WorkInv, OneAtWork, InStep, NewKeysAreFresh, AnswersAreShown
  <1> QED BY <1>1, <1>6, <1>7 DEF ReceiptInv

(* Every step keeps it, unless a run is resumed while it is worked on.     *)
LEMMA ReceiptNext ==
  ASSUME MaxOverlaps = 0 PROVE ReceiptInv /\ [Next]_vars => ReceiptInv'
  <1> SUFFICES ASSUME ReceiptInv, [Next]_vars PROVE ReceiptInv'
    OBVIOUS
  <1>1. RunInv' /\ HoldInv'
    BY RunNext, HoldNext DEF ReceiptInv
  <1>2. ASSUME NEW r \in Replica, Step(r) PROVE ThreadInv' /\ WorkInv'
    <2>1. CASE Calls(r)
      BY <2>1, CallThreads, CallWork
    <2>2. CASE \E id \in ApprovalId : CreateApproval(r, id)
      BY <2>2, CreateReceipts
    <2>3. CASE Moved(r) /\ ~Calls(r)
      BY <1>2, <2>3, OthersLeaveTheLedger, MovedThreads, MovedWork
    <2> QED BY <1>2, <2>1, <2>2, <2>3, GraphStep DEF ReceiptInv
  <1>3. ASSUME \/ \E r \in Replica, t \in Thread, u \in Person : Run(r, t, u)
               \/ \E r \in Replica, t \in Thread, u \in Person, a \in Answer :
                    Resume(r, t, u, a)
               \/ \E r \in Replica : Restart(r)
        PROVE  ThreadInv' /\ WorkInv'
    BY <1>3, RequestReceipts
  <1>4. ASSUME \/ \E id \in ApprovalId, p \in Person, yes \in BOOLEAN :
                    ManagerDecides(id, p, yes)
               \/ \E c \in vendor : ~c.waits /\ issue_refund(c)
               \/ UNCHANGED vars
        PROVE  ThreadInv' /\ WorkInv'
    <2>1. exec' = exec /\ ckpt' = ckpt
          /\ (UNCHANGED <<vendor, refunds>> \/ \E c \in vendor : issue_refund(c))
      BY <1>4 DEF ManagerDecides, issue_refund, agentVars, vars
    <2>2. Quiet
      BY <2>1, SamePayments DEF ReceiptInv, RunInv, RunTyped, Quiet
    <2> QED BY <2>1, <2>2, QuietThreads, QuietWork DEF ReceiptInv
  <1>5. ASSUME NEW w \in Worker, Pay(w) PROVE ThreadInv' /\ WorkInv'
    BY <1>4, <1>5, PayAnswers, CallThreads, CallWork DEF ReceiptInv
  <1>6. ThreadInv' /\ WorkInv'
    BY <1>2, <1>3, <1>4, <1>5 DEF Next
  <1> QED BY <1>1, <1>6 DEF ReceiptInv

(* What a run reports as done was done: each refund step's receipt is a    *)
(* refund of that order and that amount in the vendor's ledger, whatever   *)
(* was lost, held, resumed or restarted (graph.py's call_tool), as long as *)
(* nobody resumes a run that is still being worked on.                     *)
THEOREM ReceiptsAreTrue ==
  ASSUME MaxOverlaps = 0 PROVE Spec => []ReceiptMatchesCall
  <1>1. ReceiptInv => ReceiptMatchesCall
    BY DEF ReceiptInv, ThreadInv, StepsAreShown, Shown, ReceiptMatchesCall
  <1>2. ReceiptInv /\ [Next]_vars => ReceiptInv'
    BY ReceiptNext
  <1> QED BY ReceiptInit, <1>1, <1>2, PTL DEF Spec

-----------------------------------------------------------------------------
(* The managers' queue, for one run that nobody resumes while it is being  *)
(* worked on and no replica that stops. No two rows are pending at once:   *)
(* an approval is asked for only where none is (Tidy), since a run goes on *)
(* to another call only after one the server let through, and what the     *)
(* policy held once it never lets through on its own (IsHeld), whoever     *)
(* resumes the run.                                                        *)

Pending == {id \in ApprovalId : approvals[id].status = "pending"}

\* The calls the policy holds or denies, whoever makes them.
IsHeld(st) ==
  \/ st.tool \in PiiTools
  \/ st.tool = RefundTool /\ coerce_args(st.args).amount.value > AutoRefundLimit

\* What is pending while a run is at this place, with this state and answer.
Tidy(pending, at, st, ret) ==
  /\ at \in {"plan", "refunding", "ask_clarification", "create_approval"} => pending = {}
  /\ at \in {"create_approval", "approval created"} => IsHeld(st)
  /\ at = "approval created" => pending \subseteq {ret.id}
  /\ at \in {"call_tool", "tool answered", "await_decision"} =>
       pending \subseteq {st.approval_id} /\ (pending # {} => IsHeld(st))
  /\ at = "tool answered" =>
       /\ ret.status = "ok" => pending = {}
       /\ ret.status = "approval_required" => IsHeld(st)

OnePending == \A i, j \in Pending : i = j
WorkIsTidy ==
  \A r \in Replica : exec[r] # Idle => Tidy(Pending, exec[r].at, exec[r].st, exec[r].ret)
RestIsTidy ==
  \A t \in Thread : ~WorkedOn(t) =>
    /\ ckpt[t].next \notin {"plan", "call_tool", "create_approval"}
    /\ Tidy(Pending, ckpt[t].next, ckpt[t].st, NoReturn)
OneThread ==
  /\ \A t, u \in Thread : ckpt[t].next # "none" /\ ckpt[u].next # "none" => t = u
  /\ \A r \in Replica : exec[r] # Idle => ckpt[exec[r].thread].next # "none"
  /\ bounds.runs = 0 => Pending = {} /\ \A t \in Thread : ckpt[t].next = "none"

QueueInv == OnePending /\ WorkIsTidy /\ RestIsTidy /\ OneThread

(* Fewer rows are pending: what was tidy is.                               *)
LEMMA TidyWithFewer ==
  ASSUME NEW P, NEW Q \in SUBSET P, NEW at, NEW st, NEW ret, Tidy(P, at, st, ret)
  PROVE  Tidy(Q, at, st, ret)
  BY DEF Tidy

(* Nothing is pending: every place but the two of a new approval is tidy.  *)
LEMMA TidyWithNone ==
  ASSUME NEW at \in {"plan", "call_tool", "ask_clarification", "await_decision", "END"}, NEW st
  PROVE  Tidy({}, at, st, NoReturn)
  BY DEF Tidy

LEMMA TidyAtTheEnd == ASSUME NEW P, NEW st PROVE Tidy(P, "END", st, NoReturn)
  BY DEF Tidy

(* What the policy makes of a call depends on who makes it, but for what   *)
(* it holds: that is never let through on its own (authz.rego).            *)
LEMMA HeldByThePolicy ==
  ASSUME NEW inv, inv.st.args \in Arg
  PROVE  /\ decision(PolicyInput(inv)) = "allow" => ~IsHeld(inv.st)
         /\ decision(PolicyInput(inv)) = "require_approval" => IsHeld(inv.st)
  <1> DEFINE in == PolicyInput(inv)
             amount == coerce_args(inv.st.args).amount
  <1>1. in.tool = inv.st.tool /\ in.amount = amount
    BY DEF PolicyInput
  <1>2. amount.value \in Int
    BY CoerceType, ArgAmount
  <1> HIDE DEF in, amount
  <1>3. decision(in) = "allow" =>
          /\ in.tool \notin PiiTools
          /\ in.tool = RefundTool => ~GreaterThan(amount, AutoRefundLimit) /\ amount.kind = "number"
    BY <1>1 DEF decision, allow, is_positive_number, PiiTools, RefundTool
  <1>4. decision(in) = "require_approval" =>
          \/ in.tool \in PiiTools
          \/ in.tool = RefundTool /\ GreaterThan(amount, AutoRefundLimit) /\ amount.kind = "number"
    BY <1>1 DEF decision, needs_approval, is_positive_number
  <1>5. amount.kind = "number" => (GreaterThan(amount, AutoRefundLimit) <=> amount.value > AutoRefundLimit)
    BY DEF GreaterThan
  <1>6. AutoRefundLimit \in Int
    BY DEF AutoRefundLimit
  <1>7. IsHeld(inv.st) <=> \/ in.tool \in PiiTools
                           \/ in.tool = RefundTool /\ amount.value > AutoRefundLimit
    BY <1>1 DEF IsHeld, amount
  <1> QED BY <1>2, <1>3, <1>4, <1>5, <1>6, <1>7 DEF in

-----------------------------------------------------------------------------
(* A step that finishes a node and leaves things tidy.                     *)
TidyMove(r) ==
  \E st, next : /\ next \in Node \cup {"END"}
                /\ Advance(r, st, next)
                /\ Tidy(Pending', next, st, NoReturn)

LEMMA PlanIsTidy ==
  ASSUME RunInv, WorkIsTidy, NEW r \in Replica,
         \/ \E p \in Proposal, more \in BOOLEAN : PlanCall(r, p, more)
         \/ \E p \in Proposal : PlanClarify(r, p)
         \/ \E status \in {"refused", "error"} : PlanNothing(r, status)
  PROVE  TidyMove(r) /\ Pending' = Pending
  <1>1. exec[r].at = "plan" /\ approvals' = approvals
        /\ \E st : Advance(r, st, after_plan(st))
    BY DEF PlanCall, PlanClarify, PlanNothing
  <1>2. exec[r] # Idle
    BY <1>1 DEF Idle
  <1>3. Pending = {} /\ Pending' = Pending
    BY <1>1, <1>2 DEF WorkIsTidy, Tidy, Pending
  <1>4. PICK st : Advance(r, st, after_plan(st))
    BY <1>1
  <1>5. after_plan(st) \in {"ask_clarification", "call_tool", "END"}
    BY Routes
  <1>6. Tidy(Pending', after_plan(st), st, NoReturn)
    BY <1>3, <1>5, TidyWithNone
  <1>7. after_plan(st) \in Node \cup {"END"}
    BY <1>5 DEF Node
  <1> QED BY <1>3, <1>4, <1>6, <1>7 DEF TidyMove

LEMMA QuestionIsTidy ==
  ASSUME RunInv, WorkIsTidy, NEW r \in Replica, AskClarification(r)
  PROVE  TidyMove(r) /\ Pending' = Pending
  <1>1. exec[r].at = "ask_clarification" /\ approvals' = approvals
        /\ \E st : Advance(r, st, after_clarification(st))
    BY DEF AskClarification
  <1>2. exec[r] # Idle
    BY <1>1 DEF Idle
  <1>3. Pending = {} /\ Pending' = Pending
    BY <1>1, <1>2 DEF WorkIsTidy, Tidy, Pending
  <1>4. PICK st : Advance(r, st, after_clarification(st))
    BY <1>1
  <1>5. after_clarification(st) \in {"ask_clarification", "call_tool", "END"}
    BY Routes
  <1>6. Tidy(Pending', after_clarification(st), st, NoReturn)
    BY <1>3, <1>5, TidyWithNone
  <1>7. after_clarification(st) \in Node \cup {"END"}
    BY <1>5 DEF Node
  <1> QED BY <1>3, <1>4, <1>6, <1>7 DEF TidyMove

(* The fields of a state that a decision or an answer leaves alone.        *)
LEMMA SameCallIsHeld ==
  ASSUME NEW st, NEW old, st.tool = old.tool, st.args = old.args, IsHeld(old)
  PROVE  IsHeld(st)
  BY DEF IsHeld

LEMMA DecisionIsTidy ==
  ASSUME RunInv, WorkIsTidy, NEW r \in Replica, AwaitDecision(r)
  PROVE  TidyMove(r) /\ Pending' = Pending
  <1> DEFINE old == exec[r].st
             st == [old EXCEPT !.status = IF exec[r].answer.yes THEN "approved" ELSE "denied"]
  <1>1. exec[r].at = "await_decision" /\ approvals' = approvals /\ Advance(r, st, after_decision(st))
    BY DEF AwaitDecision
  <1>2. exec[r] # Idle /\ exec[r] \in Invocation
    BY <1>1, IdleOrWorking DEF RunInv, RunTyped
  <1>3. Pending' = Pending /\ Pending \subseteq {old.approval_id} /\ (Pending # {} => IsHeld(old))
    BY <1>1, <1>2 DEF WorkIsTidy, Tidy, Pending
  <1>4. st.tool = old.tool /\ st.args = old.args /\ st.approval_id = old.approval_id
    BY <1>2, InvocationFields, ZenonT(30) DEF AgentState
  <1> HIDE DEF st
  <1>5. Pending' \subseteq {st.approval_id} /\ (Pending' # {} => IsHeld(st))
    BY <1>3, <1>4, SameCallIsHeld
  <1>6. after_decision(st) \in {"call_tool", "END"}
    BY Routes
  <1>7. Tidy(Pending', after_decision(st), st, NoReturn)
    BY <1>5, <1>6 DEF Tidy
  <1>8. after_decision(st) \in Node \cup {"END"}
    BY <1>6 DEF Node
  <1> QED BY <1>1, <1>3, <1>7, <1>8 DEF TidyMove

LEMMA RepeatIsTidy ==
  ASSUME RunInv, NEW r \in Replica, RepeatCall(r)
  PROVE  TidyMove(r) /\ Pending' = Pending
  <1> DEFINE st == [exec[r].st EXCEPT !.status = "ok", !.final = TRUE]
  <1>1. exec[r].at = "call_tool" /\ approvals' = approvals /\ Advance(r, st, after_call(st))
    BY DEF RepeatCall
  <1>2. exec[r] \in Invocation
    BY <1>1, Working DEF RunInv, RunTyped
  <1>3. st.status = "ok" /\ st.final = TRUE
    BY <1>2, InvocationFields DEF AgentState
  <1> HIDE DEF st
  <1>4. after_call(st) = "END"
    BY <1>3 DEF after_call
  <1>5. Pending' = Pending
    BY <1>1 DEF Pending
  <1> QED BY <1>1, <1>4, <1>5, TidyAtTheEnd DEF TidyMove

LEMMA AnswerIsTidy ==
  ASSUME RunInv, WorkIsTidy, NEW r \in Replica, ToolAnswered(r)
  PROVE  TidyMove(r) /\ Pending' = Pending
  <1> DEFINE old == exec[r].st
             ret == exec[r].ret
             st == IF ret.status = "ok"
                   THEN [old EXCEPT !.status = "ok", !.steps = @ + 1,
                           !.observations = Append(@, [tool |-> old.tool, args |-> old.args,
                                                       receipt |-> ret.receipt]),
                           !.final = ~old.more]
                   ELSE [old EXCEPT !.status = ret.status, !.final = TRUE]
  <1>1. exec[r].at = "tool answered" /\ approvals' = approvals /\ Advance(r, st, after_call(st))
    BY DEF ToolAnswered
  <1>2. exec[r] # Idle /\ exec[r] \in Invocation
    BY <1>1, IdleOrWorking DEF RunInv, RunTyped
  <1>3. Tidy(Pending, exec[r].at, old, ret) /\ Pending' = Pending /\ NoKey \notin Pending
    BY <1>1, <1>2, AgentRunAssumption DEF WorkIsTidy, Pending
  <1>4. /\ Pending \subseteq {old.approval_id}
        /\ ret.status = "ok" => Pending = {}
        /\ ret.status = "approval_required" => IsHeld(old)
    BY <1>1, <1>3 DEF Tidy
  <1>5. old \in AgentState
    BY <1>2, InvocationFields
  <1>6. ret.status = "ok" => st.status = "ok"
    BY <1>5 DEF AgentState
  <1>7. ret.status # "ok" => /\ st.status = ret.status /\ st.final = TRUE
                             /\ st.tool = old.tool /\ st.args = old.args
                             /\ st.approval_id = old.approval_id
    BY <1>5 DEF AgentState
  <1> HIDE DEF st, ret, old
  <1>8. CASE ret.status = "ok"
    <2>1. after_call(st) \in {"plan", "END"}
      BY <1>6, <1>8 DEF after_call
    <2>2. Tidy(Pending', after_call(st), st, NoReturn)
      BY <1>3, <1>4, <1>8, <2>1, TidyWithNone
    <2>3. after_call(st) \in Node \cup {"END"}
      BY <2>1 DEF Node
    <2> QED BY <1>1, <1>3, <2>2, <2>3 DEF TidyMove
  <1>9. CASE ret.status = "approval_required"
    <2>1. IsHeld(st) /\ Pending' \subseteq {st.approval_id}
      BY <1>3, <1>4, <1>7, <1>9, SameCallIsHeld
    <2>2. \/ after_call(st) = "await_decision"
          \/ after_call(st) = "create_approval" /\ Pending' = {}
      BY <1>3, <1>7, <1>9, <2>1 DEF after_call
    <2>3. Tidy(Pending', after_call(st), st, NoReturn)
      BY <2>1, <2>2 DEF Tidy
    <2>4. after_call(st) \in Node \cup {"END"}
      BY <2>2 DEF Node
    <2> QED BY <1>1, <1>3, <2>3, <2>4 DEF TidyMove
  <1>10. CASE ret.status \notin {"ok", "approval_required"}
    <2>1. after_call(st) = "END"
      BY <1>7, <1>10 DEF after_call
    <2> QED BY <1>1, <1>3, <2>1, TidyAtTheEnd DEF TidyMove
  <1> QED BY <1>8, <1>9, <1>10

LEMMA NewApprovalIsTidy ==
  ASSUME RunInv, WorkIsTidy, NEW r \in Replica, ApprovalCreated(r)
  PROVE  TidyMove(r) /\ Pending' = Pending
  <1> DEFINE old == exec[r].st
             st == [old EXCEPT !.approval_id = exec[r].ret.id]
  <1>1. exec[r].at = "approval created" /\ approvals' = approvals /\ Advance(r, st, after_create(st))
    BY DEF ApprovalCreated
  <1>2. exec[r] # Idle /\ exec[r] \in Invocation
    BY <1>1, IdleOrWorking DEF RunInv, RunTyped
  <1>3. Pending' = Pending /\ Pending \subseteq {exec[r].ret.id} /\ IsHeld(old)
    BY <1>1, <1>2 DEF WorkIsTidy, Tidy, Pending
  <1>4. st.tool = old.tool /\ st.args = old.args /\ st.approval_id = exec[r].ret.id
    BY <1>2, InvocationFields, ZenonT(30) DEF AgentState
  <1> HIDE DEF st
  <1>5. Pending' \subseteq {st.approval_id} /\ IsHeld(st)
    BY <1>3, <1>4, SameCallIsHeld
  <1>6. after_create(st) \in {"await_decision", "END"}
    BY Routes
  <1>7. Tidy(Pending', after_create(st), st, NoReturn)
    BY <1>5, <1>6 DEF Tidy
  <1>8. after_create(st) \in Node \cup {"END"}
    BY <1>6 DEF Node
  <1> QED BY <1>1, <1>3, <1>7, <1>8 DEF TidyMove

(* A row that is created is the one more that is pending.                  *)
LEMMA CreatedIsPending ==
  ASSUME TypeOK, NEW id \in ApprovalId, NEW req, Create(id, req)
  PROVE  Pending' = Pending \cup {id}
  <1>1. approvals \in [ApprovalId -> Approval \cup {NoApproval}]
    BY DEF TypeOK, ApprovalsTypeOK
  <1>2. approvals'[id].status = "pending"
        /\ \A i \in ApprovalId : i # id => approvals'[i] = approvals[i]
    BY <1>1 DEF Create
  <1> QED BY <1>2 DEF Pending

LEMMA FailureIsTidy ==
  ASSUME RunInv, WorkIsTidy, NEW r \in Replica, NEW fault \in Fault, CreateFails(r, fault)
  PROVE  TidyMove(r) /\ OnePending'
  <1> DEFINE st == [exec[r].st EXCEPT !.status = "error"]
  <1>1. exec[r].at = "create_approval" /\ Advance(r, st, after_create(st))
        /\ (approvals' = approvals \/ \E id \in ApprovalId : Create(id, HeldRequest(exec[r])))
    BY DEF CreateFails
  <1>2. exec[r] # Idle /\ exec[r] \in Invocation
    BY <1>1, IdleOrWorking DEF RunInv, RunTyped
  <1>3. Pending = {}
    BY <1>1, <1>2 DEF WorkIsTidy, Tidy
  <1>4. st.status = "error"
    BY <1>2, InvocationFields DEF AgentState
  <1> HIDE DEF st
  <1>5. after_create(st) = "END"
    BY <1>4 DEF after_create
  <1>6. OnePending'
    <2>1. CASE approvals' = approvals
      BY <1>3, <2>1 DEF Pending, OnePending
    <2>2. ASSUME NEW id \in ApprovalId, Create(id, HeldRequest(exec[r])) PROVE OnePending'
      BY <1>3, <2>2, CreatedIsPending DEF OnePending, RunInv, RunTyped
    <2> QED BY <1>1, <2>1, <2>2
  <1> QED BY <1>1, <1>5, <1>6, TidyAtTheEnd DEF TidyMove

-----------------------------------------------------------------------------
(* There is one thread, and one replica that works on it.                  *)
LEMMA AloneAtWork ==
  ASSUME TypeOK, OneAtWork, OneThread, NEW r \in Replica, exec[r] # Idle
  PROVE  /\ exec[r].thread \in Thread /\ ckpt[exec[r].thread].next # "none"
         /\ \A q \in Replica : q # r => exec[q] = Idle
         /\ \A t \in Thread : t # exec[r].thread => ckpt[t].next = "none"
         /\ bounds.runs # 0
  <1>1. exec[r].thread \in Thread /\ ckpt[exec[r].thread].next # "none"
    BY IdleOrWorking DEF OneThread
  <1>2. \A q \in Replica : q # r => exec[q] = Idle
    <2> SUFFICES ASSUME NEW q \in Replica, exec[q] # Idle PROVE q = r
      OBVIOUS
    <2>1. exec[q].thread \in Thread /\ ckpt[exec[q].thread].next # "none"
      BY IdleOrWorking DEF OneThread
    <2>2. exec[q].thread = exec[r].thread
      BY <1>1, <2>1 DEF OneThread
    <2> QED BY <2>2 DEF OneAtWork
  <1>3. \A t \in Thread : t # exec[r].thread => ckpt[t].next = "none"
    BY <1>1 DEF OneThread
  <1>4. bounds.runs # 0
    BY <1>1 DEF OneThread
  <1> QED BY <1>1, <1>2, <1>3, <1>4

LEMMA TidyBeforeTheRun == ASSUME NEW P, NEW st PROVE Tidy(P, "none", st, NoReturn)
  BY DEF Tidy

(* Finishing a node keeps the invariant.                                   *)
LEMMA MovedQueue ==
  ASSUME RunInv, OneAtWork, QueueInv, NEW r \in Replica, exec[r] # Idle, TidyMove(r),
         OnePending', bounds' = bounds
  PROVE  QueueInv'
  <1>1. PICK st, next : /\ next \in Node \cup {"END"} /\ Advance(r, st, next)
                        /\ Tidy(Pending', next, st, NoReturn)
    BY DEF TidyMove
  <1>2. TypeOK /\ OneThread /\ exec \in [Replica -> Invocation \cup {Idle}]
        /\ ckpt \in [Thread -> Checkpoint] /\ exec[r] \in Invocation
    BY IdleOrWorking DEF RunInv, RunTyped, TypeOK, QueueInv
  <1>3. PICK th \in Thread : th = exec[r].thread
    BY <1>2, AloneAtWork
  <1>4. /\ ckpt[th].next # "none" /\ bounds.runs # 0
        /\ \A q \in Replica : q # r => exec[q] = Idle
        /\ \A t \in Thread : t # th => ckpt[t].next = "none"
    BY <1>2, <1>3, AloneAtWork
  <1>5. /\ \A q \in Replica : q # r => exec'[q] = Idle
        /\ exec'[r] = IF next \in Pause \cup {"END"} THEN Idle
                      ELSE [exec[r] EXCEPT !.at = next, !.st = st, !.answer = NoAnswer,
                                           !.ret = NoReturn]
    BY <1>1, <1>2, <1>4 DEF Advance
  <1>6. \/ exec'[r] = Idle /\ next \in Pause \cup {"END"}
        \/ /\ exec'[r] # Idle /\ exec'[r].at = next /\ exec'[r].st = st
           /\ exec'[r].ret = NoReturn /\ exec'[r].thread = th
    <2>1. CASE next \in Pause \cup {"END"}
      BY <1>5, <2>1
    <2>2. CASE next \notin Pause \cup {"END"}
      <3>1. /\ exec'[r].at = next /\ exec'[r].st = st
            /\ exec'[r].ret = NoReturn /\ exec'[r].thread = th
        BY <1>2, <1>3, <1>5, <2>2 DEF Invocation
      <3>2. next # "idle" /\ Idle.at = "idle"
        BY <1>1 DEF Node, Idle
      <3> QED BY <3>1, <3>2
    <2> QED BY <2>1, <2>2
  <1>7. /\ ckpt'[th].next = next /\ ckpt'[th].st = st
        /\ \A t \in Thread : t # th => ckpt'[t] = ckpt[t]
    <2>1. \A t \in Thread : ckpt'[t] = IF t = th THEN [next |-> next, st |-> st] ELSE ckpt[t]
      BY <1>1, <1>2, <1>3 DEF Advance
    <2>2. ckpt'[th] = [next |-> next, st |-> st]
      BY <2>1
    <2> QED BY <2>1, <2>2
  <1>8. WorkIsTidy'
    BY <1>1, <1>5, <1>6 DEF WorkIsTidy
  <1>9. RestIsTidy'
    <2> SUFFICES ASSUME NEW t \in Thread, ~WorkedOn(t)'
                 PROVE  /\ ckpt'[t].next \notin {"plan", "call_tool", "create_approval"}
                        /\ Tidy(Pending', ckpt'[t].next, ckpt'[t].st, NoReturn)
      BY DEF RestIsTidy
    <2>1. CASE t = th
      <3>1. next \in Pause \cup {"END"}
        BY <1>6, <2>1 DEF WorkedOn
      <3> QED BY <1>1, <1>7, <2>1, <3>1 DEF Pause
    <2>2. CASE t # th
      BY <1>4, <1>7, <2>2, TidyBeforeTheRun
    <2> QED BY <2>1, <2>2
  <1>10. OneThread'
    <2>1. next # "none"
      BY <1>1 DEF Node
    <2>2. \A t, u \in Thread : ckpt'[t].next # "none" /\ ckpt'[u].next # "none" => t = u
      BY <1>4, <1>7
    <2>3. \A q \in Replica : exec'[q] # Idle => ckpt'[exec'[q].thread].next # "none"
      BY <1>5, <1>6, <1>7, <2>1
    <2> QED BY <1>4, <2>2, <2>3 DEF OneThread
  <1> QED BY <1>8, <1>9, <1>10 DEF QueueInv

(* An effect that is not yet recorded: the checkpoint stays.               *)
LEMMA EffectQueue ==
  ASSUME RunInv, OneAtWork, QueueInv, NEW r \in Replica, exec[r] # Idle,
         \A q \in Replica : q # r => exec'[q] = exec[q],
         exec'[r].at # "idle", exec'[r].st = exec[r].st, exec'[r].thread = exec[r].thread,
         Tidy(Pending', exec'[r].at, exec[r].st, exec'[r].ret), OnePending',
         ckpt' = ckpt, bounds' = bounds
  PROVE  QueueInv'
  <1>1. TypeOK /\ OneThread
    BY DEF RunInv, RunTyped, QueueInv
  <1>2. /\ \A q \in Replica : q # r => exec'[q] = Idle
        /\ \A t \in Thread : t # exec[r].thread => ckpt[t].next = "none"
        /\ bounds.runs # 0
    BY <1>1, AloneAtWork
  <1>4. exec'[r] # Idle
    <2>1. Idle.at = "idle"
      BY DEF Idle
    <2> QED BY <2>1
  <1>5. WorkIsTidy'
    BY <1>2 DEF WorkIsTidy
  <1>6. RestIsTidy'
    <2> SUFFICES ASSUME NEW t \in Thread, ~WorkedOn(t)'
                 PROVE  /\ ckpt[t].next \notin {"plan", "call_tool", "create_approval"}
                        /\ Tidy(Pending', ckpt[t].next, ckpt[t].st, NoReturn)
      BY DEF RestIsTidy
    <2>1. t # exec[r].thread
      BY <1>4 DEF WorkedOn
    <2> QED BY <1>2, <2>1, TidyBeforeTheRun
  <1>7. OneThread'
    BY <1>1, <1>2 DEF OneThread
  <1> QED BY <1>5, <1>6, <1>7 DEF QueueInv

LEMMA CreateQueue ==
  ASSUME RunInv, OneAtWork, QueueInv, NEW r \in Replica, NEW id \in ApprovalId,
         CreateApproval(r, id)
  PROVE  QueueInv'
  <1> DEFINE ret == [NoReturn EXCEPT !.id = id]
  <1>1. /\ exec[r].at = "create_approval" /\ Create(id, HeldRequest(exec[r]))
        /\ exec' = [exec EXCEPT ![r] = [@ EXCEPT !.at = "approval created", !.ret = ret]]
        /\ ckpt' = ckpt /\ bounds' = bounds
    BY DEF CreateApproval
  <1>2. exec[r] # Idle
    BY <1>1, IdleOrWorking DEF RunInv, RunTyped
  <1>3. Pending = {} /\ IsHeld(exec[r].st)
    BY <1>1, <1>2 DEF QueueInv, WorkIsTidy, Tidy
  <1>4. Pending' = {id}
    BY <1>1, <1>3, CreatedIsPending DEF RunInv, RunTyped
  <1>5. ret.id = id
    BY DEF NoReturn
  <1> HIDE DEF ret
  <1>6. Tidy(Pending', "approval created", exec[r].st, ret)
    BY <1>3, <1>4, <1>5 DEF Tidy
  <1>7. OnePending'
    BY <1>4 DEF OnePending
  <1>8. exec \in [Replica -> Invocation \cup {Idle}] /\ exec[r] \in Invocation
    BY <1>2 DEF RunInv, RunTyped, TypeOK
  <1>9. /\ \A q \in Replica : q # r => exec'[q] = exec[q]
        /\ exec'[r].at = "approval created" /\ exec'[r].ret = ret
        /\ exec'[r].st = exec[r].st /\ exec'[r].thread = exec[r].thread
    BY <1>1, <1>8 DEF Invocation
  <1> QED BY <1>1, <1>2, <1>6, <1>7, <1>9, EffectQueue

(* What is let through was not pending, and what is held is held for all.  *)
LEMMA OutcomeIsTidy ==
  ASSUME RunInv, QueueInv, NEW r \in Replica, NEW fault, exec[r].at = "call_tool"
  PROVE  /\ Enforced(exec[r], fault) = "ok" => Pending = {}
         /\ Enforced(exec[r], fault) = "approval_required" => IsHeld(exec[r].st)
  <1> DEFINE inv == exec[r]
             outcome == Enforced(inv, fault)
  <1>2. exec[r] # Idle /\ exec[r] \in Invocation
    BY IdleOrWorking DEF RunInv, RunTyped
  <1>3. inv.st.args \in Arg
    BY <1>2, InvocationFields, StateFields
  <1>4. Pending \subseteq {inv.st.approval_id} /\ (Pending # {} => IsHeld(inv.st))
    BY <1>2 DEF QueueInv, WorkIsTidy, Tidy
  <1>6. outcome = "ok" => Pending = {}
    <2> SUFFICES ASSUME outcome = "ok" PROVE Pending = {}
      OBVIOUS
    <2>1. CASE decision(PolicyInput(inv)) = "allow"
      BY <1>3, <1>4, <2>1, HeldByThePolicy
    <2>2. CASE Approved(inv, fault)
      BY <1>4, <2>2 DEF Approved, Verify, Pending
    <2> QED BY <2>1, <2>2, LetThroughIsAllowed
  <1>7. outcome = "approval_required" => IsHeld(inv.st)
    <2> SUFFICES ASSUME outcome = "approval_required" PROVE IsHeld(inv.st)
      OBVIOUS
    <2>1. Verdict(inv, fault) = "require_approval"
      BY DEF Enforced
    <2>2. decision(PolicyInput(inv)) = "require_approval"
      BY <2>1 DEF Verdict, PolicyClientDecide
    <2> QED BY <1>3, <2>2, HeldByThePolicy
  <1> QED BY <1>6, <1>7

(* A call that goes out or is answered.                                    *)
LEMMA CallQueue ==
  ASSUME RunInv, OneAtWork, QueueInv, [Next]_vars, NEW r \in Replica, Calls(r)
  PROVE  QueueInv'
  <1> DEFINE inv == exec[r]
             after == exec'[r]
  <1>1. Passes(r) /\ bounds' = bounds /\ Pending' = Pending
    <2>1. Passes(r)
      BY CallsPass
    <2>2. bounds' = bounds
      BY DEF Calls, CallTool, CallVendor, CallTimesOut, issue_refund
    <2>3. approvals' = approvals
      BY <2>1 DEF Passes
    <2> QED BY <2>1, <2>2, <2>3 DEF Pending
  <1>2. exec[r] # Idle /\ exec'[r].at # "idle" /\ exec \in [Replica -> Invocation \cup {Idle}]
    <2>1. exec[r].at # "idle" /\ Idle.at = "idle"
      BY <1>1 DEF Passes, Idle
    <2> QED BY <1>1, <2>1 DEF Passes, RunInv, RunTyped, TypeOK
  <1>3. Tidy(Pending, inv.at, inv.st, inv.ret)
    BY <1>2 DEF QueueInv, WorkIsTidy
  <1>4. CASE \E fault \in Fault \cup {"none"} : CallTool(r, fault)
    <2>1. PICK fault \in Fault \cup {"none"} : CallTool(r, fault)
      BY <1>4
    <2> DEFINE status == IF fault = "lost answer" THEN "error" ELSE Enforced(inv, fault)
    <2>2. PICK n : exec' = [exec EXCEPT ![r] = [inv EXCEPT
            !.at = "tool answered", !.ret = [status |-> status, receipt |-> n, id |-> NoKey]]]
      BY <2>1 DEF CallTool
    <2>3. exec[r].at = "call_tool"
      BY <2>1 DEF CallTool
    <2>4. /\ status = "ok" => Pending = {}
          /\ status = "approval_required" => IsHeld(inv.st)
      BY <2>3, OutcomeIsTidy
    <2> HIDE DEF status
    <2>5. after.at = "tool answered" /\ after.ret.status = status
      BY <1>1, <1>2, <2>2 DEF Invocation, Passes
    <2> HIDE DEF after, inv
    <2>6. Tidy(Pending, after.at, inv.st, after.ret)
      BY <1>3, <2>3, <2>4, <2>5 DEF Tidy, inv
    <2> QED BY <1>1, <1>2, <2>6, EffectQueue DEF Passes, QueueInv, OnePending, after, inv
  <1>5. CASE Pending = {} /\ after.ret.status # "approval_required"
    <2>1. Tidy(Pending, after.at, inv.st, after.ret)
      BY <1>1, <1>5 DEF Tidy, Passes
    <2> QED BY <1>1, <1>2, <2>1, EffectQueue DEF Passes, QueueInv, OnePending
  <1>6. CASE \E fault \in Fault \cup {"none"}, w \in Worker : CallVendor(r, fault, w)
    <2>1. PICK fault \in Fault \cup {"none"}, w \in Worker : CallVendor(r, fault, w)
      BY <1>6
    <2>2. Pending = {}
      BY <2>1, OutcomeIsTidy DEF CallVendor
    <2>3. exec' = [exec EXCEPT ![r] = [inv EXCEPT !.at = "refunding"]]
      BY <2>1 DEF CallVendor
    <2>4. after.at = "refunding"
      BY <1>1, <1>2, <2>3 DEF Passes, Invocation
    <2>5. Tidy(Pending, after.at, inv.st, after.ret)
      BY <2>2, <2>4 DEF Tidy
    <2> QED BY <1>1, <1>2, <2>5, EffectQueue DEF Passes, QueueInv, OnePending
  <1>7. CASE CallTimesOut(r)
    <2>1. exec[r].at = "refunding"
          /\ exec' = [exec EXCEPT ![r] = [inv EXCEPT
               !.at = "tool answered", !.ret = [NoReturn EXCEPT !.status = "error"]]]
      BY <1>7 DEF CallTimesOut
    <2>2. after.ret = [NoReturn EXCEPT !.status = "error"]
      BY <1>1, <1>2, <2>1 DEF Passes, Invocation
    <2>3. after.ret.status = "error" /\ Pending = {}
      BY <1>3, <2>1, <2>2 DEF NoReturn, Tidy
    <2> QED BY <1>5, <2>3
  <1>8. CASE \E c \in vendor : c.waits /\ c.by = r /\ issue_refund(c)
    <2>1. exec[r].at = "refunding"
      BY <1>8 DEF RunInv, CallersWait
    <2>2. exec' = [exec EXCEPT ![r] = [inv EXCEPT
            !.at = "tool answered", !.ret = [status |-> "ok", receipt |-> seq, id |-> NoKey]]]
      BY <1>8 DEF issue_refund
    <2>3. after.ret = [status |-> "ok", receipt |-> seq, id |-> NoKey]
      BY <1>1, <1>2, <2>2 DEF Passes, Invocation
    <2>4. after.ret.status = "ok" /\ Pending = {}
      BY <1>3, <2>1, <2>3 DEF Tidy
    <2> QED BY <1>5, <2>4
  <1> QED BY <1>4, <1>6, <1>7, <1>8 DEF Calls

(* A request comes in for a thread nobody works on, at a place that is     *)
(* tidy for it; every other thread has not begun.                          *)
LEMMA RequestQueue ==
  ASSUME RunInv, NEW r \in Replica, NEW t \in Thread, NEW at, NEW u, NEW a,
         Start(r, t, u, a, at), at \in Node,
         \A q \in Replica : exec[q] = Idle,
         \A o \in Thread : o # t => ckpt[o].next = "none",
         ckpt'[t].next # "none", \A o \in Thread : o # t => ckpt'[o] = ckpt[o],
         Tidy(Pending, at, ckpt[t].st, NoReturn), OnePending, approvals' = approvals,
         bounds'.runs # 0
  PROVE  QueueInv'
  <1>1. exec \in [Replica -> Invocation \cup {Idle}] /\ Pending' = Pending
    BY DEF RunInv, RunTyped, TypeOK, Pending
  <1>2. /\ \A q \in Replica : q # r => exec'[q] = Idle
        /\ exec'[r] = [at |-> at, thread |-> t, st |-> ckpt[t].st, as |-> u, answer |-> a,
                       ret |-> NoReturn]
    BY <1>1 DEF Start
  <1>3. /\ exec'[r].at = at /\ exec'[r].st = ckpt[t].st /\ exec'[r].ret = NoReturn
        /\ exec'[r].thread = t
    BY <1>2
  <1>4. exec'[r] # Idle
    BY <1>3 DEF Idle, Node
  <1>5. WorkIsTidy' /\ OnePending'
    BY <1>1, <1>2, <1>3 DEF WorkIsTidy, OnePending
  <1>6. RestIsTidy'
    <2> SUFFICES ASSUME NEW o \in Thread, ~WorkedOn(o)'
                 PROVE  /\ ckpt'[o].next \notin {"plan", "call_tool", "create_approval"}
                        /\ Tidy(Pending', ckpt'[o].next, ckpt'[o].st, NoReturn)
      BY DEF RestIsTidy
    <2>1. o # t
      BY <1>3, <1>4 DEF WorkedOn
    <2>2. ckpt'[o].next = "none"
      BY <2>1
    <2> QED BY <2>2, TidyBeforeTheRun
  <1>7. OneThread'
    BY <1>2, <1>3 DEF OneThread
  <1> QED BY <1>5, <1>6, <1>7 DEF QueueInv

LEMMA RunQueue ==
  ASSUME MaxRuns = 1, RunInv, QueueInv, NEW r \in Replica, NEW t \in Thread,
         NEW u \in Person, Run(r, t, u)
  PROVE  QueueInv'
  <1>1. /\ bounds.runs < MaxRuns /\ approvals' = approvals
        /\ Start(r, t, u, NoAnswer, "plan") /\ ckpt' = [ckpt EXCEPT ![t].next = "plan"]
        /\ bounds' = [bounds EXCEPT !.runs = @ + 1,
                                    !.overlaps = IF WorkedOn(t) THEN @ + 1 ELSE @]
    BY DEF Run
  <1>2. /\ TypeOK /\ ckpt \in [Thread -> Checkpoint]
        /\ bounds \in [runs : 0..MaxRuns, restarts : 0..MaxRestarts, overlaps : 0..MaxOverlaps]
    BY DEF RunInv, RunTyped, TypeOK
  <1>3. bounds.runs \in 0..MaxRuns /\ bounds'.runs = bounds.runs + 1
    BY <1>1, <1>2
  <1>4. bounds.runs = 0 /\ bounds'.runs # 0
    BY <1>1, <1>3
  <1>5. Pending = {} /\ \A o \in Thread : ckpt[o].next = "none"
    BY <1>4 DEF QueueInv, OneThread
  <1>6. \A q \in Replica : exec[q] = Idle
    BY <1>2, <1>5, IdleOrWorking DEF QueueInv, OneThread
  <1>7. ckpt'[t].next = "plan" /\ \A o \in Thread : o # t => ckpt'[o] = ckpt[o]
    BY <1>1, <1>2 DEF Checkpoint
  <1>8. Tidy(Pending, "plan", ckpt[t].st, NoReturn)
    BY <1>5, TidyWithNone
  <1>9. "plan" \in Node /\ ckpt'[t].next # "none" /\ OnePending
    BY <1>7 DEF Node, QueueInv
  <1>10. \A o \in Thread : o # t => ckpt[o].next = "none"
    BY <1>5
  <1> QED BY <1>1, <1>4, <1>6, <1>7, <1>8, <1>9, <1>10, RequestQueue

LEMMA ResumeQueue ==
  ASSUME MaxOverlaps = 0, RunInv, QueueInv, NEW r \in Replica, NEW t \in Thread,
         NEW u \in Person, NEW a \in Answer, Resume(r, t, u, a)
  PROVE  QueueInv'
  <1> DEFINE node == ckpt[t].next
             as == IF runs[r][t] = NoOne THEN u ELSE runs[r][t]
             given == IF node \in Pause THEN a ELSE NoAnswer
  <1>1. /\ node \in Node /\ approvals' = approvals /\ ckpt' = ckpt
        /\ Start(r, t, as, given, node)
        /\ (WorkedOn(t) => bounds.overlaps < MaxOverlaps)
        /\ bounds' = [bounds EXCEPT !.overlaps = IF WorkedOn(t) THEN @ + 1 ELSE @]
    BY DEF Resume
  <1>2. /\ TypeOK /\ OneThread
        /\ bounds \in [runs : 0..MaxRuns, restarts : 0..MaxRestarts, overlaps : 0..MaxOverlaps]
    BY DEF RunInv, RunTyped, TypeOK, QueueInv
  <1>3. bounds'.runs = bounds.runs
    BY <1>1, <1>2
  <1>4. node # "none"
    BY <1>1 DEF Node
  <1>5. bounds'.runs # 0 /\ \A o \in Thread : o # t => ckpt[o].next = "none"
    BY <1>2, <1>3, <1>4 DEF OneThread
  <1>6. \A q \in Replica : exec[q] # Idle => exec[q].thread # t
    BY <1>1, NobodyElse
  <1>7. \A q \in Replica : exec[q] = Idle
    <2> SUFFICES ASSUME NEW q \in Replica, exec[q] # Idle PROVE FALSE
      OBVIOUS
    <2>1. exec[q].thread \in Thread /\ ckpt[exec[q].thread].next # "none"
      BY <1>2, IdleOrWorking DEF OneThread
    <2> QED BY <1>5, <1>6, <2>1
  <1>8. Tidy(Pending, node, ckpt[t].st, NoReturn) /\ OnePending
    BY <1>6 DEF QueueInv, RestIsTidy, WorkedOn
  <1> QED BY <1>1, <1>4, <1>5, <1>7, <1>8, RequestQueue

(* A decision takes a row out of the queue and touches nothing else.       *)
LEMMA DecidedQueue ==
  ASSUME RunInv, QueueInv, NEW id \in ApprovalId, NEW p \in Person, NEW yes \in BOOLEAN,
         ManagerDecides(id, p, yes)
  PROVE  QueueInv'
  <1>1. Decide(id, p, yes) /\ exec' = exec /\ ckpt' = ckpt /\ bounds' = bounds
    BY DEF ManagerDecides, agentVars
  <1>2. Pending' \subseteq Pending
    <2>1. approvals \in [ApprovalId -> Approval \cup {NoApproval}]
      BY DEF RunInv, RunTyped, TypeOK, ApprovalsTypeOK
    <2>2. \A i \in ApprovalId : i # id => approvals'[i] = approvals[i]
      BY <1>1, <2>1 DEF Decide
    <2>3. approvals[id].status = "pending"
      BY <1>1 DEF Decide
    <2> QED BY <2>2, <2>3 DEF Pending
  <1>3. \A at, st, ret : Tidy(Pending, at, st, ret) => Tidy(Pending', at, st, ret)
    BY <1>2, TidyWithFewer
  <1>4. OnePending'
    BY <1>2 DEF QueueInv, OnePending
  <1>5. WorkIsTidy' /\ RestIsTidy'
    BY <1>1, <1>3 DEF QueueInv, WorkIsTidy, RestIsTidy, WorkedOn
  <1>6. OneThread'
    BY <1>1, <1>2 DEF QueueInv, OneThread
  <1> QED BY <1>4, <1>5, <1>6 DEF QueueInv

LEMMA QueueInit == Init => QueueInv
  <1> SUFFICES ASSUME Init PROVE QueueInv
    OBVIOUS
  <1>1. /\ \A t \in Thread : ckpt[t].next = "none"
        /\ \A r \in Replica : exec[r] = Idle
        /\ \A id \in ApprovalId : approvals[id].status = "none"
    BY DEF Init, ApprovalsInit, Unstarted, NoApproval
  <1>2. Pending = {}
    BY <1>1 DEF Pending
  <1>3. RestIsTidy
    BY <1>1, TidyBeforeTheRun DEF RestIsTidy
  <1> QED BY <1>1, <1>2, <1>3 DEF QueueInv, OnePending, WorkIsTidy, OneThread

LEMMA StepQueue ==
  ASSUME RunInv, OneAtWork, QueueInv, [Next]_vars, NEW r \in Replica, Step(r)
  PROVE  QueueInv'
  <1>1. WorkIsTidy /\ OnePending
    BY DEF QueueInv
  <1>2. CASE Calls(r)
    BY <1>2, CallQueue
  <1>3. CASE \E id \in ApprovalId : CreateApproval(r, id)
    BY <1>3, CreateQueue
  <1>4. ASSUME TidyMove(r), OnePending', bounds' = bounds, exec[r].at # "idle"
        PROVE  QueueInv'
    <2>1. exec[r] # Idle
      BY <1>4 DEF Idle
    <2> QED BY <1>4, <2>1, MovedQueue
  <1>5. ASSUME Pending' = Pending PROVE OnePending'
    BY <1>1, <1>5 DEF OnePending
  <1>6. CASE \/ \E p \in Proposal, more \in BOOLEAN : PlanCall(r, p, more)
             \/ \E p \in Proposal : PlanClarify(r, p)
             \/ \E status \in {"refused", "error"} : PlanNothing(r, status)
    <2>1. bounds' = bounds /\ exec[r].at = "plan"
      BY <1>6 DEF PlanCall, PlanClarify, PlanNothing
    <2> QED BY <1>1, <1>4, <1>5, <1>6, <2>1, PlanIsTidy
  <1>7. CASE RepeatCall(r)
    <2>1. bounds' = bounds /\ exec[r].at = "call_tool"
      BY <1>7 DEF RepeatCall
    <2> QED BY <1>4, <1>5, <1>7, <2>1, RepeatIsTidy
  <1>8. CASE ToolAnswered(r)
    <2>1. bounds' = bounds /\ exec[r].at = "tool answered"
      BY <1>8 DEF ToolAnswered
    <2> QED BY <1>1, <1>4, <1>5, <1>8, <2>1, AnswerIsTidy
  <1>9. CASE ApprovalCreated(r)
    <2>1. bounds' = bounds /\ exec[r].at = "approval created"
      BY <1>9 DEF ApprovalCreated
    <2> QED BY <1>1, <1>4, <1>5, <1>9, <2>1, NewApprovalIsTidy
  <1>10. CASE \E fault \in Fault : CreateFails(r, fault)
    <2>1. bounds' = bounds /\ exec[r].at = "create_approval"
      BY <1>10 DEF CreateFails
    <2> QED BY <1>1, <1>4, <1>10, <2>1, FailureIsTidy
  <1>11. CASE AwaitDecision(r)
    <2>1. bounds' = bounds /\ exec[r].at = "await_decision"
      BY <1>11 DEF AwaitDecision
    <2> QED BY <1>1, <1>4, <1>5, <1>11, <2>1, DecisionIsTidy
  <1>12. CASE AskClarification(r)
    <2>1. bounds' = bounds /\ exec[r].at = "ask_clarification"
      BY <1>12 DEF AskClarification
    <2> QED BY <1>1, <1>4, <1>5, <1>12, <2>1, QuestionIsTidy
  <1> QED BY <1>2, <1>3, <1>6, <1>7, <1>8, <1>9, <1>10, <1>11, <1>12 DEF Step, Calls

LEMMA QueueNext ==
  ASSUME MaxRuns = 1, MaxRestarts = 0, MaxOverlaps = 0
  PROVE  ReceiptInv /\ QueueInv /\ [Next]_vars => QueueInv'
  <1> SUFFICES ASSUME ReceiptInv, QueueInv, [Next]_vars PROVE QueueInv'
    OBVIOUS
  <1>1. RunInv /\ OneAtWork /\ bounds.restarts \in 0..MaxRestarts
    BY DEF ReceiptInv, WorkInv, RunInv, RunTyped, TypeOK
  <1>2. CASE \E r \in Replica : Step(r)
    BY <1>1, <1>2, StepQueue
  <1>3. CASE \E r \in Replica, t \in Thread, u \in Person : Run(r, t, u)
    BY <1>1, <1>3, RunQueue
  <1>4. CASE \E r \in Replica, t \in Thread, u \in Person, a \in Answer : Resume(r, t, u, a)
    BY <1>1, <1>4, ResumeQueue
  <1>5. CASE \E r \in Replica : Restart(r)
    BY <1>1, <1>5 DEF Restart
  <1>6. CASE \E id \in ApprovalId, p \in Person, yes \in BOOLEAN : ManagerDecides(id, p, yes)
    BY <1>1, <1>6, DecidedQueue
  <1>7. CASE UNCHANGED vars \/ \E c \in vendor : ~c.waits /\ issue_refund(c)
    <2>1. UNCHANGED <<approvals, exec, ckpt, bounds>>
      BY <1>7 DEF vars, issue_refund
    <2> QED BY <2>1 DEF QueueInv, OnePending, Pending, WorkIsTidy, RestIsTidy, WorkedOn,
                        OneThread
  <1>8. CASE \E w \in Worker : Pay(w)
    BY <1>1, <1>7, <1>8, PayAnswers, CallQueue
  <1> QED BY <1>2, <1>3, <1>4, <1>5, <1>6, <1>7, <1>8 DEF Next

(* Resuming early, resuming twice, resuming a denied hold and resuming at  *)
(* another replica or as somebody else never put a second copy of a        *)
(* request in the managers' queue (after_call): one run that no replica    *)
(* loses and nobody resumes while it is worked on, whatever the model      *)
(* proposes and whatever fails.                                            *)
THEOREM QueueHasNoTwin ==
  ASSUME MaxRuns = 1, MaxRestarts = 0, MaxOverlaps = 0
  PROVE  Spec => []NoTwinInTheQueue
  <1>1. QueueInv => NoTwinInTheQueue
    BY DEF QueueInv, OnePending, Pending, NoTwinInTheQueue
  <1>2. ReceiptInv /\ [Next]_vars => ReceiptInv'
    BY ReceiptNext
  <1>3. ReceiptInv /\ QueueInv /\ [Next]_vars => QueueInv'
    BY QueueNext
  <1> QED BY ReceiptInit, QueueInit, <1>1, <1>2, <1>3, PTL DEF Spec
=============================================================================
