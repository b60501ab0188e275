------------------------------ MODULE AgentRun ------------------------------
(***************************************************************************)
(* One agent run, end to end: the graph (app/agent/graph.py) driven by the *)
(* agent service's /run and /resume (app/agent/service.py), calling the    *)
(* tool server (app/tools/enforcement.py), the approval store and the      *)
(* payments system (app/simulators/payments.py), whose worker threads look *)
(* for the key and file the refund in two steps, without a lock: a call    *)
(* whose caller has gone away goes on there.                               *)
(*                                                                         *)
(* An invocation is a request one replica is working on: it loads the      *)
(* thread's checkpoint, runs graph nodes one at a time and writes a        *)
(* checkpoint after each.  The graph library does not lock a thread, so    *)
(* two replicas may work on one thread, and a replica may stop between a   *)
(* node's effect and the checkpoint that records it.                       *)
(*                                                                         *)
(* Left out: the wording of reasons, audit records, the tool results       *)
(* (a refund's receipt apart), customers and tickets as such (an argument  *)
(* that names a record is an Id).                                          *)
(***************************************************************************)
EXTENDS Policy, Approvals, Sequences, FiniteSets

CONSTANTS
  Thread,        \* thread ids
  Replica,       \* agent replicas, each with one request at a time
  Worker,        \* the payments system's worker threads
  RolesOf,       \* RolesOf[p]: the roles in p's token
  Id, KnownId,   \* identifiers a call may name; those the vendor has
  Value,         \* the amounts people and models talk about
  Proposal,      \* the calls the model may propose, complete or with gaps
  Answer,        \* what a caller may send to /resume
  Fault,         \* what may go wrong on a tool call or an approval request
  NoKey,         \* no approval id / no idempotency key
  MAX_ASKS, MAX_STEPS,
  MaxRuns,       \* bound: /run calls per thread
  MaxRestarts,   \* bound: replica restarts
  MaxOverlaps    \* bound: resumes of a thread somebody is still working on

NoId == "no id"
Required(tool) == IF tool = RefundTool THEN {"id", "amount"} ELSE {"id"}
Arg == [id : Id \cup {NoId},
        amount : {NoAmount} \cup {Number(n) : n \in Value} \cup {Text(n) : n \in Value}]
Call == [tool : Catalogue, args : Arg]

ASSUME AgentRunAssumption ==
  /\ Proposal \subseteq Call
  /\ \A p \in Proposal : p.args.amount.kind # "text"
  /\ Answer \subseteq [yes : BOOLEAN, values : Arg]
  /\ Value \subseteq Int
  /\ Fault \subseteq {"unreachable", "no policy", "no verify", "lost answer"}
  /\ KnownId \subseteq Id /\ NoId \notin Id
  /\ RolesOf \in [Person -> SUBSET Roles]
  /\ TenantOf \in [Person -> STRING]
  /\ NoKey \notin ApprovalId
  /\ MAX_ASKS \in Nat /\ MAX_STEPS \in Nat
  /\ MaxRuns \in Nat /\ MaxRestarts \in Nat /\ MaxOverlaps \in Nat
  /\ \A tool \in Catalogue, args \in Arg, p \in Person :
       [tool |-> tool, args |-> args, user |-> p, agent |-> TrustedAgent,
        tenant |-> TenantOf[p]] \in Request

VARIABLES
  exec,       \* exec[r]: the invocation replica r is working on, or Idle
  ckpt,       \* ckpt[t]: the thread's latest checkpoint (durable)
  runs,       \* runs[r][t]: whose token the agent cached in _runs acts with
  refunds,    \* the refunds the payments system has issued
  seq,        \* its next refund number
  vendor,     \* the refund calls its workers are serving, the key looked up
  contended,  \* history: the keys two of them were serving at once
  performed,  \* history: every held call that was let through, and its key
  bounds      \* [runs, restarts, overlaps] spent so far

agentVars == <<exec, ckpt, runs, refunds, seq, vendor, contended, performed, bounds>>
vars == <<approvals, exec, ckpt, runs, refunds, seq, vendor, contended, performed,
          bounds>>

-----------------------------------------------------------------------------
(* The graph's state, a checkpoint and an invocation.                      *)

Status == {"", "ok", "denied", "refused", "error", "approval_required",
           "approved", "clarification_required"}

Observation == [tool : Catalogue, args : Arg, receipt : Nat]

AgentState == [tool : Catalogue \cup {""}, args : Arg, status : Status,
               approval_id : ApprovalId \cup {NoKey},
               missing : SUBSET {"id", "amount"},
               asks : Nat, steps : Nat, observations : Seq(Observation),
               more : BOOLEAN, final : BOOLEAN]

NoArgs == [id |-> NoId, amount |-> NoAmount]

NewState == [tool |-> "", args |-> NoArgs, status |-> "", approval_id |-> NoKey,
             missing |-> {}, asks |-> 0, steps |-> 0, observations |-> <<>>,
             more |-> FALSE, final |-> FALSE]

Node == {"plan", "call_tool", "create_approval", "await_decision",
         "ask_clarification"}
Pause == {"await_decision", "ask_clarification"}
\* Where an invocation can be: at a node, or past a node's effect.
Place == Node \cup {"refunding", "tool answered", "approval created"}

NoAnswer == [yes |-> FALSE, values |-> NoArgs]
NoReceipt == 0
NoReturn == [status |-> "", receipt |-> NoReceipt, id |-> NoKey]
Return == [status : Status, receipt : Nat, id : ApprovalId \cup {NoKey}]

Idle == [at |-> "idle"]
Invocation == [at : Place, thread : Thread, st : AgentState, as : Person,
               answer : [yes : BOOLEAN, values : Arg], ret : Return]

Unstarted == [next |-> "none", st |-> NewState]
Checkpoint == [next : Node \cup {"none", "END"}, st : AgentState]

Refund == [n : Nat, id : Id, amount : Int, tenant : STRING,
           key : ApprovalId \cup {NoKey}]

\* A refund a worker is about to issue; waits says whether the replica the
\* call came from still does.
VendorCall == [worker : Worker, by : Replica, waits : BOOLEAN, id : Id,
               amount : Int, tenant : STRING, key : ApprovalId \cup {NoKey}]

Init ==
  /\ ApprovalsInit
  /\ exec = [r \in Replica |-> Idle]
  /\ ckpt = [t \in Thread |-> Unstarted]
  /\ runs = [r \in Replica |-> [t \in Thread |-> NoOne]]
  /\ refunds = {}
  /\ seq = 1
  /\ vendor = {} /\ contended = {}
  /\ performed = {}
  /\ bounds = [runs |-> 0, restarts |-> 0, overlaps |-> 0]

-----------------------------------------------------------------------------
(* Routing.                                                                *)

\* Slip: a call that is still held always asks for a new approval.
after_call_Slip(st) ==
  IF st.status = "approval_required" THEN "create_approval"
  ELSE IF ~st.final /\ st.steps < MAX_STEPS THEN "plan" ELSE "END"

after_call(st) ==
  IF st.status = "approval_required"
  THEN IF st.approval_id # NoKey THEN "await_decision" ELSE "create_approval"
  ELSE IF ~st.final /\ st.steps < MAX_STEPS THEN "plan" ELSE "END"

after_create(st) == IF st.status = "error" THEN "END" ELSE "await_decision"

after_decision(st) == IF st.status = "approved" THEN "call_tool" ELSE "END"

after_plan(st) ==
  IF st.status \in {"error", "refused"} THEN "END"
  ELSE IF st.status = "clarification_required" THEN "ask_clarification"
  ELSE "call_tool"

after_clarification(st) ==
  IF st.status = "refused" THEN "END"
  ELSE IF st.missing # {} THEN "ask_clarification" ELSE "call_tool"

\* A node is done: its checkpoint is written, and the invocation goes on to the
\* next node, or answers its caller at the end of the graph or at a pause.
Advance(r, st, next) ==
  /\ ckpt' = [ckpt EXCEPT ![exec[r].thread] = [next |-> next, st |-> st]]
  /\ exec' = [exec EXCEPT ![r] =
       IF next \in Pause \cup {"END"} THEN Idle
       ELSE [@ EXCEPT !.at = next, !.st = st, !.answer = NoAnswer, !.ret = NoReturn]]

-----------------------------------------------------------------------------
(* plan: the model's decision, after decide_tool's checks.                 *)

\* The tools offered to whoever the invocation acts for.
Offered(p) == Catalogue \cap tools_for_roles(TenantOf[p], RolesOf[p])

Missing(tool, args) ==
  {a \in Required(tool) : \/ a = "id" /\ args.id = NoId
                          \/ a = "amount" /\ args.amount = NoAmount}

\* Slip: a decision keeps the approval of the step before it.
PlanCall_Slip(r, p, more) ==
  LET st == [exec[r].st EXCEPT !.tool = p.tool, !.args = p.args,
                               !.more = more, !.final = FALSE]
  IN  /\ exec[r].at = "plan"
      /\ p.tool \in Offered(exec[r].as)
      /\ Missing(p.tool, p.args) = {}
      /\ Advance(r, st, after_plan(st))
      /\ UNCHANGED <<approvals, runs, refunds, seq, vendor, contended, performed, bounds>>

\* A complete decision: a fresh action, with no approval of its own yet.
PlanCall(r, p, more) ==
  LET st == [exec[r].st EXCEPT !.tool = p.tool, !.args = p.args, !.more = more,
                               !.final = FALSE, !.approval_id = NoKey]
  IN  /\ exec[r].at = "plan"
      /\ p.tool \in Offered(exec[r].as)
      /\ Missing(p.tool, p.args) = {}
      /\ Advance(r, st, after_plan(st))
      /\ UNCHANGED <<approvals, runs, refunds, seq, vendor, contended, performed, bounds>>

\* A decision with a gap a person can fill: more, final and approval_id stay.
PlanClarify(r, p) ==
  LET st == [exec[r].st EXCEPT !.tool = p.tool, !.args = p.args,
                               !.missing = Missing(p.tool, p.args),
                               !.status = "clarification_required"]
  IN  /\ exec[r].at = "plan"
      /\ p.tool \in Offered(exec[r].as)
      /\ Missing(p.tool, p.args) # {}
      /\ Advance(r, st, after_plan(st))
      /\ UNCHANGED <<approvals, runs, refunds, seq, vendor, contended, performed, bounds>>

\* No usable decision: the model declined or named a tool that was not offered
\* (refused), or it could not be reached or understood (error).
PlanNothing(r, status) ==
  LET st == [exec[r].st EXCEPT !.status = status]
  IN  /\ exec[r].at = "plan"
      /\ Advance(r, st, after_plan(st))
      /\ UNCHANGED <<approvals, runs, refunds, seq, vendor, contended, performed, bounds>>

-----------------------------------------------------------------------------
(* call_tool: the node, the tool server behind it and the payments system. *)

Repeats(st) ==
  /\ st.observations # <<>>
  /\ LET last == st.observations[Len(st.observations)]
     IN  last.tool = st.tool /\ last.args = st.args

\* app/common/schema.py: a number spelt as a string becomes the number.
coerce_args(args) ==
  [id |-> args.id,
   amount |-> IF args.amount.kind = "text" THEN Number(args.amount.value)
              ELSE args.amount]

\* What the tool server knows of the call: the token's identity, the tool and
\* the arguments after coercion.
ToolRequest(inv) ==
  [tool |-> inv.st.tool, args |-> coerce_args(inv.st.args), user |-> inv.as,
   agent |-> TrustedAgent, tenant |-> TenantOf[inv.as]]

PolicyInput(inv) ==
  [agent |-> TrustedAgent, tenant |-> TenantOf[inv.as], roles |-> RolesOf[inv.as],
   tool |-> inv.st.tool, amount |-> coerce_args(inv.st.args).amount]

Verdict(inv, fault) ==
  PolicyClientDecide(IF fault = "no policy" THEN "no answer"
                     ELSE decision(PolicyInput(inv)))

\* Slip: the presence of an approval id is taken for an approval.
Approved_Slip(inv, fault) == inv.st.approval_id # NoKey

\* The approvals client asks the store, and takes no answer for a no.
Approved(inv, fault) ==
  /\ inv.st.approval_id # NoKey
  /\ fault # "no verify"
  /\ Verify(inv.st.approval_id, ToolRequest(inv))

\* ToolEnforcer.call: what becomes of the call at the tool server.
Enforced(inv, fault) ==
  IF fault = "unreachable" THEN "error"
  ELSE IF Verdict(inv, fault) = "deny" THEN "denied"
  ELSE IF Verdict(inv, fault) = "require_approval" /\ ~Approved(inv, fault)
       THEN "approval_required"
  ELSE "ok"

\* Slip: the vendor does not look for the key.
IssuedUnder_Slip(key) == {}

\* payments.issue_refund: "idempotency_key in _refunds".
IssuedUnder(key) == {f \in refunds : key # NoKey /\ f.key = key}

\* A refund of an order the vendor has, under no key or one it has not seen.
IsNewRefund(st) ==
  st.tool = RefundTool /\ IssuedUnder(st.approval_id) = {} /\ st.args.id \in KnownId

\* What a call that issues nothing new shows: the refund under its key, or none
\* (an order the vendor does not have is a result, not an error).
Receipts(st) ==
  IF st.tool = RefundTool /\ IssuedUnder(st.approval_id) # {}
  THEN {f.n : f \in IssuedUnder(st.approval_id)} ELSE {NoReceipt}

\* Slip: a repeated call is passed over, and the model is asked again.
RepeatCall_Slip(r) ==
  LET st == [exec[r].st EXCEPT !.status = "ok"]
  IN  /\ exec[r].at = "call_tool"
      /\ Repeats(exec[r].st)
      /\ Advance(r, st, after_call(st))
      /\ UNCHANGED <<approvals, runs, refunds, seq, vendor, contended, performed, bounds>>

\* A call the model has just made is not made again.
RepeatCall(r) ==
  LET st == [exec[r].st EXCEPT !.status = "ok", !.final = TRUE]
  IN  /\ exec[r].at = "call_tool"
      /\ Repeats(exec[r].st)
      /\ Advance(r, st, after_call(st))
      /\ UNCHANGED <<approvals, runs, refunds, seq, vendor, contended, performed, bounds>>

\* A held call that is let through goes into the history.
LetThrough(inv, fault) ==
  IF Enforced(inv, fault) = "ok" /\ Verdict(inv, fault) = "require_approval"
  THEN {[request |-> ToolRequest(inv), key |-> inv.st.approval_id]} ELSE {}

\* The call goes out, is refused, held or carried out, and is answered.
CallTool(r, fault) ==
  LET inv == exec[r]
      outcome == Enforced(inv, fault)
  IN  /\ inv.at = "call_tool"
      /\ ~Repeats(inv.st)
      /\ ~ (outcome = "ok" /\ IsNewRefund(inv.st))
      /\ performed' = performed \cup LetThrough(inv, fault)
      /\ \E receipt \in IF outcome = "ok" THEN Receipts(inv.st) ELSE {NoReceipt} :
           exec' = [exec EXCEPT ![r] = [@ EXCEPT
             !.at = "tool answered",
             !.ret = [status |-> IF fault = "lost answer" THEN "error" ELSE outcome,
                      receipt |-> receipt, id |-> NoKey]]]
      /\ UNCHANGED <<approvals, ckpt, runs, refunds, seq, vendor, contended, bounds>>

\* The call goes out, is let through, and a worker of the vendor's has looked
\* for its key and gone on to issue the refund.
CallVendor(r, fault, w) ==
  LET inv == exec[r]
      key == inv.st.approval_id
  IN  /\ inv.at = "call_tool"
      /\ ~Repeats(inv.st)
      /\ Enforced(inv, fault) = "ok" /\ IsNewRefund(inv.st)
      /\ \A c \in vendor : c.worker # w
      /\ vendor' = vendor \cup {[worker |-> w, by |-> r, waits |-> TRUE,
                                 id |-> inv.st.args.id,
                                 amount |-> coerce_args(inv.st.args).amount.value,
                                 tenant |-> TenantOf[inv.as], key |-> key]}
      /\ contended' = contended \cup {c.key : c \in {d \in vendor : d.key = key}}
      /\ performed' = performed \cup LetThrough(inv, fault)
      /\ exec' = [exec EXCEPT ![r] = [@ EXCEPT !.at = "refunding"]]
      /\ UNCHANGED <<approvals, ckpt, runs, refunds, seq, bounds>>

\* The rest of issue_refund: the refund takes the next number and is filed, and
\* the replica is answered if it still waits.
issue_refund(c) ==
  /\ c \in vendor
  /\ vendor' = vendor \ {c}
  /\ refunds' = refunds \cup {[n |-> seq, id |-> c.id, amount |-> c.amount,
                               tenant |-> c.tenant, key |-> c.key]}
  /\ seq' = seq + 1
  /\ exec' = IF c.waits
             THEN [exec EXCEPT ![c.by] = [@ EXCEPT
                    !.at = "tool answered",
                    !.ret = [status |-> "ok", receipt |-> seq, id |-> NoKey]]]
             ELSE exec
  /\ UNCHANGED <<approvals, ckpt, runs, contended, performed, bounds>>

\* Replica r waits no longer; the vendor's worker does not learn of it.
Orphaned(r) == {IF c.by = r THEN [c EXCEPT !.waits = FALSE] ELSE c : c \in vendor}

\* The timeouts of live.py and backends.py, or a connection that is lost.
CallTimesOut(r) ==
  /\ "lost answer" \in Fault
  /\ exec[r].at = "refunding"
  /\ vendor' = Orphaned(r)
  /\ exec' = [exec EXCEPT ![r] = [@ EXCEPT
       !.at = "tool answered", !.ret = [NoReturn EXCEPT !.status = "error"]]]
  /\ UNCHANGED <<approvals, ckpt, runs, refunds, seq, contended, performed, bounds>>

\* Only a call that happened is a step, and only a step is observed.
ToolAnswered(r) ==
  LET inv == exec[r]
      st == IF inv.ret.status = "ok"
            THEN [inv.st EXCEPT !.status = "ok", !.steps = @ + 1,
                    !.observations = Append(@, [tool |-> inv.st.tool, args |-> inv.st.args,
                                                receipt |-> inv.ret.receipt]),
                    !.final = ~inv.st.more]
            ELSE [inv.st EXCEPT !.status = inv.ret.status, !.final = TRUE]
  IN  /\ inv.at = "tool answered"
      /\ Advance(r, st, after_call(st))
      /\ UNCHANGED <<approvals, runs, refunds, seq, vendor, contended, performed, bounds>>

-----------------------------------------------------------------------------
(* create_approval, and the two pauses.                                    *)

\* Slip: the request is stored with its numbers spelt out.
HeldRequest_Slip(inv) ==
  [tool |-> inv.st.tool,
   args |-> [inv.st.args EXCEPT !.amount = IF @.kind = "number" THEN Text(@.value) ELSE @],
   user |-> inv.as, agent |-> TrustedAgent, tenant |-> TenantOf[inv.as]]

\* What the agent asks approval for: the arguments as they stand in the state.
HeldRequest(inv) ==
  [tool |-> inv.st.tool, args |-> inv.st.args, user |-> inv.as,
   agent |-> TrustedAgent, tenant |-> TenantOf[inv.as]]

CreateApproval(r, id) ==
  /\ exec[r].at = "create_approval"
  /\ Create(id, HeldRequest(exec[r]))
  /\ exec' = [exec EXCEPT ![r] = [@ EXCEPT !.at = "approval created",
                                           !.ret = [NoReturn EXCEPT !.id = id]]]
  /\ UNCHANGED <<ckpt, runs, refunds, seq, vendor, contended, performed, bounds>>

ApprovalCreated(r) ==
  LET st == [exec[r].st EXCEPT !.approval_id = exec[r].ret.id]
  IN  /\ exec[r].at = "approval created"
      /\ Advance(r, st, after_create(st))
      /\ UNCHANGED <<approvals, runs, refunds, seq, vendor, contended, performed, bounds>>

\* The request fails: before the row was written, or after (the answer is lost).
CreateFails(r, fault) ==
  LET st == [exec[r].st EXCEPT !.status = "error"]
  IN  /\ exec[r].at = "create_approval"
      /\ \/ fault = "unreachable" /\ UNCHANGED approvals
         \/ fault = "lost answer"
            /\ \E id \in ApprovalId : Create(id, HeldRequest(exec[r]))
      /\ Advance(r, st, after_create(st))
      /\ UNCHANGED <<runs, refunds, seq, vendor, contended, performed, bounds>>

\* The caller's word that a person decided. It is only a reason to try again:
\* the tool server asks the store.
AwaitDecision(r) ==
  LET st == [exec[r].st EXCEPT
               !.status = IF exec[r].answer.yes THEN "approved" ELSE "denied"]
  IN  /\ exec[r].at = "await_decision"
      /\ Advance(r, st, after_decision(st))
      /\ UNCHANGED <<approvals, runs, refunds, seq, vendor, contended, performed, bounds>>

\* Answers are merged over the arguments, blanks excepted, as they were typed.
Merge(args, values) ==
  [id |-> IF values.id = NoId THEN args.id ELSE values.id,
   amount |-> IF values.amount = NoAmount THEN args.amount ELSE values.amount]

AskClarification(r) ==
  LET old == exec[r].st
      args == Merge(old.args, exec[r].answer.values)
      remaining == old.missing \cap Missing(old.tool, args)
      asks == old.asks + 1
      st == [old EXCEPT !.args = args, !.missing = remaining, !.asks = asks,
                        !.status = IF remaining # {} /\ asks >= MAX_ASKS
                                   THEN "refused" ELSE @]
  IN  /\ exec[r].at = "ask_clarification"
      /\ Advance(r, st, after_clarification(st))
      /\ UNCHANGED <<approvals, runs, refunds, seq, vendor, contended, performed, bounds>>

-----------------------------------------------------------------------------
(* The service and the people.                                             *)

WorkedOn(t) == \E r \in Replica : exec[r] # Idle /\ exec[r].thread = t

Start(r, t, u, a, node) ==
  exec' = [exec EXCEPT ![r] = [at |-> node, thread |-> t, st |-> ckpt[t].st,
                               as |-> u, answer |-> a, ret |-> NoReturn]]

\* POST /run: the graph starts at plan, on a new thread or on one the caller
\* names, whose state it then keeps.
Run(r, t, u) ==
  /\ exec[r] = Idle
  /\ bounds.runs < MaxRuns
  /\ WorkedOn(t) => bounds.overlaps < MaxOverlaps
  /\ Start(r, t, u, NoAnswer, "plan")
  /\ ckpt' = [ckpt EXCEPT ![t].next = "plan"]
  /\ runs' = [runs EXCEPT ![r][t] = u]
  /\ bounds' = [bounds EXCEPT !.runs = @ + 1,
                              !.overlaps = IF WorkedOn(t) THEN @ + 1 ELSE @]
  /\ UNCHANGED <<approvals, refunds, seq, vendor, contended, performed>>

\* POST /resume: the cached agent acts with the token that started the run; a
\* replica that never saw the run acts with the caller's. The graph goes on
\* from the checkpoint's next node, whichever that is (a run that stopped half
\* way is re-entered there); the answer is for a pause and is lost otherwise.
Resume(r, t, u, a) ==
  LET as == IF runs[r][t] = NoOne THEN u ELSE runs[r][t]
      node == ckpt[t].next
  IN  /\ exec[r] = Idle
      /\ node \in Node
      /\ WorkedOn(t) => bounds.overlaps < MaxOverlaps
      /\ Start(r, t, as, IF node \in Pause THEN a ELSE NoAnswer, node)
      /\ runs' = [runs EXCEPT ![r][t] = as]
      /\ bounds' = [bounds EXCEPT !.overlaps = IF WorkedOn(t) THEN @ + 1 ELSE @]
      /\ UNCHANGED <<approvals, ckpt, refunds, seq, vendor, contended, performed>>

\* A replica stops: the request in hand and the _runs cache are gone.
Restart(r) ==
  /\ bounds.restarts < MaxRestarts
  /\ exec[r] # Idle \/ \E t \in Thread : runs[r][t] # NoOne
  /\ exec' = [exec EXCEPT ![r] = Idle]
  /\ runs' = [runs EXCEPT ![r] = [t \in Thread |-> NoOne]]
  /\ vendor' = Orphaned(r)
  /\ bounds' = [bounds EXCEPT !.restarts = @ + 1]
  /\ UNCHANGED <<approvals, ckpt, refunds, seq, contended, performed>>

ManagerDecides(id, p, yes) ==
  /\ Decide(id, p, yes)
  /\ UNCHANGED agentVars

\* One step of the graph on replica r.
Step(r) ==
  \/ \E p \in Proposal, more \in BOOLEAN : PlanCall(r, p, more)
  \/ \E p \in Proposal : PlanClarify(r, p)
  \/ \E status \in {"refused", "error"} : PlanNothing(r, status)
  \/ RepeatCall(r)
  \/ \E fault \in Fault \cup {"none"} : CallTool(r, fault)
  \/ \E fault \in Fault \cup {"none"}, w \in Worker : CallVendor(r, fault, w)
  \/ CallTimesOut(r)
  \/ ToolAnswered(r)
  \/ \E id \in ApprovalId : CreateApproval(r, id)
  \/ ApprovalCreated(r)
  \/ \E fault \in Fault : CreateFails(r, fault)
  \/ AwaitDecision(r)
  \/ AskClarification(r)

\* One step of the vendor's worker w.
Pay(w) == \E c \in vendor : c.worker = w /\ issue_refund(c)

Next ==
  \/ \E r \in Replica : Step(r)
  \/ \E w \in Worker : Pay(w)
  \/ \E r \in Replica, t \in Thread, u \in Person : Run(r, t, u)
  \/ \E r \in Replica, t \in Thread, u \in Person, a \in Answer : Resume(r, t, u, a)
  \/ \E r \in Replica : Restart(r)
  \/ \E id \in ApprovalId, p \in Person, yes \in BOOLEAN : ManagerDecides(id, p, yes)

Spec == Init /\ [][Next]_vars

\* A replica that is not restarted goes on with its request, and a worker of
\* the vendor's with its refund; people and managers owe nothing.
FairSpec ==
  /\ Spec
  /\ \A r \in Replica : WF_vars(Step(r))
  /\ \A w \in Worker : WF_vars(Pay(w))

\* A person at the run's own replica who keeps pressing Resume.
PatientUser(r, t, u) ==
  \E a \in Answer : a.yes /\ Resume(r, t, u, a)

\* The services behind a tool call do not fail every time it is made.
PatientSpec ==
  /\ FairSpec
  /\ \A r \in Replica :
       SF_vars(CallTool(r, "none") \/ \E w \in Worker : CallVendor(r, "none", w))
  /\ \A r \in Replica, t \in Thread, u \in Person : WF_vars(PatientUser(r, t, u))

-----------------------------------------------------------------------------
(* The type of every variable.                                             *)
TypeOK ==
  /\ ApprovalsTypeOK
  /\ exec \in [Replica -> Invocation \cup {Idle}]
  /\ ckpt \in [Thread -> Checkpoint]
  /\ runs \in [Replica -> [Thread -> Person \cup {NoOne}]]
  /\ refunds \subseteq Refund
  /\ seq \in Nat \ {0}
  /\ vendor \subseteq VendorCall /\ contended \subseteq ApprovalId \cup {NoKey}
  /\ performed \subseteq [request : Request, key : ApprovalId \cup {NoKey}]
  /\ bounds \in [runs : 0..MaxRuns, restarts : 0..MaxRestarts,
                 overlaps : 0..MaxOverlaps]

(* Past the planning node a run always has a tool of the catalogue, also   *)
(* where an old thread is started again and its earlier state is kept: a   *)
(* refusal never falls through to a call (plan, after_plan).               *)
ToolIsChosen ==
  /\ \A r \in Replica : exec[r].at \in Place \ {"plan"} => exec[r].st.tool \in Catalogue
  /\ \A t \in Thread : ckpt[t].next \in Node \ {"plan"} => ckpt[t].st.tool \in Catalogue

(* A call the policy holds is carried out only under an approval that a    *)
(* manager other than the requester gave for exactly that tool, those      *)
(* arguments and that person, however often and from wherever the run is   *)
(* resumed (enforcement.py's require_approval branch, store.verify).       *)
HeldCallsAreApproved ==
  \A e \in performed :
    /\ e.key \in ApprovalId
    /\ approvals[e.key].status = "approved"
    /\ approvals[e.key].request = e.request
    /\ approvals[e.key].approver \in Managers \ {e.request.user}

(* The vendor's ledger agrees with the approval store: every refund above  *)
(* the automatic limit carries the id of an approved approval for that     *)
(* order, that amount and that tenant.                                     *)
LargeRefundsAreApproved ==
  \A f \in refunds : f.amount > AutoRefundLimit =>
    /\ f.key \in ApprovalId
    /\ approvals[f.key].status = "approved"
    /\ approvals[f.key].request.tool = RefundTool
    /\ approvals[f.key].request.args = [id |-> f.id, amount |-> Number(f.amount)]
    /\ approvals[f.key].request.tenant = f.tenant

\* The refunds that need an approval, as the vendor's ledger shows them.
LargeRefunds == {f \in refunds : f.amount > AutoRefundLimit}
CarriedOut ==
  {[key |-> f.key, args |-> [id |-> f.id, amount |-> Number(f.amount)],
    tenant |-> f.tenant] : f \in LargeRefunds}

UnderWay ==
  {[worker |-> c.worker, key |-> c.key] : c \in {d \in vendor : d.amount > AutoRefundLimit}}

Held == INSTANCE HeldAction WITH carried <- CarriedOut, going <- UnderWay,
                                 times <- Cardinality(LargeRefunds)

(* The agent, the tool server, the store and the vendor together are a     *)
(* held action: whatever is resumed, overlapped, lost or restarted, each   *)
(* refund above the limit is issued by a call that began after the         *)
(* approval it is filed under was given and before anything was done under *)
(* it, for the order and the amount that were approved (enforcement.py's   *)
(* require_approval branch). A run that is resumed once an approval has    *)
(* been paid never pays it again.                                          *)
HeldSpec == Held!HeldActionSpec

(* An approval whose run is resumed again is paid once: across restarts,   *)
(* answers that were lost, and calls whose caller has gone, as long as no  *)
(* two calls under it are at the vendor at the same time.                  *)
ResumedApprovalPaysOnce ==
  \A f, g \in refunds : f.key = g.key /\ f.key \notin contended \cup {NoKey} => f = g

(* "the same approval resumed twice must issue one refund, not two (S24)": *)
(* also while the first call is still being served. issue_refund looks for *)
(* the key and files the refund in two steps, so a resume that comes       *)
(* between them pays again.                                                *)
OneRefundPerApproval ==
  \A f, g \in refunds : f.key = g.key /\ f.key # NoKey => f = g

(* Resuming early, resuming twice and resuming a denied hold never put a   *)
(* second copy of a request in the managers' queue (after_call).           *)
NoTwinInTheQueue ==
  \A i, j \in ApprovalId :
    approvals[i].status = "pending" /\ approvals[j].status = "pending"
      /\ approvals[i].request = approvals[j].request => i = j

\* The approval in the state was asked for the call in the state.
NamesItsApproval(st) ==
  /\ st.approval_id \in ApprovalId
  /\ approvals[st.approval_id] # NoApproval
  /\ approvals[st.approval_id].request.tool = st.tool
  /\ approvals[st.approval_id].request.args = st.args

(* A run that waits for a decision waits for a decision on the call it     *)
(* will make: the approval it names was asked for this tool and these      *)
(* arguments ("Clearing it here is what lets `after_call` tell a re-hold   *)
(* from a new hold"). A run somebody was asked a question in is excepted:  *)
(* the plan that asks does not clear it.                                   *)
HoldNamesItsApproval ==
  \A t \in Thread : ckpt[t].next = "await_decision" /\ ckpt[t].st.asks = 0 =>
    NamesItsApproval(ckpt[t].st)

(* The same for every run ("any approval from an earlier step belongs to   *)
(* that step, not this one"): one that asked a question keeps the approval *)
(* of the step before, and waits for a decision that was about that one.   *)
EveryHoldNamesItsApproval ==
  \A t \in Thread : ckpt[t].next = "await_decision" => NamesItsApproval(ckpt[t].st)

(* What the run reports as done was done: a refund step's receipt is a     *)
(* refund of that order and that amount in the vendor's ledger, whatever   *)
(* was lost, held and resumed (again but for runs with a question).        *)
ReceiptMatchesCall ==
  \A t \in Thread : ckpt[t].st.asks = 0 => \A i \in DOMAIN ckpt[t].st.observations :
    LET o == ckpt[t].st.observations[i]
    IN  o.tool = RefundTool /\ o.args.id \in KnownId =>
          \E f \in refunds : /\ f.n = o.receipt /\ f.id = o.args.id
                             /\ f.amount = o.args.amount.value

(* Every request to /run or /resume is answered: the graph cannot go round *)
(* for ever, whatever the model proposes and whatever fails.               *)
EveryRequestIsAnswered ==
  \A r \in Replica : (exec[r] # Idle) ~> (exec[r] = Idle)

\* The run is over: whoever resumed it took the request back, or a failure was
\* reported to them.
Ended(t) == ckpt[t].next = "END" /\ ckpt[t].st.status \in {"denied", "error"}

\* The approval was asked for the call in the state, however it is spelt.
IsFor(id, st) ==
  /\ approvals[id].request.tool = st.tool
  /\ coerce_args(approvals[id].request.args) = coerce_args(st.args)

(* "Approved by a manager - the agent may perform this action": a run that *)
(* waits with an approval given for the very call it waits to make goes on *)
(* to make it once its user keeps resuming it - that call, so a step is    *)
(* added, and under that approval - unless the run was told to give up or  *)
(* ended in an error the user was shown. It is not held again for good.    *)
ApprovedHoldIsCarriedOut ==
  \A t \in Thread, id \in ApprovalId, n \in 0 .. MAX_STEPS - 1 :
    (/\ ckpt[t].next = "await_decision"
     /\ ckpt[t].st.approval_id = id /\ ckpt[t].st.steps = n
     /\ approvals[id].status = "approved" /\ IsFor(id, ckpt[t].st))
      ~> (Ended(t) \/ (ckpt[t].st.steps > n /\ \E e \in performed : e.key = id))
=============================================================================
