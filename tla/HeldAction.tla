---------------------------- MODULE HeldAction ------------------------------
(***************************************************************************)
(* What holding an action for approval promises, seen from outside the     *)
(* agent: a store of approvals, and the vendor's record of what was done   *)
(* under them. Nothing that needs an approval is done without one, and     *)
(* what is done is what was approved. The vendor tests whether a request   *)
(* was carried out before it begins and carries it out later, so those     *)
(* that began before it was done may do it again; once it is done, nobody  *)
(* begins. There are no threads, replicas, checkpoints or retries here:    *)
(* AgentRun has them, and implements this.                                 *)
(***************************************************************************)
EXTENDS Approvals, Integers

CONSTANT Worker   \* the vendor's workers

VARIABLES
  carried,   \* what was done: the approval, the arguments, the tenant
  going,     \* what is being done: the worker and the approval
  times      \* how many times something was done

\* One approved request, done.
Effect(id) == [key |-> id, args |-> approvals[id].request.args,
               tenant |-> approvals[id].request.tenant]

HeldInit == ApprovalsInit /\ carried = {} /\ going = {} /\ times = 0

\* A worker begins on an approved request that has not been carried out.
Begin(w, id) ==
  /\ approvals[id].status = "approved"
  /\ \A e \in carried : e.key # id
  /\ \A g \in going : g.worker # w
  /\ going' = going \cup {[worker |-> w, key |-> id]}
  /\ UNCHANGED <<approvals, carried, times>>

\* It carries out what it began.
CarryOut(g) ==
  /\ g \in going
  /\ going' = going \ {g}
  /\ carried' = carried \cup {Effect(g.key)}
  /\ times' = times + 1
  /\ UNCHANGED approvals

HeldNext ==
  \/ ApprovalsNext /\ UNCHANGED <<carried, going, times>>
  \/ \E w \in Worker, id \in ApprovalId : Begin(w, id)
  \/ \E g \in going : CarryOut(g)

HeldActionSpec == HeldInit /\ [][HeldNext]_<<approvals, carried, going, times>>
=============================================================================
