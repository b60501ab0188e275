----------------------------- MODULE MCSandbox ------------------------------
(* Values for Sandbox: workers and keys are interchangeable.               *)
EXTENDS Sandbox, TLC

CONSTANTS MaxRefund, MaxDraft   \* the last number of each kind

MCMaxNumber == [kind \in Kind |-> IF kind = "refund" THEN MaxRefund ELSE MaxDraft]

Symmetry == Permutations(Worker) \cup Permutations(Key)
=============================================================================
