----------------------------- MODULE MCGateway ------------------------------
(* Values for Gateway: workers and callers are interchangeable.            *)
EXTENDS Gateway, TLC

Symmetry == Permutations(Worker) \cup Permutations(Caller)
=============================================================================
