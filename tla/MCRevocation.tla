--------------------------- MODULE MCRevocation -----------------------------
(* Values for Revocation: the service that keeps the copy and a caller.    *)
EXTENDS Revocation, TLC

CONSTANTS tools, agent

Symmetry == Permutations(Thread)
=============================================================================
