----------------------------- MODULE MCSession ------------------------------
(* A page with two calls at a time and two people who use it in turn.      *)
EXTENDS Session, TLC

CONSTANTS r1, r2

MCRequest == {r1, r2}
Symmetry == Permutations(MCRequest)
=============================================================================
