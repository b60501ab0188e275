------------------------------ MODULE MCAdmin -------------------------------
(* Two administrators, two names and a role nobody may grant.              *)
EXTENDS Admin, TLC

CONSTANTS a1, a2

MCCaller == {a1, a2}
Symmetry == Permutations(MCCaller)
=============================================================================
