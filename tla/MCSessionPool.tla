-------------------------- MODULE MCSessionPool --------------------------
(* Instances of SessionPool for TLC.                                        *)
EXTENDS SessionPool, TLC

CONSTANTS s1, s2, j1, j2, j3

JobSymmetry == Permutations(Jobs)
===========================================================================
