--------------------------- MODULE MCLifecycle ---------------------------
(* Instances of Lifecycle for TLC: the constants are sets of numbers and     *)
(* names, given in the .cfg.                                                 *)
EXTENDS Lifecycle
===========================================================================
