------------------------------ MODULE MCFibers ------------------------------
(* Instances of Fibers for TLC: the main fiber and three more.             *)
EXTENDS Fibers

CONSTANTS f1, f2, f3, v1, v2
=============================================================================
