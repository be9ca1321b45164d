---------------------------- MODULE MCSupervisor ----------------------------
(* Instances of Supervisor for TLC.  The objects' names are given here since  *)
(* a function cannot be written in a .cfg.                                    *)
EXTENDS Supervisor

CONSTANTS a, b, a1, a2, a3, b1, b2

MCNameOf == [i \in Insts |-> IF i \in {b1, b2} THEN b ELSE a]
=============================================================================
