--------------------------- MODULE MCMachineLease ---------------------------
(* Two test processes on one host, two physical machines in the pool, two  *)
(* runs per process.                                                       *)
EXTENDS MachineLease

CONSTANTS p1, p2, m1, m2

MCProcs == {p1, p2}
MCMachines == {m1, m2}
=============================================================================
