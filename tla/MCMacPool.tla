----------------------------- MODULE MCMacPool -----------------------------
(* Two test processes sharing a pool of three MAC addresses.               *)
EXTENDS MacPool

CONSTANTS p1, p2, a1, a2, a3

MCProcs == {p1, p2}
MCMacs == {a1, a2, a3}

=============================================================================
