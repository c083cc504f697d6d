---------------------------- MODULE MCNicVfPool ----------------------------
(* Two test processes on one host with a pool of two VFs; each clone_vm     *)
(* asks for VFs by address, for 'any' VFs, or both.                        *)
EXTENDS NicVfPool

CONSTANTS p1, p2, v1, v2

MCProcs == {p1, p2}
MCVfs == {v1, v2}
MCPoolOrder == <<v1, v2>>
MCRequests == {<<"any">>, <<"any", "any">>, <<v1, v2>>, <<v2, "any">>}

=============================================================================
