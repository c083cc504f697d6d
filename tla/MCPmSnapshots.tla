---------------------------- MODULE MCPmSnapshots ----------------------------
(* One machine, its 'clean' snapshot and one custom name, two kernels.     *)
EXTENDS PmSnapshots

CONSTANTS clean, deploy, k0, k1

MCNames == {clean, deploy}
MCKernels == {k0, k1}

=============================================================================
