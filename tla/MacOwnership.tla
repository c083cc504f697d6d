---------------------------- MODULE MacOwnership ----------------------------
(***************************************************************************)
(* What the vm_macs pool of src/test/robot/libraries/resource_mgr promises *)
(* its clients, stated without transactions, retries or libvirt: each MAC  *)
(* address of a bridge is unknown to the pool, free, owned by exactly one  *)
(* robot process, or lost (still marked in use after its owner ended).     *)
(* A step names the record it changes, not the process that takes it: a   *)
(* record goes from free or unknown to one owner, from an owner to free   *)
(* or lost, and never from one owner to another or back from lost.        *)
(*   - get_free_vm_mac hands a free address to one process;                *)
(*   - add_vm_mac(in_use=True) records an address libvirt chose for the    *)
(*     process that runs the VM;                                           *)
(*   - return_vm_mac_to_pool frees an address that has an owner;           *)
(*   - a process that ends without returning its address loses it.         *)
(***************************************************************************)
CONSTANTS Procs, Macs

Lost == "lost"

Owners == {"absent", "free", Lost} \cup Procs

VARIABLE pool    \* the owner of each address

Init == pool \in [Macs -> {"absent", "free"}]

\* get_free_vm_mac: the query of in_use=False records and the update of
\* the first one to in_use=True, as one step.
Claim(p, a) ==
    /\ pool[a] = "free"
    /\ pool' = [pool EXCEPT ![a] = p]

\* add_vm_mac(address, bridge, in_use=True) of an address the pool lacks.
Record(p, a) ==
    /\ pool[a] = "absent"
    /\ pool' = [pool EXCEPT ![a] = p]

\* return_vm_mac_to_pool: the one in_use=True record of the address
\* becomes free.
Return(p, a) ==
    /\ pool[a] = p
    /\ pool' = [pool EXCEPT ![a] = "free"]

\* The owning process ends and its record stays in use.
Abandon(p, a) ==
    /\ pool[a] = p
    /\ pool' = [pool EXCEPT ![a] = Lost]

Next == \E p \in Procs, a \in Macs :
          Claim(p, a) \/ Record(p, a) \/ Return(p, a) \/ Abandon(p, a)

Spec == Init /\ [][Next]_pool

=============================================================================
