----------------------------- MODULE NicVfPool -----------------------------
(***************************************************************************)
(* NIC virtual functions passed through to VMs (Virtualization.py):        *)
(* _reserve_nic_vfs binds each requested VF to vfio-pci with dpdk-devbind, *)
(* reverting the binds of the call when a reservation fails, and           *)
(* return_vfs_to_host rebinds every VF of _reserved_vfs_info to the driver *)
(* it had.  The driver binding of a VF is state of the host, shared by the *)
(* test processes; each process has its own copy of nic_vfs_pool (the list *)
(* of env.json), which the reservations shrink.                            *)
(***************************************************************************)
EXTENDS Integers, FiniteSets, SequencesExt

CONSTANTS
    Procs,     \* test processes on the host (model values)
    Vfs,       \* PCI addresses of the VFs (model values)
    PoolOrder, \* nic_vfs_pool of env.json, in its order
    Requests,  \* nic_vfs arguments of clone_vm: VFs and "any"
    MaxCalls,  \* bound on the clone_vm calls of one process
    Faults     \* whether a VF without driver or a failing bind can occur

ASSUME /\ PoolOrder \in Seq(Vfs)
       /\ Requests \subseteq Seq(Vfs \cup {"any"})
       /\ MaxCalls \in Nat /\ Faults \in BOOLEAN

VFIO == "vfio-pci"
\* A VF is bound to a host driver, to vfio-pci, or (the drv= field is
\* missing in dpdk-devbind -s) to no driver.
Drivers == {"host", VFIO, "none"}
Absent == "absent"
NoVf == "novf"

VARIABLES
    drv,      \* the driver each VF is bound to on the host
    drv0,     \* the binding before any test process ran (history)
    pool,     \* nic_vfs_pool of each process
    reserved, \* _reserved_vfs_info: VF |-> old_driver, Absent if none
    info,     \* nic_vfs_info of the running _reserve_nic_vfs call
    pc,       \* where each process is
    specs,    \* specific VFs of the call not handled yet
    numAny,   \* nic_vfs.count('any')
    numRes,   \* num_reserved
    cur,      \* the VF being reserved
    inAny,    \* the VF is reserved by the 'any' loop
    obs,      \* old_driver read from dpdk-devbind -s
    calls     \* clone_vm calls made by each process

vars == <<drv, drv0, pool, reserved, info, pc, specs, numAny, numRes, cur,
          inAny, obs, calls>>

NoneReserved == [v \in Vfs |-> Absent]
Keys(f) == {v \in Vfs : f[v] # Absent}

Init ==
    /\ drv \in [Vfs -> IF Faults THEN Drivers ELSE {"host", VFIO}]
    /\ drv0 = drv
    /\ pool = [p \in Procs |-> PoolOrder]
    /\ reserved = [p \in Procs |-> NoneReserved]
    /\ info = [p \in Procs |-> NoneReserved]
    /\ pc = [p \in Procs |-> "idle"]
    /\ specs = [p \in Procs |-> {}]
    /\ numAny = [p \in Procs |-> 0]
    /\ numRes = [p \in Procs |-> 0]
    /\ cur = [p \in Procs |-> NoVf]
    /\ inAny = [p \in Procs |-> FALSE]
    /\ obs = [p \in Procs |-> "host"]
    /\ calls = [p \in Procs |-> 0]

-----------------------------------------------------------------------------
\* clone_vm(nic_vfs=r) with r non-empty calls _reserve_nic_vfs: the
\* specific addresses as a set, then r.count('any') arbitrary VFs.
ReserveNicVfs(p) ==
    /\ pc[p] = "idle"
    /\ calls[p] < MaxCalls
    /\ \E r \in Requests :
         /\ specs' = [specs EXCEPT ![p] = ToSet(r) \ {"any"}]
         /\ numAny' = [numAny EXCEPT ![p] =
                         Cardinality({i \in DOMAIN r : r[i] = "any"})]
    /\ numRes' = [numRes EXCEPT ![p] = 0]
    /\ info' = [info EXCEPT ![p] = NoneReserved]
    /\ calls' = [calls EXCEPT ![p] = @ + 1]
    /\ pc' = [pc EXCEPT ![p] = "specific"]
    /\ UNCHANGED <<drv, drv0, pool, reserved, cur, inAny, obs>>

\* for specific_vf in specific_vfs: reserve_one_nic_vf raises LookupError
\* for a VF not in the pool, and the except branch reverts the call.
SpecificVf(p) ==
    /\ pc[p] = "specific"
    /\ specs[p] # {}
    /\ \E v \in specs[p] :
         /\ specs' = [specs EXCEPT ![p] = @ \ {v}]
         /\ cur' = [cur EXCEPT ![p] = v]
         /\ inAny' = [inAny EXCEPT ![p] = FALSE]
         /\ pc' = [pc EXCEPT ![p] = IF v \in ToSet(pool[p])
                                    THEN "status" ELSE "revert"]
    /\ UNCHANGED <<drv, drv0, pool, reserved, info, numAny, numRes, obs, calls>>

\* while num_reserved < num_any: an empty pool raises EnvironmentError
\* after revert_changes; otherwise try nic_vfs_pool[0].  The loop done,
\* clone_vm adds nic_vfs_info to _reserved_vfs_info.
AnyVf(p) ==
    /\ pc[p] = "specific"
    /\ specs[p] = {}
    /\ IF numRes[p] < numAny[p]
       THEN IF pool[p] = <<>>
            THEN /\ pc' = [pc EXCEPT ![p] = "revert"]
                 /\ UNCHANGED <<reserved, cur, inAny>>
            ELSE /\ cur' = [cur EXCEPT ![p] = Head(pool[p])]
                 /\ inAny' = [inAny EXCEPT ![p] = TRUE]
                 /\ pc' = [pc EXCEPT ![p] = "status"]
                 /\ UNCHANGED reserved
       ELSE /\ reserved' = [reserved EXCEPT ![p] =
                              [v \in Vfs |-> IF info[p][v] # Absent
                                             THEN info[p][v]
                                             ELSE reserved[p][v]]]
            /\ pc' = [pc EXCEPT ![p] = "idle"]
            /\ UNCHANGED <<cur, inAny>>
    /\ UNCHANGED <<drv, drv0, pool, info, specs, numAny, numRes, obs, calls>>

\* The 'finally' of the 'any' loop: the tried VF leaves the pool.
Tried(p) == [pool EXCEPT ![p] = RemoveFirst(@, cur[p])]

\* A raised error: the specific loop reverts the call's binds and
\* re-raises; the 'any' loop catches only ValueError, so any other error
\* leaves the loop with no revert.
Raise(p, isValueError) ==
    IF ~inAny[p]
    THEN /\ pc' = [pc EXCEPT ![p] = "revert"]
         /\ UNCHANGED pool
    ELSE /\ pool' = Tried(p)
         /\ pc' = [pc EXCEPT ![p] = IF isValueError THEN "specific"
                                    ELSE "teardown"]

\* Fault variant of reserve_one_nic_vf: no check that the VF is free.
InUseCheckDropped(d) == FALSE

\* reserve_one_nic_vf raises ValueError for a VF already on vfio-pci.
InUse(d) == d = VFIO

\* dpdk-devbind -s and re.search(r'drv=(\S+)'): with no drv= field the
\* match is None and .groups() raises AttributeError.
DevbindStatus(p) ==
    /\ pc[p] = "status"
    /\ LET d == drv[cur[p]] IN
       /\ obs' = [obs EXCEPT ![p] = d]
       /\ IF d = "none" THEN Raise(p, FALSE)
          ELSE IF InUse(d) THEN Raise(p, TRUE)
          ELSE /\ pc' = [pc EXCEPT ![p] = "bind"]
               /\ UNCHANGED pool
    /\ UNCHANGED <<drv, drv0, reserved, info, specs, numAny, numRes, cur,
                   inAny, calls>>

\* dpdk-devbind -b vfio-pci <vf> (check=True); on success the VF goes
\* into nic_vfs_info with the driver read before and leaves the pool.
DevbindBind(p) ==
    /\ pc[p] = "bind"
    /\ \E ok \in IF Faults THEN BOOLEAN ELSE {TRUE} :
         IF ok
         THEN /\ drv' = [drv EXCEPT ![cur[p]] = VFIO]
              /\ info' = [info EXCEPT ![p][cur[p]] = obs[p]]
              /\ pool' = Tried(p)
              /\ numRes' = [numRes EXCEPT ![p] = IF inAny[p] THEN @ + 1 ELSE @]
              /\ pc' = [pc EXCEPT ![p] = "specific"]
         ELSE /\ Raise(p, FALSE)
              /\ UNCHANGED <<drv, info, numRes>>
    /\ UNCHANGED <<drv0, reserved, specs, numAny, cur, inAny, obs, calls>>

\* revert_changes(): rebind every VF of nic_vfs_info to its old driver;
\* the error then fails clone_vm and the stage.
RevertChanges(p) ==
    /\ pc[p] = "revert"
    /\ drv' = [v \in Vfs |-> IF info[p][v] # Absent THEN info[p][v]
                             ELSE drv[v]]
    /\ pc' = [pc EXCEPT ![p] = "teardown"]
    /\ UNCHANGED <<drv0, pool, reserved, info, specs, numAny, numRes, cur,
                   inAny, obs, calls>>

\* Suite teardown: return_vfs_to_host rebinds the reserved VFs and clears
\* _reserved_vfs_info.
ReturnVfsToHost(p) ==
    /\ pc[p] \in {"idle", "teardown"}
    /\ drv' = [v \in Vfs |-> IF reserved[p][v] # Absent THEN reserved[p][v]
                             ELSE drv[v]]
    /\ reserved' = [reserved EXCEPT ![p] = NoneReserved]
    /\ pc' = [pc EXCEPT ![p] = "done"]
    /\ UNCHANGED <<drv0, pool, info, specs, numAny, numRes, cur, inAny, obs,
                   calls>>

Step(p) ==
    \/ ReserveNicVfs(p)
    \/ SpecificVf(p)
    \/ AnyVf(p)
    \/ DevbindStatus(p)
    \/ DevbindBind(p)
    \/ RevertChanges(p)
    \/ ReturnVfsToHost(p)

Next == \E p \in Procs : Step(p)

Spec == Init /\ [][Next]_vars

-----------------------------------------------------------------------------
(* Properties                                                              *)

\* Types; an old_driver recorded for a VF is never vfio-pci, since a VF
\* already on vfio-pci is not reserved.
TypeOK ==
    /\ drv \in [Vfs -> Drivers] /\ drv0 \in [Vfs -> Drivers]
    /\ pool \in [Procs -> Seq(Vfs)]
    /\ reserved \in [Procs -> [Vfs -> {Absent, "host", "none"}]]
    /\ info \in [Procs -> [Vfs -> {Absent, "host", "none"}]]
    /\ pc \in [Procs -> {"idle", "specific", "status", "bind", "revert",
                         "teardown", "done"}]
    /\ \A p \in Procs : numRes[p] <= numAny[p]
    /\ calls \in [Procs -> 0..MaxCalls]

\* Once every process has run its suite teardown, every VF is bound to the
\* driver it had before: the reverts and return_vfs_to_host undo every bind.
\* It holds only without Faults: an AttributeError or a failed bind in the
\* 'any' loop skips revert_changes (Virtualization.py:196), and the bind
\* of that clone_vm stays.
DriverRestored ==
    (\A p \in Procs : pc[p] = "done") => drv = drv0

\* No VF is reserved by two processes at once: each VF is passed through
\* to one VM only.
NoSharedVf ==
    \A p, q \in Procs :
        p # q => Keys(reserved[p]) \cap Keys(reserved[q]) = {}

=============================================================================
