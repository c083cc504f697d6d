------------------------------ MODULE MacPool ------------------------------
(***************************************************************************)
(* The VM MAC pool of ResourceMgr.py (table vm_macs of a shared SQLite     *)
(* file) as Virtualization.clone_vm and Virtualization.cleanup use it from *)
(* concurrent test processes on one host, all on the one network bridge.   *)
(* get_free_vm_mac selects a free record and marks it used inside one      *)
(* BEGIN EXCLUSIVE transaction; a VM that found no free record gets a MAC  *)
(* from libvirt, which add_vm_mac records as used; cleanup returns the     *)
(* VM's MAC to the pool and then destroys the domain.                      *)
(* Each run of a process clones one VM.  A suite may clone several         *)
(* (clone_vm_or_reserve_physical_machine), and cleanup returns each one's  *)
(* MAC in turn; the model bounds a run to one.                             *)
(***************************************************************************)
EXTENDS Integers, FiniteSets

CONSTANTS
    Procs,          \* test processes (model values)
    Macs,           \* MAC addresses (model values)
    RetryCount,     \* retry_decorator(count=5) of the ResourceMgr calls
    MaxRuns,        \* bound on the runs of one process
    DestroyMayFail, \* whether domain.destroy() may fail (the error is ignored)
    NoMac,          \* "no address" (model value)
    NoProc          \* "nobody holds the DB lock" (model value)

ASSUME /\ RetryCount \in Nat \ {0} /\ MaxRuns \in Nat
       /\ DestroyMayFail \in BOOLEAN
       /\ NoMac \notin Macs /\ NoProc \notin Procs

Records == {"absent", "free", "used"}
Pcs == {"idle", "claim", "select", "commit", "define", "info", "add", "up",
        "cleanup", "destroy", "done"}

VARIABLES
    rec,      \* vm_macs: the record of each address and its in_use flag
    dbLock,   \* process inside a BEGIN EXCLUSIVE transaction
    pc,       \* where each process is in clone_vm / cleanup
    tries,    \* attempts made by the current retried call
    sel,      \* record selected by the open get_free_vm_mac transaction
    mac,      \* the VM's MAC address (mac_addr_reused or the libvirt one)
    reused,   \* the MAC came from the pool
    vm,       \* the process's VM is running
    orphans,  \* MACs of VMs still running after their run ended
    runs      \* runs each process has finished

vars == <<rec, dbLock, pc, tries, sel, mac, reused, vm, orphans, runs>>

-----------------------------------------------------------------------------
FreeMacs == {a \in Macs : rec[a] = "free"}

\* MACs on the bridge: those of running VMs, current and orphaned.
LiveMacs == {mac[p] : p \in {q \in Procs : vm[q]}} \cup orphans

\* A MAC libvirt may generate: unknown to the pool and not on the bridge.
FreshMacs == {a \in Macs : rec[a] = "absent" /\ a \notin LiveMacs}

Init ==
    /\ rec \in [Macs -> {"absent", "free"}]
    /\ dbLock = NoProc
    /\ pc = [p \in Procs |-> "idle"]
    /\ tries = [p \in Procs |-> 0]
    /\ sel = [p \in Procs |-> NoMac]
    /\ mac = [p \in Procs |-> NoMac]
    /\ reused = [p \in Procs |-> FALSE]
    /\ vm = [p \in Procs |-> FALSE]
    /\ orphans = {}
    /\ runs = [p \in Procs |-> 0]

\* clone_vm with network_bridge set (NIC VF reservation precedes and is
\* modelled in NicVfPool).
Begin(p) ==
    /\ pc[p] = "idle"
    /\ runs[p] < MaxRuns
    /\ pc' = [pc EXCEPT ![p] = "claim"]
    /\ tries' = [tries EXCEPT ![p] = 0]
    /\ UNCHANGED <<rec, dbLock, sel, mac, reused, vm, orphans, runs>>

\* Fault variant of the _sqlite_begin hook: a plain deferred BEGIN that
\* takes no lock before the SELECT.
BeginDeferred(p, l) == l

\* _sqlite_begin: BEGIN EXCLUSIVE takes the database once no other
\* connection holds it.
BeginExclusive(p, l) == p

\* get_free_vm_mac: open the session's transaction.
ClaimBegin(p) ==
    /\ pc[p] = "claim"
    /\ dbLock = NoProc
    /\ dbLock' = BeginExclusive(p, dbLock)
    /\ pc' = [pc EXCEPT ![p] = "select"]
    /\ UNCHANGED <<rec, tries, sel, mac, reused, vm, orphans, runs>>

\* Fault variant of retry_decorator: one attempt more than count.
MoreAttemptsOffByOne(n) == n <= RetryCount

\* retry_decorator: for _ in range(count), so another attempt follows the
\* n-th failed one while n < count; after the last one the error is raised.
MoreAttempts(n) == n < RetryCount

\* BEGIN EXCLUSIVE while another connection holds the database: after
\* pysqlite's busy timeout it raises OperationalError, which
\* retry_decorator retries like the LookupError; after the last attempt
\* clone_vm, which catches only LookupError, fails the stage before any
\* domain exists.
ClaimTimeout(p) ==
    /\ pc[p] = "claim"
    /\ dbLock \notin {NoProc, p}
    /\ tries' = [tries EXCEPT ![p] = @ + 1]
    /\ pc' = [pc EXCEPT ![p] = IF MoreAttempts(tries[p] + 1)
                               THEN "claim" ELSE "cleanup"]
    /\ UNCHANGED <<rec, dbLock, sel, mac, reused, vm, orphans, runs>>

\* query(...).filter_by(bridge, in_use=False): query.first() picks one free
\* record; with none, LookupError rolls back and retry_decorator sleeps and
\* retries; after the last attempt clone_vm catches the LookupError and
\* lets libvirt choose the MAC.
ClaimSelect(p) ==
    /\ pc[p] = "select"
    /\ IF FreeMacs # {}
       THEN \E a \in FreeMacs :
              /\ sel' = [sel EXCEPT ![p] = a]
              /\ pc' = [pc EXCEPT ![p] = "commit"]
              /\ UNCHANGED <<dbLock, tries, reused>>
       ELSE /\ dbLock' = IF dbLock = p THEN NoProc ELSE dbLock
            /\ tries' = [tries EXCEPT ![p] = @ + 1]
            /\ pc' = [pc EXCEPT ![p] = IF MoreAttempts(tries[p] + 1)
                                       THEN "claim" ELSE "define"]
            /\ reused' = [reused EXCEPT ![p] = FALSE]
            /\ UNCHANGED sel
    /\ UNCHANGED <<rec, mac, vm, orphans, runs>>

\* free_mac.in_use = True; session.commit() ends the transaction.
ClaimCommit(p) ==
    /\ pc[p] = "commit"
    /\ rec' = [rec EXCEPT ![sel[p]] = "used"]
    /\ dbLock' = IF dbLock = p THEN NoProc ELSE dbLock
    /\ mac' = [mac EXCEPT ![p] = sel[p]]
    /\ reused' = [reused EXCEPT ![p] = TRUE]
    /\ sel' = [sel EXCEPT ![p] = NoMac]
    /\ pc' = [pc EXCEPT ![p] = "define"]
    /\ UNCHANGED <<tries, vm, orphans, runs>>

\* _prepare_xmls, volume clone, defineXML and dom.create(): the VM starts
\* with the reused MAC or one libvirt generates; a failure before the
\* domain exists fails the stage, and the suite teardown cleans up.
Define(p) ==
    /\ pc[p] = "define"
    /\ \/ /\ reused[p]
          /\ vm' = [vm EXCEPT ![p] = TRUE]
          /\ pc' = [pc EXCEPT ![p] = "info"]
          /\ UNCHANGED mac
       \/ /\ ~reused[p]
          /\ \E a \in FreshMacs :
               /\ mac' = [mac EXCEPT ![p] = a]
               /\ vm' = [vm EXCEPT ![p] = TRUE]
               /\ pc' = [pc EXCEPT ![p] = "info"]
       \/ /\ pc' = [pc EXCEPT ![p] = "cleanup"]
          /\ UNCHANGED <<mac, vm>>
    /\ UNCHANGED <<rec, dbLock, tries, sel, reused, orphans, runs>>

\* _get_vm_ip, _copy_ssh_key and _get_vm_mac: their failure (after their
\* own retries) fails the stage with the VM running.
VmInfo(p) ==
    /\ pc[p] = "info"
    /\ \E ok \in BOOLEAN :
         pc' = [pc EXCEPT ![p] = IF ~ok THEN "cleanup"
                                 ELSE IF reused[p] THEN "up" ELSE "add"]
    /\ UNCHANGED <<rec, dbLock, tries, sel, mac, reused, vm, orphans, runs>>

\* Fault variant: the libvirt MAC is added with in_use=False.
AddVmMacNotInUse(p) ==
    /\ pc[p] = "add"
    /\ dbLock = NoProc
    /\ rec' = [rec EXCEPT ![mac[p]] = "free"]
    /\ pc' = [pc EXCEPT ![p] = "up"]
    /\ UNCHANGED <<dbLock, tries, sel, mac, reused, vm, orphans, runs>>

\* add_vm_mac(mac_addr, bridge, in_use=True) for a libvirt MAC.
AddVmMac(p) ==
    /\ pc[p] = "add"
    /\ dbLock = NoProc
    /\ rec' = [rec EXCEPT ![mac[p]] = "used"]
    /\ pc' = [pc EXCEPT ![p] = "up"]
    /\ UNCHANGED <<dbLock, tries, sel, mac, reused, vm, orphans, runs>>

\* The VM serves the tests until the suite teardown.
Teardown(p) ==
    /\ pc[p] = "up"
    /\ pc' = [pc EXCEPT ![p] = "cleanup"]
    /\ UNCHANGED <<rec, dbLock, tries, sel, mac, reused, vm, orphans, runs>>

\* Virtualization.cleanup for the run's domain: return_vm_mac_to_pool needs
\* exactly one used record of the VM's MAC, otherwise LookupError is
\* retried and re-raised, which ends cleanup before domain.destroy().  No
\* domain: nothing to return.
ReturnVmMac(p) ==
    /\ pc[p] = "cleanup"
    /\ dbLock = NoProc
    /\ IF vm[p]
       THEN IF rec[mac[p]] = "used"
            THEN /\ rec' = [rec EXCEPT ![mac[p]] = "free"]
                 /\ pc' = [pc EXCEPT ![p] = "destroy"]
            ELSE /\ pc' = [pc EXCEPT ![p] = "done"]
                 /\ UNCHANGED rec
       ELSE /\ pc' = [pc EXCEPT ![p] = "done"]
            /\ UNCHANGED rec
    /\ UNCHANGED <<dbLock, tries, sel, mac, reused, vm, orphans, runs>>

\* try: domain.destroy() except: pass; then the snapshots are deleted and
\* the domain undefined: a domain that did not stop keeps running, and
\* the run has no domain, and so no MAC, left.
DestroyDomain(p) ==
    /\ pc[p] = "destroy"
    /\ \E stopped \in IF DestroyMayFail THEN BOOLEAN ELSE {TRUE} :
         orphans' = IF stopped THEN orphans ELSE orphans \cup {mac[p]}
    /\ vm' = [vm EXCEPT ![p] = FALSE]
    /\ mac' = [mac EXCEPT ![p] = NoMac]
    /\ pc' = [pc EXCEPT ![p] = "done"]
    /\ UNCHANGED <<rec, dbLock, tries, sel, reused, runs>>

\* The robot process ends; a VM it did not destroy keeps running.
Exit(p) ==
    /\ pc[p] = "done"
    /\ orphans' = IF vm[p] THEN orphans \cup {mac[p]} ELSE orphans
    /\ vm' = [vm EXCEPT ![p] = FALSE]
    /\ mac' = [mac EXCEPT ![p] = NoMac]
    /\ reused' = [reused EXCEPT ![p] = FALSE]
    /\ pc' = [pc EXCEPT ![p] = "idle"]
    /\ runs' = [runs EXCEPT ![p] = @ + 1]
    /\ UNCHANGED <<rec, dbLock, tries, sel>>

Step(p) ==
    \/ Begin(p)
    \/ ClaimBegin(p)
    \/ ClaimTimeout(p)
    \/ ClaimSelect(p)
    \/ ClaimCommit(p)
    \/ Define(p)
    \/ VmInfo(p)
    \/ AddVmMac(p)
    \/ Teardown(p)
    \/ ReturnVmMac(p)
    \/ DestroyDomain(p)
    \/ Exit(p)

Next == \E p \in Procs : Step(p)

Spec == Init /\ [][Next]_vars

-----------------------------------------------------------------------------
(* Properties                                                              *)

TypeOK ==
    /\ rec \in [Macs -> Records]
    /\ dbLock \in Procs \cup {NoProc}
    /\ pc \in [Procs -> Pcs]
    /\ tries \in [Procs -> 0..RetryCount]
    /\ sel \in [Procs -> Macs \cup {NoMac}]
    /\ mac \in [Procs -> Macs \cup {NoMac}]
    /\ reused \in [Procs -> BOOLEAN]
    /\ vm \in [Procs -> BOOLEAN]
    /\ orphans \subseteq Macs
    /\ runs \in [Procs -> 0..MaxRuns]

\* A process holds the MAC it claimed from the pool until cleanup returns it.
HoldsClaim(p) == reused[p] /\ pc[p] \in {"define", "info", "up", "cleanup"}

\* Concurrent get_free_vm_mac calls never hand out the same record: of two
\* processes holding a claimed MAC, the MACs differ.
NoDoubleClaim ==
    \A p, q \in Procs :
        p # q /\ HoldsClaim(p) /\ HoldsClaim(q) => mac[p] # mac[q]

\* No two running VMs on the bridge have the same MAC address.
NoDuplicateLiveMac ==
    /\ \A p, q \in Procs : p # q /\ vm[p] /\ vm[q] => mac[p] # mac[q]
    /\ \A p \in Procs : vm[p] => mac[p] \notin orphans

\* Once every process has exited, the pool and the bridge are clean: no
\* record is left in use and no VM of a finished run is still running.
CleanupComplete ==
    (\A p \in Procs : pc[p] = "idle") =>
        /\ \A a \in Macs : rec[a] # "used"
        /\ orphans = {}

-----------------------------------------------------------------------------
(* Refinement of MacOwnership                                              *)

\* The processes whose run has the MAC a: its VM, or the record it
\* claimed, until Virtualization.cleanup destroys the domain.
Holders(a) == {p \in Procs : mac[p] = a /\ pc[p] \notin {"idle", "destroy"}}

\* The owner of each vm_macs record: a record in use belongs to the run
\* that has its MAC, or is lost when no run has it.
PoolOwner ==
    [a \in Macs |->
        IF rec[a] # "used" THEN rec[a]
        ELSE IF Holders(a) = {} THEN "lost"
        ELSE CHOOSE p \in Holders(a) : TRUE]

Ownership == INSTANCE MacOwnership WITH pool <- PoolOwner

\* clone_vm, cleanup and the three ResourceMgr calls implement the pool's
\* promise: every step hands a free or unknown record to a run, frees a
\* record some run holds, or loses it when its run ends; a record never
\* passes from one run to another, and a lost one never comes back.
ImplementsOwnership == Ownership!Spec

=============================================================================
