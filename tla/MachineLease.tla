---------------------------- MODULE MachineLease ----------------------------
(***************************************************************************)
(* Reservation of physical machines by PhysicalMachines.py in concurrent   *)
(* test processes on one host.  reserve_physical_machine tries candidates  *)
(* from the pool; lock_machine treats an existing /var/lock/robot/<name>   *)
(* as "in use", otherwise touches it, opens it and takes a non-blocking    *)
(* flock; cleanup reverts the machine, closes the file and unlinks the     *)
(* path.  Every system call is one atomic step, so the steps of different  *)
(* processes interleave.  The file system is the map from lock paths to    *)
(* inodes and the flock holder of each inode.                              *)
(***************************************************************************)
EXTENDS Integers, FiniteSets

CONSTANTS
    Procs,      \* test processes (model values)
    Machines,   \* ${env_config['physical_machines']} (model values)
    MaxRuns,    \* bound on the runs of one process
    MaxInodes,  \* bound on the inodes created for lock files
    Crashes,    \* whether a process may be killed at any point
    NoMachine,  \* "no machine" (model value)
    NoHolder    \* "no flock holder" (model value)

ASSUME /\ MaxRuns \in Nat /\ MaxInodes \in Nat /\ Crashes \in BOOLEAN
       /\ NoMachine \notin Machines /\ NoHolder \notin Procs

NoInode == 0
Inodes == 1..MaxInodes
Pcs == {"idle", "pick", "exists", "touch", "open", "flock", "info", "ready",
        "cleanup", "close", "unlink", "exit"}

VARIABLES
    path,       \* inode linked at the machine's lock path, or NoInode
    nextInode,  \* inodes 1..nextInode have been created
    holder,     \* flock holder of each inode
    pc,         \* where each process is in reserve / lock_machine / cleanup
    cand,       \* candidates reserve_physical_machine has not tried yet
    cur,        \* machine being locked, or the one cleanup is releasing
    fd,         \* inode of the file object lock_machine opened
    lockfiles,  \* PhysicalMachines._lockfiles: machine -> inode, or NoInode
    snapshots,  \* machines with an entry in PhysicalMachines._snapshots
    runs        \* runs each process has finished

vars == <<path, nextInode, holder, pc, cand, cur, fd, lockfiles, snapshots, runs>>

-----------------------------------------------------------------------------
Held(p) == {m \in Machines : lockfiles[p][m] # NoInode}

\* Open with create: the inode at path m, or a fresh one linked there.
LinkOrCreate(m) ==
    IF path[m] # NoInode
    THEN UNCHANGED <<path, nextInode>>
    ELSE /\ nextInode < MaxInodes
         /\ nextInode' = nextInode + 1
         /\ path' = [path EXCEPT ![m] = nextInode + 1]

\* Fault variant of open(lock_file_path, 'w'): a new file even when the
\* path exists.
OpenedInodeFresh(m) == nextInode + 1

OpenedInode(m) == IF path[m] # NoInode THEN path[m] ELSE nextInode + 1

Init ==
    /\ path = [m \in Machines |-> NoInode]
    /\ nextInode = 0
    /\ holder = [i \in Inodes |-> NoHolder]
    /\ pc = [p \in Procs |-> "idle"]
    /\ cand = [p \in Procs |-> {}]
    /\ cur = [p \in Procs |-> NoMachine]
    /\ fd = [p \in Procs |-> NoInode]
    /\ lockfiles = [p \in Procs |-> [m \in Machines |-> NoInode]]
    /\ snapshots = [p \in Procs |-> {}]
    /\ runs = [p \in Procs |-> 0]

\* reserve_physical_machine(): machines_pool is a copy of the whole pool.
BeginReserve(p) ==
    /\ pc[p] = "idle"
    /\ runs[p] < MaxRuns
    /\ pc' = [pc EXCEPT ![p] = "pick"]
    /\ cand' = [cand EXCEPT ![p] = Machines]
    /\ UNCHANGED <<path, nextInode, holder, cur, fd, lockfiles, snapshots, runs>>

\* Fault variant of the candidate bookkeeping: a tried machine stays.
RemainingKept(c, m) == c

\* popitem(): a tried candidate leaves the local pool.
Remaining(c, m) == c \ {m}

\* One iteration of the candidate loop: an empty pool raises
\* EnvironmentError; ssh.connect is outside the try, so its failure ends
\* the reservation; a failed check_machine_prereqs moves to the next one.
Pick(p) ==
    /\ pc[p] = "pick"
    /\ IF cand[p] = {}
       THEN /\ pc' = [pc EXCEPT ![p] = "cleanup"]
            /\ UNCHANGED <<cand, cur>>
       ELSE \E m \in cand[p], outcome \in {"connect_failed", "prereqs_failed", "ok"} :
              /\ cand' = [cand EXCEPT ![p] = Remaining(@, m)]
              /\ cur' = [cur EXCEPT ![p] = m]
              /\ pc' = [pc EXCEPT ![p] = CASE outcome = "connect_failed" -> "cleanup"
                                           [] outcome = "prereqs_failed" -> "pick"
                                           [] outcome = "ok" -> "exists"]
    /\ UNCHANGED <<path, nextInode, holder, fd, lockfiles, snapshots, runs>>

\* lock_machine, reuse=False: an existing lock file raises UserWarning,
\* which the candidate loop catches.
ExistsCheck(p) ==
    /\ pc[p] = "exists"
    /\ pc' = [pc EXCEPT ![p] = IF path[cur[p]] # NoInode THEN "pick" ELSE "touch"]
    /\ UNCHANGED <<path, nextInode, holder, cand, cur, fd, lockfiles, snapshots, runs>>

\* os.system("touch <path>"): creates the file if it is missing now.
Touch(p) ==
    /\ pc[p] = "touch"
    /\ LinkOrCreate(cur[p])
    /\ pc' = [pc EXCEPT ![p] = "open"]
    /\ UNCHANGED <<holder, cand, cur, fd, lockfiles, snapshots, runs>>

\* open(lock_file_path, 'w'): the inode linked at the path now.
Open(p) ==
    /\ pc[p] = "open"
    /\ fd' = [fd EXCEPT ![p] = OpenedInode(cur[p])]
    /\ LinkOrCreate(cur[p])
    /\ pc' = [pc EXCEPT ![p] = "flock"]
    /\ UNCHANGED <<holder, cand, cur, lockfiles, snapshots, runs>>

\* flock(LOCK_EX | LOCK_NB) succeeds when no other file object holds it.
FlockGranted(i) == holder[i] = NoHolder

\* On success the file object is kept in _lockfiles; otherwise it is
\* closed and the error is caught by the candidate loop.
Flock(p) ==
    /\ pc[p] = "flock"
    /\ LET i == fd[p] IN
       IF FlockGranted(i)
       THEN /\ holder' = [holder EXCEPT ![i] = p]
            /\ lockfiles' = [lockfiles EXCEPT ![p][cur[p]] = i]
            /\ pc' = [pc EXCEPT ![p] = "info"]
       ELSE /\ pc' = [pc EXCEPT ![p] = "pick"]
            /\ UNCHANGED <<holder, lockfiles>>
    /\ fd' = [fd EXCEPT ![p] = NoInode]
    /\ UNCHANGED <<path, nextInode, cand, cur, snapshots, runs>>

\* After the loop: _get_nics, _get_machine_hostname and _get_machine_ip run
\* ssh commands; their failure leaves the lock in _lockfiles but no entry
\* in _snapshots.  On success the machine is reserved.
MachineInfo(p) ==
    /\ pc[p] = "info"
    /\ \E ok \in BOOLEAN :
          /\ pc' = [pc EXCEPT ![p] = IF ok THEN "ready" ELSE "cleanup"]
          /\ snapshots' = IF ok THEN [snapshots EXCEPT ![p] = @ \cup {cur[p]}]
                                ELSE snapshots
    /\ UNCHANGED <<path, nextInode, holder, cand, cur, fd, lockfiles, runs>>

\* The tests run on the reserved machine, then the suite teardown.
Release(p) ==
    /\ pc[p] = "ready"
    /\ pc' = [pc EXCEPT ![p] = "cleanup"]
    /\ UNCHANGED <<path, nextInode, holder, cand, cur, fd, lockfiles, snapshots, runs>>

\* cleanup(), one machine of _lockfiles: self._snapshots[machine_name]
\* raises KeyError for a machine without an entry; remove_snapshot and
\* revert_to_snapshot_and_recreate run ssh commands and may fail.  Any
\* error ends cleanup with the remaining lock files in place.
CleanupMachine(p) ==
    /\ pc[p] = "cleanup"
    /\ IF Held(p) = {}
       THEN /\ pc' = [pc EXCEPT ![p] = "exit"]
            /\ UNCHANGED cur
       ELSE \E m \in Held(p), reverted \in BOOLEAN :
              /\ cur' = [cur EXCEPT ![p] = m]
              /\ pc' = [pc EXCEPT ![p] = IF m \in snapshots[p] /\ reverted
                                         THEN "close" ELSE "exit"]
    /\ UNCHANGED <<path, nextInode, holder, cand, fd, lockfiles, snapshots, runs>>

\* fd.close(): the flock on the inode is released.
Close(p) ==
    /\ pc[p] = "close"
    /\ holder' = [holder EXCEPT ![lockfiles[p][cur[p]]] = NoHolder]
    /\ pc' = [pc EXCEPT ![p] = "unlink"]
    /\ UNCHANGED <<path, nextInode, cand, cur, fd, lockfiles, snapshots, runs>>

\* os.unlink(fd.name): removes whatever is linked at the path now.
Unlink(p) ==
    /\ pc[p] = "unlink"
    /\ path' = [path EXCEPT ![cur[p]] = NoInode]
    /\ lockfiles' = [lockfiles EXCEPT ![p][cur[p]] = NoInode]
    /\ pc' = [pc EXCEPT ![p] = "cleanup"]
    /\ UNCHANGED <<nextInode, holder, cand, cur, fd, snapshots, runs>>

\* The robot process ends, normally or killed: the kernel closes its files
\* and so drops its flocks; lock files stay where they are.
ExitAt(p, stages) ==
    /\ pc[p] \in stages
    /\ holder' = [i \in Inodes |-> IF holder[i] = p THEN NoHolder ELSE holder[i]]
    /\ pc' = [pc EXCEPT ![p] = "idle"]
    /\ lockfiles' = [lockfiles EXCEPT ![p] = [m \in Machines |-> NoInode]]
    /\ snapshots' = [snapshots EXCEPT ![p] = {}]
    /\ fd' = [fd EXCEPT ![p] = NoInode]
    /\ cur' = [cur EXCEPT ![p] = NoMachine]
    /\ runs' = [runs EXCEPT ![p] = @ + 1]
    /\ UNCHANGED <<path, nextInode, cand>>

Exit(p) == ExitAt(p, {"exit"})

Crash(p) == Crashes /\ ExitAt(p, Pcs \ {"idle", "exit"})

Step(p) ==
    \/ BeginReserve(p)
    \/ Pick(p)
    \/ ExistsCheck(p)
    \/ Touch(p)
    \/ Open(p)
    \/ Flock(p)
    \/ MachineInfo(p)
    \/ Release(p)
    \/ CleanupMachine(p)
    \/ Close(p)
    \/ Unlink(p)
    \/ Exit(p)
    \/ Crash(p)

Next == \E p \in Procs : Step(p)

\* Each robot process keeps running until it exits: weak fairness on its
\* steps other than being killed and starting another run.
Fairness ==
    \A p \in Procs :
        WF_vars(Pick(p) \/ ExistsCheck(p) \/ Touch(p) \/ Open(p) \/ Flock(p)
                \/ MachineInfo(p) \/ Release(p) \/ CleanupMachine(p)
                \/ Close(p) \/ Unlink(p) \/ Exit(p))

Spec == Init /\ [][Next]_vars /\ Fairness

-----------------------------------------------------------------------------
(* Properties                                                              *)

TypeOK ==
    /\ path \in [Machines -> {NoInode} \cup Inodes]
    /\ nextInode \in 0..MaxInodes
    /\ holder \in [Inodes -> Procs \cup {NoHolder}]
    /\ pc \in [Procs -> Pcs]
    /\ cand \in [Procs -> SUBSET Machines]
    /\ fd \in [Procs -> {NoInode} \cup Inodes]
    /\ lockfiles \in [Procs -> [Machines -> {NoInode} \cup Inodes]]
    /\ snapshots \in [Procs -> SUBSET Machines]
    /\ runs \in [Procs -> 0..MaxRuns]

\* A physical machine is in use by at most one test process at a time (the
\* lock is what keeps two suites off one machine).  A process stops using
\* the machine when cleanup has closed its lock file.
InUse(p, m) == m \in Held(p) /\ ~(pc[p] = "unlink" /\ cur[p] = m)

MutualExclusion ==
    \A m \in Machines : Cardinality({p \in Procs : InUse(p, m)}) <= 1

\* Every reservation comes to an end: the candidate loop either reserves a
\* machine or gives up, each candidate being tried once.
ReserveEnds ==
    \A p \in Procs : pc[p] = "pick" ~> pc[p] \in {"ready", "cleanup", "idle"}

=============================================================================
