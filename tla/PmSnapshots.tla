----------------------------- MODULE PmSnapshots -----------------------------
(***************************************************************************)
(* The LVM snapshots of one physical machine (PhysicalMachines.py) across  *)
(* the invocations of run_tests.py that use it.  An invocation reserves    *)
(* the machine, or resumes it from machines_info.json; the tests call the  *)
(* snapshot keywords; the suite teardown dumps the checkpoint and/or runs  *)
(* cleanup, which removes the tracked snapshots, reverts to 'clean',       *)
(* recreates it and releases the lock file.  The machine is an actor of    *)
(* its own: a scheduled reboot takes it down and up again, the boot starts *)
(* a deferred snapshot merge, and the merge completes later.               *)
(***************************************************************************)
EXTENDS Integers, Sequences, SequencesExt

CONSTANTS
    Names,     \* snapshot names used by the suites (model values)
    Clean,     \* PhysicalMachines.CLEAN_SNAPSHOT
    Kernels,   \* kernel images in /boot (model values)
    Keywords,  \* the snapshot keywords the suites call
    MaxCalls,  \* bound on the keyword calls of one invocation
    MaxRuns,   \* bound on the invocations
    Faults,    \* whether remote commands of the tests fail and waits time out
    NoFile     \* "no such file" (model value)

AllKeywords == {"create", "revert", "recreate", "remove", "reboot", "install"}

ASSUME /\ Clean \in Names /\ Keywords \subseteq AllKeywords
       /\ MaxCalls \in Nat /\ MaxRuns \in Nat /\ Faults \in BOOLEAN
       /\ NoFile \notin Names \cup Kernels

Modes == {"normal", "dump", "resume"}

VARIABLES
    lvs,       \* snapshot LVs on the machine
    presnap,   \* /boot/kernel.presnap.<name>: the kernel it names, or NoFile
    grubDef,   \* the default boot entry (grubby --set-default)
    running,   \* the running kernel (uname -r)
    merge,     \* the snapshot merge requested by lvconvert --merge
    power,     \* "up", "going" (reboot scheduled) or "down"
    lockFile,  \* /var/lock/robot/<machine> exists
    locked,    \* the machine is in _lockfiles (its flock is held)
    snaps,     \* _snapshots[machine]
    entry,     \* _snapshots has an entry for the machine
    aliased,   \* _snapshots[machine] is the list of ${machines_info}
    infoSnaps, \* machine_info['snapshots'] returned by reserve
    file,      \* the machine's snapshot list in machines_info.json
    opts,      \* the invocation's mode and --force-cleanup
    pc,        \* where the process is
    target,    \* the snapshot being reverted
    cont,      \* what follows the revert: "return", "recreate", "cleanup"
    queue,     \* the snapshots cleanup has still to remove
    calls,     \* keyword calls of this invocation
    runs       \* finished invocations

vars == <<lvs, presnap, grubDef, running, merge, power, lockFile, locked,
          snaps, entry, aliased, infoSnaps, file, opts, pc, target, cont,
          queue, calls, runs>>
machine == <<lvs, presnap, grubDef, running, merge, power>>
process == <<lockFile, locked, snaps, entry, aliased, infoSnaps, file, opts,
             pc, target, cont, queue, calls, runs>>

NoMerge == [phase |-> "none", snap |-> Clean]

Init ==
    /\ lvs = {Clean}
    /\ running \in Kernels
    /\ presnap = [n \in Names |-> IF n = Clean THEN running ELSE NoFile]
    /\ grubDef = running
    /\ merge = NoMerge
    /\ power = "up"
    /\ lockFile = FALSE /\ locked = FALSE
    /\ snaps = <<>> /\ entry = FALSE /\ aliased = FALSE /\ infoSnaps = <<>>
    /\ file = NoFile
    /\ opts = [mode |-> "normal", force |-> FALSE]
    /\ pc = "idle" /\ target = Clean /\ cont = "return" /\ queue = <<>>
    /\ calls = 0 /\ runs = 0

-----------------------------------------------------------------------------
(* Helpers                                                                 *)

\* _get_lv_names: the names lvs lists.
Listed(n) == n \in lvs

\* check_machine_prereqs: a 'clean' LV and its kernel.presnap file.
PrereqsMet == Listed(Clean) /\ presnap[Clean] # NoFile

\* An ssh command of the tests may fail only when Faults holds; the
\* commands of cleanup are taken to succeed.
MayFail == IF Faults /\ cont # "cleanup" THEN BOOLEAN ELSE {FALSE}

\* A raised error: a keyword of a test fails that test, an error of
\* cleanup ends cleanup and the teardown.
Raise == /\ pc' = IF cont = "cleanup" THEN "exit" ELSE "test"
         /\ cont' = "return"

\* list.remove(n): drops the first n; n not in the list raises ValueError.
Untracked(s, n) == RemoveFirst(s, n)

\* The list written to machines_info.json: ${machines_info}[m]['snapshots'].
Dumped == IF aliased THEN snaps ELSE infoSnaps

-----------------------------------------------------------------------------
(* An invocation of run_tests.py                                           *)

\* reserve_physical_machine on this machine: check_machine_prereqs, then
\* lock_machine (an existing lock file means "in use").  A refused machine
\* ends the invocation: it never touches the machine, and a dump writes a
\* file without it.
Reserve(mode, force) ==
    /\ pc = "idle" /\ runs < MaxRuns
    /\ opts' = [mode |-> mode, force |-> force]
    /\ IF PrereqsMet /\ ~lockFile
       THEN /\ lockFile' = TRUE /\ locked' = TRUE
            /\ pc' = "info"
            /\ UNCHANGED <<file, runs>>
       ELSE /\ file' = IF mode = "dump" THEN NoFile ELSE file
            /\ runs' = runs + 1
            /\ UNCHANGED <<lockFile, locked, pc>>
    /\ calls' = 0
    /\ UNCHANGED <<machine, snaps, entry, aliased, infoSnaps, target, cont, queue>>

\* After the lock: _get_nics, _get_machine_hostname and _get_machine_ip; a
\* failure leaves the lock but no _snapshots entry, and fails the setup.
\* machine_info['snapshots'] and _snapshots[m] are two lists ['clean'].
MachineInfo ==
    /\ pc = "info"
    /\ \E fail \in MayFail :
         IF fail
         THEN /\ pc' = "teardown"
              /\ UNCHANGED <<snaps, entry, aliased, infoSnaps>>
         ELSE /\ snaps' = <<Clean>> /\ infoSnaps' = <<Clean>>
              /\ entry' = TRUE /\ aliased' = FALSE
              /\ pc' = "test"
    /\ UNCHANGED <<machine, lockFile, locked, file, opts, target, cont, queue,
                   calls, runs>>

\* --devel-vms-conf: update_snapshot_list stores the file's list itself,
\* which is also ${machines_info}[m]['snapshots']; use_machines locks with
\* reuse=True, touching a missing lock file.
Resume(force) ==
    /\ pc = "idle" /\ runs < MaxRuns
    /\ file # NoFile
    /\ opts' = [mode |-> "resume", force |-> force]
    /\ snaps' = file /\ entry' = TRUE /\ aliased' = TRUE
    /\ lockFile' = TRUE /\ locked' = TRUE
    /\ pc' = "test" /\ calls' = 0
    /\ UNCHANGED <<machine, infoSnaps, file, target, cont, queue, runs>>

Start ==
    \/ \E mode \in {"normal", "dump"}, force \in BOOLEAN : Reserve(mode, force)
    \/ \E force \in BOOLEAN : Resume(force)

-----------------------------------------------------------------------------
(* The snapshot keywords                                                   *)

Call(k) == /\ pc = "test" /\ k \in Keywords /\ calls < MaxCalls
           /\ calls' = calls + 1

\* Fault variant of create_snapshot: lvcreate runs before the presnap file
\* is written, so a failing echo leaves an LV without its kernel record.
CreateSnapshotPresnapLast(n, done) ==
    /\ power = "up"
    /\ \E fail \in MayFail, at \in {"echo", "lvcreate"} :
         CASE Listed(n) \/ (fail /\ at = "lvcreate") \/ merge.phase # "none" ->
                /\ Raise /\ UNCHANGED <<lvs, presnap, snaps>>
           [] fail /\ at = "echo" ->
                /\ lvs' = lvs \cup {n}
                /\ Raise /\ UNCHANGED <<presnap, snaps>>
           [] OTHER ->
                /\ presnap' = [presnap EXCEPT ![n] = running]
                /\ lvs' = lvs \cup {n}
                /\ snaps' = Append(snaps, n)
                /\ pc' = done /\ cont' = "return"
    /\ UNCHANGED <<grubDef, running, merge, power>>

\* create_snapshot: a listed name raises ValueError; then the presnap file
\* gets `uname -r`, lvcreate makes the LV, and the name is appended to
\* _snapshots.  LVM refuses a snapshot of an origin with a pending merge.
CreateSnapshot(n, done) ==
    /\ power = "up"
    /\ \E fail \in MayFail, at \in {"echo", "lvcreate"} :
         CASE Listed(n) \/ (fail /\ at = "echo") ->
                /\ Raise /\ UNCHANGED <<lvs, presnap, snaps>>
           [] (fail /\ at = "lvcreate") \/ merge.phase # "none" ->
                /\ presnap' = [presnap EXCEPT ![n] = running]
                /\ Raise /\ UNCHANGED <<lvs, snaps>>
           [] OTHER ->
                /\ presnap' = [presnap EXCEPT ![n] = running]
                /\ lvs' = lvs \cup {n}
                /\ snaps' = Append(snaps, n)
                /\ pc' = done /\ cont' = "return"
    /\ UNCHANGED <<grubDef, running, merge, power>>

Create ==
    /\ Call("create")
    /\ \E n \in Names : CreateSnapshot(n, "test")
    /\ UNCHANGED <<lockFile, locked, entry, aliased, infoSnaps, file, opts,
                   target, queue, runs>>

\* Fault variant of revert_to_snapshot: the grubby step is left out.
GrubDefaultKept(n) == grubDef

\* grubby --set-default <the kernel of kernel.presnap.<n>>.
GrubDefault(n) == presnap[n]

\* revert_to_snapshot, up to the reboot: an unlisted snapshot raises
\* ValueError; then cat kernel.presnap, grubby --set-default, lvconvert
\* --merge (refused while another merge is pending), and the background
\* reboot, each of which may fail.  The keyword then waits for the machine.
RevertToSnapshot(n, k) ==
    /\ power = "up"
    /\ target' = n
    /\ \E fail \in MayFail, at \in {"grubby", "merge", "reboot"} :
         CASE ~Listed(n) \/ presnap[n] = NoFile \/ (fail /\ at = "grubby") ->
                /\ Raise /\ UNCHANGED <<grubDef, merge, power>>
           [] (fail /\ at = "merge") \/ merge.phase # "none" ->
                /\ grubDef' = GrubDefault(n)
                /\ Raise /\ UNCHANGED <<merge, power>>
           [] fail /\ at = "reboot" ->
                /\ grubDef' = GrubDefault(n)
                /\ merge' = [phase |-> "pending", snap |-> n]
                /\ Raise /\ UNCHANGED power
           [] OTHER ->
                /\ grubDef' = GrubDefault(n)
                /\ merge' = [phase |-> "pending", snap |-> n]
                /\ power' = "going"
                /\ pc' = "offline" /\ cont' = k
    /\ UNCHANGED <<lvs, presnap, running>>

Revert ==
    /\ Call("revert")
    /\ \E n \in Names : RevertToSnapshot(n, "return")
    /\ UNCHANGED <<lockFile, locked, snaps, entry, aliased, infoSnaps, file,
                   opts, queue, runs>>

\* revert_to_snapshot_and_recreate: the lv_size query (empty for a missing
\* snapshot), the revert, then create_snapshot under the same name.
RevertAndRecreate ==
    /\ Call("recreate")
    /\ \E n \in Names : RevertToSnapshot(n, "recreate")
    /\ UNCHANGED <<lockFile, locked, snaps, entry, aliased, infoSnaps, file,
                   opts, queue, runs>>

\* remove_snapshot: lvremove; it fails for a missing LV or one being
\* merged.  _snapshots is left as it is.
RemoveSnapshot(n, done) ==
    /\ power = "up"
    /\ \E fail \in MayFail :
         IF ~Listed(n) \/ (merge.snap = n /\ merge.phase # "none") \/ fail
         THEN Raise /\ UNCHANGED lvs
         ELSE lvs' = lvs \ {n} /\ pc' = done /\ UNCHANGED cont
    /\ UNCHANGED <<presnap, grubDef, running, merge, power>>

RemoveKw ==
    /\ Call("remove")
    /\ \E n \in Names : RemoveSnapshot(n, "test")
    /\ UNCHANGED <<lockFile, locked, snaps, entry, aliased, infoSnaps, file,
                   opts, target, queue, runs>>

\* reboot_and_wait_until_up: the background reboot, then the waits.
RebootAndWait ==
    /\ Call("reboot")
    /\ power = "up"
    /\ power' = "going" /\ pc' = "offline" /\ cont' = "reboot"
    /\ UNCHANGED <<lvs, presnap, grubDef, running, merge, lockFile, locked,
                   snaps, entry, aliased, infoSnaps, file, opts, target,
                   queue, runs>>

\* The deployment under test installs a kernel and makes it the default.
InstallKernel ==
    /\ Call("install")
    /\ power = "up"
    /\ \E k \in Kernels \ {running} : grubDef' = k
    /\ UNCHANGED <<lvs, presnap, running, merge, power, lockFile, locked,
                   snaps, entry, aliased, infoSnaps, file, opts, pc, target,
                   cont, queue, runs>>

-----------------------------------------------------------------------------
(* The waits after a reboot (retry_decorator loops)                        *)

\* _wait_until_machine_is_offline: ping until it fails; 30 tries 5 s apart.
WaitOffline ==
    /\ pc = "offline"
    /\ \/ power = "down" /\ pc' = "connect" /\ UNCHANGED cont
       \/ Faults /\ cont # "cleanup" /\ power # "down" /\ Raise
    /\ UNCHANGED <<machine, lockFile, locked, snaps, entry, aliased,
                   infoSnaps, file, opts, target, queue, calls, runs>>

\* _ssh_connect_with_retry: 20 tries 30 s apart.  After a plain reboot the
\* keyword returns here.
Connect ==
    /\ pc = "connect"
    /\ \/ /\ power = "up"
          /\ pc' = IF cont = "reboot" THEN "test" ELSE "complete"
          /\ cont' = IF cont = "reboot" THEN "return" ELSE cont
       \/ Faults /\ cont # "cleanup" /\ power # "up" /\ Raise
    /\ UNCHANGED <<machine, lockFile, locked, snaps, entry, aliased,
                   infoSnaps, file, opts, target, queue, calls, runs>>

\* _wait_until_revert_completes: the root LV keeps the 'O' attribute while
\* the merge is pending or running; 30 tries 120 s apart.  Then
\* _snapshots.remove(n), and the caller's next step.
WaitRevertComplete ==
    /\ pc = "complete"
    /\ \/ /\ merge.phase = "none"
          /\ IF target \in ToSet(snaps)
             THEN /\ snaps' = Untracked(snaps, target)
                  /\ pc' = IF cont = "return" THEN "test" ELSE "recreate"
                  /\ UNCHANGED cont
             ELSE Raise /\ UNCHANGED snaps
       \/ Faults /\ cont # "cleanup" /\ merge.phase # "none"
          /\ Raise /\ UNCHANGED snaps
    /\ UNCHANGED <<machine, lockFile, locked, entry, aliased, infoSnaps, file,
                   opts, target, queue, calls, runs>>

\* The create_snapshot of revert_to_snapshot_and_recreate; in cleanup the
\* lock file is released next.
Recreate ==
    /\ pc = "recreate"
    /\ CreateSnapshot(target, IF cont = "cleanup" THEN "release" ELSE "test")
    /\ UNCHANGED <<lockFile, locked, entry, aliased, infoSnaps, file, opts,
                   target, queue, calls, runs>>

-----------------------------------------------------------------------------
(* The machine                                                             *)

\* 'sync; sleep 1; reboot': the machine goes down.
GoDown ==
    /\ power = "going"
    /\ power' = "down"
    /\ UNCHANGED <<lvs, presnap, grubDef, running, merge, process>>

\* The machine boots its default entry, and a pending merge starts.  It
\* stays down longer than the ping interval, unless Faults.
Boot ==
    /\ power = "down"
    /\ pc # "offline" \/ Faults
    /\ power' = "up" /\ running' = grubDef
    /\ merge' = IF merge.phase = "pending" THEN [merge EXCEPT !.phase = "active"]
                ELSE merge
    /\ UNCHANGED <<lvs, presnap, grubDef, process>>

\* The merge completes: the snapshot LV is gone.
MergeDone ==
    /\ merge.phase = "active"
    /\ lvs' = lvs \ {merge.snap}
    /\ merge' = NoMerge
    /\ UNCHANGED <<presnap, grubDef, running, power, process>>

-----------------------------------------------------------------------------
(* Suite teardown and cleanup                                              *)

EndTests ==
    /\ pc = "test"
    /\ pc' = "teardown"
    /\ UNCHANGED <<machine, lockFile, locked, snaps, entry, aliased,
                   infoSnaps, file, opts, target, cont, queue, calls, runs>>

\* suite_teardown: the dump under --devel-dump or --devel-vms-conf (a
\* machine whose info step failed is not in ${machines_info}), then
\* PhysicalMachines.cleanup under --force-cleanup or outside devel mode.
Cleans(o) == o.force \/ o.mode = "normal"

SuiteTeardown ==
    /\ pc = "teardown"
    /\ file' = IF opts.mode = "normal" THEN file
               ELSE IF entry THEN Dumped ELSE NoFile
    /\ pc' = IF Cleans(opts) THEN "cleanup" ELSE "exit"
    /\ cont' = IF Cleans(opts) THEN "cleanup" ELSE "return"
    /\ UNCHANGED <<machine, lockFile, locked, snaps, entry, aliased,
                   infoSnaps, opts, target, queue, calls, runs>>

\* cleanup, for the machine in _lockfiles: self._snapshots[m] raises
\* KeyError without an entry; else the snapshots other than 'clean' are
\* removed in list order.
CleanupBegin ==
    /\ pc = "cleanup"
    /\ pc' = IF locked /\ entry THEN "remove" ELSE "exit"
    /\ queue' = IF locked /\ entry THEN SelectSeq(snaps, LAMBDA s : s # Clean)
                ELSE <<>>
    /\ UNCHANGED <<machine, lockFile, locked, snaps, entry, aliased,
                   infoSnaps, file, opts, target, cont, calls, runs>>

CleanupRemove ==
    /\ pc = "remove" /\ queue # <<>>
    /\ RemoveSnapshot(Head(queue), "remove")
    /\ queue' = Tail(queue)
    /\ UNCHANGED <<lockFile, locked, snaps, entry, aliased, infoSnaps, file,
                   opts, target, calls, runs>>

\* Fault variant of cleanup: the lock file is released right after the
\* removals, with no revert to 'clean'.
CleanupRevertSkipped ==
    /\ pc = "remove" /\ queue = <<>>
    /\ pc' = "release"
    /\ UNCHANGED <<machine, lockFile, locked, snaps, entry, aliased, infoSnaps,
                   file, opts, target, cont, queue, calls, runs>>

\* revert_to_snapshot_and_recreate(machine, CLEAN_SNAPSHOT).
CleanupRevert ==
    /\ pc = "remove" /\ queue = <<>>
    /\ RevertToSnapshot(Clean, "cleanup")
    /\ UNCHANGED <<lockFile, locked, snaps, entry, aliased, infoSnaps, file,
                   opts, queue, calls, runs>>

\* fd.close() and os.unlink(fd.name), then _lockfiles.clear().
ReleaseLock ==
    /\ pc = "release"
    /\ lockFile' = FALSE /\ locked' = FALSE
    /\ pc' = "exit" /\ cont' = "return"
    /\ UNCHANGED <<machine, snaps, entry, aliased, infoSnaps, file, opts,
                   target, queue, calls, runs>>

\* The robot process ends: its flock goes, the lock file stays.
Exit ==
    /\ pc = "exit"
    /\ locked' = FALSE /\ entry' = FALSE /\ snaps' = <<>>
    /\ pc' = "idle" /\ runs' = runs + 1
    /\ UNCHANGED <<machine, lockFile, aliased, infoSnaps, file, opts, target,
                   cont, queue, calls>>

Next ==
    \/ Start \/ MachineInfo
    \/ Create \/ Revert \/ RevertAndRecreate \/ RemoveKw \/ RebootAndWait
    \/ InstallKernel
    \/ WaitOffline \/ Connect \/ WaitRevertComplete \/ Recreate
    \/ GoDown \/ Boot \/ MergeDone
    \/ EndTests \/ SuiteTeardown \/ CleanupBegin \/ CleanupRemove
    \/ CleanupRevert \/ ReleaseLock \/ Exit

Spec == Init /\ [][Next]_vars

-----------------------------------------------------------------------------
(* Properties                                                              *)

\* Types; every snapshot LV has its kernel.presnap file, which
\* create_snapshot writes before lvcreate and nothing deletes.
TypeOK ==
    /\ lvs \subseteq Names
    /\ presnap \in [Names -> Kernels \cup {NoFile}]
    /\ \A n \in lvs : presnap[n] # NoFile
    /\ grubDef \in Kernels /\ running \in Kernels
    /\ merge \in [phase : {"none", "pending", "active"}, snap : Names]
    /\ power \in {"up", "going", "down"}
    /\ snaps \in Seq(Names) /\ infoSnaps \in Seq(Names)
    /\ file \in Seq(Names) \cup {NoFile}
    /\ opts \in [mode : Modes, force : BOOLEAN]
    /\ calls \in 0..MaxCalls /\ runs \in 0..MaxRuns

\* A machine without a lock file is free for any suite: it passes
\* check_machine_prereqs, no merge is pending, and it runs and boots the
\* kernel of its 'clean' snapshot.  cleanup unlinks the lock file only after
\* revert_to_snapshot_and_recreate has put 'clean' back.
ReleasedMachineReservable ==
    ~lockFile =>
        /\ PrereqsMet /\ merge = NoMerge /\ power = "up"
        /\ running = presnap[Clean] /\ grubDef = presnap[Clean]

\* When revert_to_snapshot returns, the merge is over, the snapshot is
\* gone, and the machine is up on the kernel recorded when the snapshot was
\* taken (grubby before the merge and the reboot).
RevertBootsSnapshotKernel ==
    [][ pc = "complete" /\ Len(snaps') < Len(snaps) =>
          /\ ~Listed(target)' /\ merge' = NoMerge /\ power' = "up"
          /\ running' = presnap[target] ]_vars

\* A suite teardown that runs cleanup, with every remote command
\* succeeding, leaves the machine at its baseline: lock file released and
\* only the 'clean' snapshot on it (the class docstring's typical use:
\* Revert To Snapshot clean ... Cleanup).
CleanupRestoresBaseline ==
    pc = "exit" /\ Cleans(opts) => ~lockFile /\ lvs = {Clean}

=============================================================================
