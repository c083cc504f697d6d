-------------------------- MODULE StageOrchestrator --------------------------
(***************************************************************************)
(* The staged suite setup and teardown of CommonSetupTeardown.py, across   *)
(* successive invocations of run_tests.py.  One invocation is one Robot    *)
(* suite run: it registers stages (add_setup_stage), runs them             *)
(* (suite_setup), runs the tests and tears down (suite_teardown).  A run   *)
(* started with --devel-dump writes machines_info.json into its            *)
(* deployment dir; a run started with --devel-vms-conf resumes from such a *)
(* file and writes it back.  A chain is the deployment one fresh run       *)
(* created: its VMs (domains named with its run uid), the lock files of    *)
(* its physical machines, the NIC VFs bound for its VMs and its checkpoint *)
(* file.  Invocations of one developer are sequential.                     *)
(*                                                                         *)
(* Stage 1 of every suite provisions the machines                          *)
(* (clone_vm_or_reserve_physical_machine); the other stages only change    *)
(* what is installed on them, which the ghost variables done and started   *)
(* record.                                                                 *)
(***************************************************************************)
EXTENDS Integers, Sequences, SequencesExt, FiniteSets

CONSTANTS
    Keywords,   \* stage keywords (model values)
    Suites,     \* stage lists a suite file may register, one per invocation
    MaxRuns     \* bound on the number of invocations

Descriptor == [keyword : Keywords, recoverable : BOOLEAN]

ASSUME /\ Suites \subseteq Seq(Descriptor)
       /\ \A s \in Suites : Len(s) > 0 /\ ~s[1].recoverable
       /\ MaxRuns \in Nat \ {0}

INVALID_ID == -1
Chains == 1..MaxRuns
NoFile == [stages |-> <<>>, last |-> INVALID_ID - 1, machines |-> FALSE]
Checkpoint == [stages : Seq(Descriptor), last : Int, machines : BOOLEAN]
Options == [dump : BOOLEAN, conf : {0} \cup Chains, force : BOOLEAN]

VARIABLES
    \* state of the current invocation (library instances of one suite)
    run,          \* number of invocations started so far
    phase,        \* "idle", "register", "setup", "teardown"
    opts,         \* DEVEL_DUMP, DEVEL_VMS_CONF (0 = none), FORCE_CLEANUP
    suite,        \* the stage list the suite file registers
    stages,       \* CommonSetupTeardown._setup_stages
    lastId,       \* CommonSetupTeardown._setup_last_id
    chain,        \* the chain whose machines this invocation works on
    adopted,      \* Virtualization._run_uid is the chain's run uid
    ownLocks,     \* PhysicalMachines._lockfiles holds the chain's machines
    ownVfs,       \* Virtualization._reserved_vfs_info holds the chain's VFs
    machinesInfo, \* ${machines_info} is set
    status,       \* ${SUITE STATUS}
    resumedFrom,  \* ghost: setup_id the loop started from
    runDone,      \* ghost: stages completed by this invocation
    \* state that outlives an invocation
    file,         \* machines_info.json in each chain's deployment dir
    vms,          \* libvirt domains of each chain: "none", "up", "suspended"
    locked,       \* lock files of the chain's physical machines exist
    vfs,          \* NIC VFs of the chain's VMs are bound to vfio-pci
    done,         \* ghost: stages whose effect is on the chain's machines
    started       \* ghost: stages ever started on the chain's machines

runVars == <<run, phase, opts, suite, stages, lastId, chain, adopted, ownLocks,
             ownVfs, machinesInfo, status, resumedFrom, runDone>>
envVars == <<file, vms, locked, vfs, done, started>>
vars == <<runVars, envVars>>

-----------------------------------------------------------------------------
(* Helpers                                                                 *)

\* Fault variant of RecoverableAt: the check is dropped.
RecoverableAtDropped(s, id) == TRUE

\* The stage at 0-based setup_id may be (re)tried (suite_setup 235-236).
RecoverableAt(s, id) == id >= Len(s) \/ s[id + 1].recoverable

\* _validate_setup_conf: same stage list and a setup id was recorded.
ValidSetupConf(s, f) == f.stages = s /\ f.last # INVALID_ID

\* The deployment dir: the one recorded in the resumed file, or a fresh one.
Target == IF opts.conf # 0 THEN opts.conf ELSE run

\* A checkpoint from which a later invocation can resume.
Resumable(f) ==
    /\ f # NoFile
    /\ f.last # INVALID_ID
    /\ f.machines
    /\ RecoverableAt(f.stages, f.last)

-----------------------------------------------------------------------------
Init ==
    /\ run = 0
    /\ phase = "idle"
    /\ opts = [dump |-> FALSE, conf |-> 0, force |-> FALSE]
    /\ suite = <<>>
    /\ stages = <<>>
    /\ lastId = INVALID_ID
    /\ chain = 0
    /\ adopted = FALSE
    /\ ownLocks = FALSE
    /\ ownVfs = FALSE
    /\ machinesInfo = FALSE
    /\ status = "FAIL"
    /\ resumedFrom = 0
    /\ runDone = {}
    /\ file = [c \in Chains |-> NoFile]
    /\ vms = [c \in Chains |-> "none"]
    /\ locked = [c \in Chains |-> FALSE]
    /\ vfs = [c \in Chains |-> FALSE]
    /\ done = [c \in Chains |-> {}]
    /\ started = [c \in Chains |-> {}]

\* run_tests.py starts robot with the devel flags; the libraries are
\* instantiated afresh (CommonSetupTeardown.__init__, Virtualization.__init__
\* with a new run uid).  --devel-vms-conf names an existing dumped file.
Start ==
    /\ phase = "idle"
    /\ run < MaxRuns
    /\ \E o \in Options, s \in Suites :
          /\ o.conf # 0 => file[o.conf] # NoFile
          /\ opts' = o
          /\ suite' = s
          /\ chain' = IF o.conf # 0 THEN o.conf ELSE run + 1
          /\ adopted' = (o.conf = 0)
    /\ run' = run + 1
    /\ phase' = "register"
    /\ stages' = <<>>
    /\ lastId' = INVALID_ID
    /\ ownLocks' = FALSE
    /\ ownVfs' = FALSE
    /\ machinesInfo' = FALSE
    /\ status' = "FAIL"
    /\ resumedFrom' = 0
    /\ runDone' = {}
    /\ UNCHANGED envVars

\* add_setup_stage: append the suite's next stage, refusing an
\* unrecoverable stage after a recoverable one (ValueError fails the suite
\* setup, and Robot still runs the suite teardown).
AddSetupStage ==
    /\ phase = "register"
    /\ Len(stages) < Len(suite)
    /\ LET d == suite[Len(stages) + 1] IN
       IF stages # <<>> /\ ~d.recoverable /\ Last(stages).recoverable
       THEN /\ phase' = "teardown"
            /\ UNCHANGED stages
       ELSE /\ stages' = Append(stages, d)
            /\ UNCHANGED phase
    /\ UNCHANGED <<run, opts, suite, lastId, chain, adopted, ownLocks, ownVfs,
                   machinesInfo, status, resumedFrom, runDone>>
    /\ UNCHANGED envVars

\* suite_setup without --devel-vms-conf: the loop starts at setup_id 0.
FreshSetup ==
    /\ phase = "register"
    /\ Len(stages) = Len(suite)
    /\ opts.conf = 0
    /\ phase' = "setup"
    /\ lastId' = 0
    /\ resumedFrom' = 0
    /\ UNCHANGED <<run, opts, suite, stages, chain, adopted, ownLocks, ownVfs,
                   machinesInfo, status, runDone>>
    /\ UNCHANGED envVars

\* suite_setup with --devel-vms-conf: validate the file, refuse to retry an
\* unrecoverable stage, adopt the run uid (use_existing_setup), lock the
\* recorded physical machines with reuse=True (use_machines: a missing
\* lock file is re-created) and set ${machines_info} from the file.
ResumeSetup ==
    /\ phase = "register"
    /\ Len(stages) = Len(suite)
    /\ opts.conf # 0
    /\ LET f == file[opts.conf] IN
       IF ValidSetupConf(stages, f) /\ RecoverableAt(stages, f.last)
       THEN /\ phase' = "setup"
            /\ lastId' = f.last
            /\ resumedFrom' = f.last
            /\ adopted' = TRUE
            /\ machinesInfo' = f.machines
            /\ ownLocks' = f.machines
            /\ locked' = [locked EXCEPT ![opts.conf] = @ \/ f.machines]
       ELSE /\ phase' = "teardown"
            /\ UNCHANGED <<lastId, resumedFrom, adopted, machinesInfo,
                           ownLocks, locked>>
    /\ UNCHANGED <<run, opts, suite, stages, chain, ownVfs, status, runDone>>
    /\ UNCHANGED <<file, vms, vfs, done, started>>

\* Stage 1, clone_vm_or_reserve_physical_machine for every machine: VMs are
\* cloned (with NIC VFs bound) and/or physical machines are locked.  When
\* it fails, machines reserved before the failing call stay reserved.
ProvisionMachines(ok) ==
    \E vm, pm \in BOOLEAN :
       /\ vm \/ pm
       /\ vms' = [vms EXCEPT ![chain] = IF vm /\ ok THEN "up" ELSE @]
       /\ vfs' = [vfs EXCEPT ![chain] = vm /\ ok]
       /\ locked' = [locked EXCEPT ![chain] = pm]
       /\ ownLocks' = pm
       /\ ownVfs' = (vm /\ ok)
       /\ machinesInfo' = ok

\* Fault variant of the cursor: it moves past a stage that failed.
CursorSkipsFailed(id) == id + 1

\* The cursor after a failed stage: setup_id is not incremented.
CursorAfterFailure(id) == id

\* Fault variant of the loop exit: it breaks only past the last stage.
StagesLeftOffByOne(id, s) == id <= Len(s)

\* The loop runs another stage while setup_id < len(self._setup_stages).
StagesLeft(id, s) == id < Len(s)

\* One iteration of the suite_setup loop: _setup_last_id = setup_id, run
\* the stage's keyword; on success setup_id + 1, on failure the error ends
\* suite_setup and the cursor still names the attempted stage.
RunStage ==
    /\ phase = "setup"
    /\ StagesLeft(lastId, stages)
    /\ LET k == lastId + 1 IN
       /\ started' = [started EXCEPT ![chain] = @ \cup {k}]
       /\ \E ok \in BOOLEAN :
            /\ IF ok
               THEN /\ lastId' = k
                    /\ runDone' = runDone \cup {k}
                    /\ done' = [done EXCEPT ![chain] = @ \cup {k}]
                    /\ UNCHANGED phase
               ELSE /\ lastId' = CursorAfterFailure(lastId)
                    /\ phase' = "teardown"
                    /\ UNCHANGED <<runDone, done>>
            /\ IF k = 1
               THEN ProvisionMachines(ok)
               ELSE UNCHANGED <<vms, vfs, locked, ownLocks, ownVfs, machinesInfo>>
    /\ UNCHANGED <<run, opts, suite, stages, chain, adopted, status, resumedFrom>>
    /\ UNCHANGED file

\* The loop ends at setup_id = len(stages); the tests then pass or fail.
SetupComplete ==
    /\ phase = "setup"
    /\ ~StagesLeft(lastId, stages)
    /\ phase' = "teardown"
    /\ status' \in {"PASS", "FAIL"}
    /\ UNCHANGED <<run, opts, suite, stages, lastId, chain, adopted, ownLocks,
                   ownVfs, machinesInfo, resumedFrom, runDone>>
    /\ UNCHANGED envVars

\* Effects of the library cleanups on the chain's machines.
\* return_vfs_to_host rebinds only the VFs in _reserved_vfs_info;
\* Virtualization.cleanup destroys the domains named with _run_uid;
\* PhysicalMachines.cleanup reverts and unlocks the machines in _lockfiles.
ReturnVfs(v) == IF ownVfs THEN [v EXCEPT ![chain] = FALSE] ELSE v
DestroyVms(m) == IF adopted THEN [m EXCEPT ![chain] = "none"] ELSE m
SuspendVms(m) ==
    IF adopted /\ m[chain] = "up" THEN [m EXCEPT ![chain] = "suspended"] ELSE m
ReleaseLocks(l) == IF ownLocks THEN [l EXCEPT ![chain] = FALSE] ELSE l
Wiped(g) == IF adopted \/ ownLocks THEN [g EXCEPT ![chain] = {}] ELSE g

\* suite_teardown: dump machines_info.json when DEVEL_DUMP or DEVEL_VMS_CONF,
\* then FORCE_CLEANUP cleans everything; otherwise, only outside devel mode,
\* physical machines are cleaned, VFs returned and the VMs destroyed on PASS
\* or suspended on FAIL.
SuiteTeardown ==
    /\ phase = "teardown"
    /\ LET dumps == opts.dump \/ opts.conf # 0
           normal == ~opts.dump /\ opts.conf = 0
       IN
       /\ file' = IF dumps
                  THEN [file EXCEPT ![Target] = [stages |-> stages,
                                                 last |-> lastId,
                                                 machines |-> machinesInfo]]
                  ELSE file
       /\ IF opts.force
          THEN /\ vfs' = ReturnVfs(vfs)
               /\ vms' = DestroyVms(vms)
               /\ locked' = ReleaseLocks(locked)
               /\ done' = Wiped(done)
               /\ started' = Wiped(started)
          ELSE IF normal
          THEN /\ locked' = ReleaseLocks(locked)
               /\ vfs' = ReturnVfs(vfs)
               /\ vms' = IF status = "PASS" THEN DestroyVms(vms) ELSE SuspendVms(vms)
               /\ done' = Wiped(done)
               /\ started' = Wiped(started)
          ELSE UNCHANGED <<vfs, vms, locked, done, started>>
    /\ phase' = "idle"
    /\ UNCHANGED <<run, opts, suite, stages, lastId, chain, adopted, ownLocks,
                   ownVfs, machinesInfo, status, resumedFrom, runDone>>

Next ==
    \/ Start
    \/ AddSetupStage
    \/ FreshSetup
    \/ ResumeSetup
    \/ RunStage
    \/ SetupComplete
    \/ SuiteTeardown

Spec == Init /\ [][Next]_vars

-----------------------------------------------------------------------------
(* Properties                                                              *)

TypeOK ==
    /\ run \in 0..MaxRuns
    /\ phase \in {"idle", "register", "setup", "teardown"}
    /\ opts \in Options
    /\ stages \in Seq(Descriptor)
    /\ lastId \in INVALID_ID..Len(stages)
    /\ chain \in {0} \cup Chains
    /\ {adopted, ownLocks, ownVfs, machinesInfo} \subseteq BOOLEAN
    /\ status \in {"PASS", "FAIL"}
    /\ runDone \subseteq 1..Len(stages)
    /\ file \in [Chains -> Checkpoint]
    /\ vms \in [Chains -> {"none", "up", "suspended"}]
    /\ locked \in [Chains -> BOOLEAN]
    /\ vfs \in [Chains -> BOOLEAN]

\* suite_setup never starts an unrecoverable stage a second time on the
\* same machines: a stage that an earlier invocation started (and perhaps
\* half did) is re-entered on resume only if it is marked recoverable.
NonRecoverableNotRerun ==
    phase = "setup" /\ lastId < Len(stages) =>
        \/ stages[lastId + 1].recoverable
        \/ lastId + 1 \notin started[chain]

\* The last_id that suite_teardown dumps is exactly the invocation's
\* progress: every stage between the resume point and it was completed by
\* this invocation, and the stage it names (if any) was not, so a resumed
\* run re-executes the stage that failed.
CheckpointCursorExact ==
    [][phase = "teardown" /\ (opts.dump \/ opts.conf # 0) =>
         LET f == file'[Target] IN
         \/ f.last = INVALID_ID
         \/ /\ resumedFrom <= f.last
            /\ \A k \in (resumedFrom + 1)..f.last : k \in runDone
            /\ f.last + 1 \notin runDone]_vars

\* A resumable checkpoint describes the machines as they are: every stage
\* before its last_id is still in effect on the chain's machines, so a run
\* resuming from it does not skip work that was undone.
CheckpointMatchesMachines ==
    \A c \in Chains : Resumable(file[c]) => 1..file[c].last \subseteq done[c]

\* NIC VFs bound for a chain's VMs are returned to the host driver no later
\* than the VMs are destroyed.
VfsReturnedWithVms ==
    \A c \in Chains : vms[c] = "none" => ~vfs[c]

=============================================================================
