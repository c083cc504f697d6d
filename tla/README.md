# TLA+ models of the native-on-prem Robot test framework

This directory holds TLA+ models of the test framework under `src/test/robot`
and `src/x-test/robot`. That framework deploys VMs and physical machines,
runs Robot Framework suites on them, and keeps a developer mode in which a
later invocation resumes the setup an earlier one left. Every module is
translated from the Python source. `PROJECT.json` maps each definition to the
lines it models.

## The system

One invocation of `run_tests.py` starts one `robot` process. Several
invocations may run at the same time on one host. They share the host's
libvirt, the SQLite resource DB, the NIC VFs and the lock directory
`/var/lock/robot`. Inside a process, the Robot libraries interact like this:

| Part | Source | State it keeps | Operations |
|---|---|---|---|
| Setup stages, devel checkpoint | `CommonSetupTeardown.py`, `Utils.dump_machines_config` | `_setup_stages`, `_setup_last_id` (from `INVALID_ID` = -1), `machines_info.json` | `add_setup_stage`, `suite_setup`, `suite_teardown` |
| Release tagging | `utils/tag-release.py` | clones, `verification_errors`, local and origin tags, releases | `main`, `_clone_repo`, `_verify_modules_consistency` |
| Physical machine LVM snapshots | `PhysicalMachines.py` (snapshot keywords, `cleanup`) | LVs of the machine, `/boot/kernel.presnap.<n>`, grub default, pending merge, `_snapshots[m]` | `create_snapshot`, `revert_to_snapshot`, `revert_to_snapshot_and_recreate`, `remove_snapshot`, `reboot_and_wait_until_up`, `update_snapshot_list` |
| Physical machine leases | `PhysicalMachines.py` | lock files `/var/lock/robot/<name>` and their flock, `_lockfiles`, `_snapshots` | `reserve_physical_machine`, `lock_machine`, `use_machines`, `cleanup` |
| VM MAC pool | `resource_mgr/ResourceMgr.py`, `vmmac.py`, `Virtualization.clone_vm/cleanup` | table `vm_macs (address, bridge, in_use)` in a shared SQLite file | `get_free_vm_mac`, `add_vm_mac`, `return_vm_mac_to_pool` |
| NIC VF reservation | `Virtualization._reserve_nic_vfs`, `return_vfs_to_host` | the host's driver binding of each VF, the process's `nic_vfs_pool` and `_reserved_vfs_info` | reserve (specific and `any`), `revert_changes`, return |
| Retry wrapper | `Utils.retry_decorator` | attempt counter | retries every exception `count` times |

How they interact:
- Stage 1 of a suite calls `clone_vm_or_reserve_physical_machine`. For a VM,
  `clone_vm` reserves the NIC VFs, then claims a MAC, then creates the domain.
- `suite_teardown` first dumps the checkpoint under `DEVEL_DUMP` or
  `DEVEL_VMS_CONF`. It then runs the library cleanups:
  - under `FORCE_CLEANUP`, it returns the VFs, cleans up the VMs and cleans
    up the physical machines;
  - outside developer mode, it does the same cleanups, but suspends the VMs
    instead when the suite failed.
- A resumed run (`--devel-vms-conf`) does four things:
  - validates the file against its own stage list;
  - refuses to retry an unrecoverable stage;
  - adopts the run uid (`use_existing_setup`);
  - re-locks the recorded physical machines with `reuse=True`.

The behaviours that are hard to test are these:
- the order of the steps in `suite_teardown`;
- a resume after a failure at any stage;
- concurrent processes racing on lock files, the MAC table and the VF drivers;
- errors in the middle of a reservation or cleanup loop;
- a retry loop and its bound.

## Modules

Each module has a type invariant and the properties the hazards call for.
Fault variants of the code are named `...Dropped`, `...OffByOne`, and so on.
Each one is defined just before the definition it would replace, and serves
as the mutant of a property.

### StageOrchestrator (MCStageOrchestrator)

This module models a chain of invocations on one deployment. One fresh run
creates the deployment, and later runs resume it through its checkpoint.

Per-invocation state:
- the options (`dump`, `conf`, `force`);
- the registered stages;
- `lastId`, which is `_setup_last_id`;
- which machines this invocation owns (`adopted`, `ownLocks`, `ownVfs`).

Persistent state, per chain:
- `file`, the checkpoint;
- `vms`, `locked`, `vfs`;
- the history variables `done` (stages whose effect is on the machines) and
  `started`.

Actions and what they model:
- `Start`: `run_tests.py`;
- `AddSetupStage`: `add_setup_stage`, with its monotonicity check;
- `FreshSetup` and `ResumeSetup`: the two branches of `suite_setup`;
- `RunStage` and `SetupComplete`: the stage loop. Stage 1 provisions the
  machines;
- `SuiteTeardown`: the dump, then the force, normal or devel branch.

Constants: three suites over stages Provision/Deploy/Verify, one of which
breaks monotonicity, and `MaxRuns = 3`. Three runs give a fresh run plus two
resumes, which is enough for a resume of a resume.

### MachineLease (MCMachineLease)

This module models `reserve_physical_machine` and `lock_machine` in several
processes, down to the level of files. A path is linked to an inode, and an
`open(..., 'w')` creates a new inode when the path is missing. `flock` is a
lock on an inode, not on a path. `cleanup` closes the file and then unlinks
the path.

State:
- `path`, the inode linked at each lock path;
- `holder`, the flock holder of each inode;
- per process: the candidate set, the open file descriptor, `_lockfiles` and
  `_snapshots`.

Actions:
- one per step of `lock_machine`: exists, touch, open, flock;
- the candidate loop (`Pick`), where `connect` failures abort the reservation
  and a failed prerequisite check moves to the next candidate;
- the info step, whose failure leaves no `_snapshots` entry;
- cleanup, close and unlink;
- process exit and crash. The kernel drops the flocks; the files stay.

Bounds: 2 processes, 2 machines, 2 runs each, 5 inodes.

### PmSnapshots (MCPmSnapshots)

This module models one physical machine's LVM snapshots across the
invocations that use it. The process and the machine are two actors.

Process state:
- `lockFile` and `locked`: the lock file exists, and its flock is held;
- `snaps` (`_snapshots[m]`) and `entry` (whether `_snapshots` has `m`);
- `infoSnaps` (`machine_info['snapshots']`) and `aliased`, which says whether
  `snaps` is the same list object as the one in `${machines_info}`;
- `file`: the machine's list in `machines_info.json`;
- `pc`, `target`, `cont` (what follows a revert) and the cleanup `queue`.

Machine state: `lvs`, `presnap`, `grubDef` (the grubby default), `running`
(`uname -r`), `merge` (none, pending or active) and `power` (up, going, down).

Actions and what they model:
- `Reserve`: `check_machine_prereqs` and `lock_machine`. `MachineInfo` is the
  info step, which may fail after the lock. `Resume` is `update_snapshot_list`
  plus `use_machines`.
- `Create`, `Revert`, `RevertAndRecreate`, `RemoveKw`, `RebootAndWait`: the
  keywords. Each remote command may fail (`RuntimeError` of
  `run_ssh_command`). `InstallKernel` stands for the suite changing the boot
  default.
- `WaitOffline`, `Connect`, `WaitRevertComplete`: the three retry waits. A
  wait times out only under `Faults`. `WaitRevertComplete` ends with
  `_snapshots.remove(n)`. `Recreate` is the `create_snapshot` of
  `revert_to_snapshot_and_recreate`.
- `GoDown`, `Boot`, `MergeDone`: the machine. `Boot` starts the deferred
  merge.
- `SuiteTeardown`, then `CleanupBegin`, `CleanupRemove`, `CleanupRevert`,
  `ReleaseLock`, `Exit`: the dump and `cleanup`.

The aliasing matters: in a fresh run `machine_info['snapshots']` and
`_snapshots[m]` are two lists, so a devel dump records only `['clean']`. On a
resume they are one list, so the dump follows the keywords. `Dumped` models
this, and a resume after a dump does not know the snapshots created by the
dumped run.

Timing: with `Faults = FALSE`, the machine stays down while the process
waits offline (the code's 5 s pings against a reboot of minutes), and no wait
times out. With `Faults = TRUE`, the machine may come back before a ping
sees it down, and every wait may time out. Cleanup's own commands are taken
to succeed, so a cleanup failure comes from the code's logic alone.

Constants: the snapshots `clean` and `deploy`, two kernels, `MaxCalls = 3`,
`MaxRuns = 2`. Two runs give a dumped run and its resume. Three calls give
create, revert and remove of one snapshot, or an install followed by a
revert.

### TagRelease (MCTagRelease)

This module models one run of `tag-release.py`. `main` runs five loops over
the repositories of `structure.json`, in the file's order: clone, verify,
tag, push (`--push-tags`) and release (`--release`).

State:
- inputs, fixed in `Init` over every combination: `opts`, each repository's
  `commit` (or `None`) and its `modules` (the `.gitmodules` sections, each a
  module url and the commit its gitlink records);
- `head`, the sha that `_clone_repo` records;
- `errors`, which is `verification_errors`;
- `localTag`, `remoteTag` and `released`;
- `pc`, `todo` and `exit`.

Commits are numbers along a branch, with `Tip` the branch head. A
`"commit"` key checks out an older one.

Helpers and actions:
- `VerifyModulesConsistency` is a RECURSIVE operator over the sections, and
  keeps the early `return True` for an unknown url. `Consistent(r)` is the
  reference definition of what the check is for. It compares each gitlink
  with `Wanted`, the commit `structure.json` asks for, not with the head the
  clone loop recorded. The properties compare the two over every input.
- `Start`, `CloneRepo`, `VerifyRepo`, `VerifyDone` (the two early `return
  1`s), `LoopStep` and `LoopDone` cover the rest.
- `OnFailure` says what a failing command does. Under `check=True` the
  script ends with exit status 1. A release POST answered with an error status is only logged, and a `requests.post` that raises ends the script with exit status 1.

Constants: two repositories, one external url, `Tip = 1` (two commits), and
at most two sections per `.gitmodules`. These bounds are enough for an
external section to come before a stale one, for a `commit` key to pin an
older head, and for a failure at the second repository of a loop.

### MacPool (MCMacPool)

This module models `clone_vm` and `Virtualization.cleanup` in 2 processes that
share 3 MAC addresses on one bridge.

- `get_free_vm_mac` is split into BEGIN, SELECT and COMMIT. The `BEGIN
  EXCLUSIVE` lock (`dbLock`) is held across the three steps.
- A `BEGIN EXCLUSIVE` issued while another process holds the database fails
  after pysqlite's busy timeout with `OperationalError` (`ClaimTimeout`).
  `retry_decorator` retries that error with the same attempt counter. After
  the last attempt, `clone_vm`, which catches only `LookupError`, fails the
  stage before any domain exists.
- Each run of a process clones one VM. This is a bound of the model: a
  suite may clone several VMs (`clone_vm_or_reserve_physical_machine`,
  `CommonSetupTeardown.py:340-363`), and cleanup returns each one's MAC.
- An empty pool raises `LookupError`, which `retry_decorator` retries
  `RetryCount` times (2 here; the code uses 5) before `clone_vm` falls back to
  a MAC chosen by libvirt.
- A clone can fail before the domain exists, or in the IP/SSH/MAC step after
  it exists.
- Cleanup returns the MAC and then destroys the domain. A destroy that fails
  is ignored, so the domain keeps running. After `undefine` the run has no
  domain left, so `mac` is cleared.

### MacOwnership (abstract; refined by MacPool)

`MacOwnership` states what the `vm_macs` pool promises its clients, with no
transactions, retries or libvirt. Its one variable `pool` gives each address
an owner: `"absent"` (not in the table), `"free"`, one process, or `"lost"`
(still in use after its run ended). Its actions are:
- `Claim`: `get_free_vm_mac` hands a free address to a process;
- `Record`: `add_vm_mac(in_use=True)` gives an unknown address to the process
  whose VM uses it;
- `Return`: `return_vm_mac_to_pool` frees an address that has an owner;
- `Abandon`: the owner ends without returning it.

MacPool maps onto it with `Ownership == INSTANCE MacOwnership WITH pool <-
PoolOwner`. A record that is not in use keeps its state. A record in use
belongs to the process whose run has that MAC (`Holders`: every `pc` from
the claim until `cleanup` destroys the domain), and is `"lost"` when no such
process exists. `ImplementsOwnership == Ownership!Spec` is checked as a
temporal property of the `mac_pool` run. Every MacPool step is then either a
stutter of the pool or one of the four abstract steps. In particular, a
record never passes straight from one run to another, a lost record never
comes back, and an unknown address never enters the pool as free. The
abstract steps do not name the process that takes them. Because `PoolOwner`
picks a holder with `CHOOSE`, the refinement does not show *which* run
returns a record: that a run never frees a record another run holds is not
checked here. The leak that
`CleanupComplete` is about is allowed here, as `Abandon`. The duplicate live
MAC of `mac_duplicate_live` is allowed too: the pool promises one owner per
record, not one VM per address on the bridge.

### NicVfPool (MCNicVfPool)

This module models `_reserve_nic_vfs` in 2 processes that share a host with
2 VFs, `nic_vfs_pool = <<v1, v2>>`, and up to 2 `clone_vm` calls each.
Requests: `any`, `any any`, `v1 v2`, `v2 any`.

- `dpdk-devbind -s` (`DevbindStatus`) and `-b` (`DevbindBind`) are separate
  steps.
- The specific loop reverts on every error.
- The `any` loop catches only `ValueError`, and its `finally` removes the tried
  VF from the pool.
- `Faults` (TRUE in the run) adds two cases: a status line without `drv=`,
  which raises `AttributeError`, and a failing bind. Under these,
  `DriverRestored` (every VF back on its original driver after both
  teardowns) is violated. The `any` loop catches only `ValueError`, so these
  errors skip `revert_changes` (`Virtualization.py:196`). It holds only with
  `Faults = FALSE`, where nothing on that path can fail, so it is not
  checked as a pass property. The twelve runs leave no slot for it as a
  violation run, and the hazard is listed in `PROJECT.json`. The `-s`
  failure and a missing or duplicate status line are not modelled.

## Runs

A "pass" run means TLC finished with no violation. A "violation" run checks
one property, and TLC shows a trace of the code breaking it. Every property
of a pass run has a mutant (listed in `PROJECT.json`) under which TLC finds a
violation.

| Run | Expect | What it shows |
|---|---|---|
| stage_orchestrator | pass (568,671 states) | `NonRecoverableNotRerun`: a resume never restarts an unrecoverable stage that an earlier invocation on the same machines started. `CheckpointCursorExact` (action property): every dumped checkpoint has `last_id` -1, or the stages after the resume point up to `last_id` all completed in this run and `last_id + 1` did not. |
| vfs_with_vms | violation | `VfsReturnedWithVms`: a resumed run with `--force-cleanup` destroys the VMs, but `_reserved_vfs_info` was never restored, so their VFs stay on vfio-pci. |
| machine_lease | pass (130,777 states) | `ReserveEnds`: with crashes allowed and weak fairness per process, every reservation loop ends. |
| lease_mutual_exclusion | violation | `MutualExclusion`: close-then-unlink lets two processes hold one machine (one on the unlinked inode, one on the new file). |
| mac_pool | pass (237,884 states) | `NoDoubleClaim`: under `BEGIN EXCLUSIVE`, no MAC record is held by two processes, across retries, busy timeouts and failed clones. `ImplementsOwnership`: MacPool refines MacOwnership, so a record goes from free or absent to one run, from a run to free or lost, and never from one run to another or back from lost. The mutant that adds a libvirt MAC with `in_use=False` breaks it. |
| mac_duplicate_live | violation | `NoDuplicateLiveMac`: the MAC is returned before `domain.destroy()`, so another VM can start with a MAC that is still on the bridge. |
| nic_vf_pool | pass (64,576 states) | `TypeOK`, with `Faults = TRUE`: a recorded `old_driver` is never vfio-pci, because a VF already on vfio-pci raises `ValueError` before its bind. Without that check, `return_vfs_to_host` would leave a VF on vfio-pci. |
| pm_snapshots | pass (112,850 states) | `ReleasedMachineReservable`: whenever the lock file is gone, the machine passes `check_machine_prereqs`, has no merge pending, is up, and runs and boots the kernel of 'clean'. `RevertBootsSnapshotKernel` (action property): every revert that returns leaves the snapshot gone, the merge over and the machine up on the kernel recorded when the snapshot was taken. `TypeOK` includes that every LV has its presnap file. |
| pm_cleanup_baseline | violation | `CleanupRestoresBaseline`: the docstring's typical use, `Revert To Snapshot clean` then `Cleanup`, destroys 'clean'. `cleanup` then raises `ValueError` in `revert_to_snapshot_and_recreate(clean)`, so the lock file stays and the machine has no clean snapshot. With `Faults = TRUE` the same invariant also fails by the `KeyError` of a failed info step. |
| tag_release | pass (538,893 states) | `VerifySound`: `_verify_modules_consistency` never reports a repository whose submodules all point at the commits `structure.json` asks for (its `commit`, or the branch tip). This ties `_clone_repo`'s checkout to the verify loop's comparison, and it fails if the clone ignores the `commit` key. `ExitZeroMeansTagged`: exit status 0 means every clone, and every origin under `--push-tags`, has the tag. `TypeOK` includes that a tag reaches an origin only from a clone that has it. |
| tag_verify_complete | violation | `TaggedOnlyConsistent`: a `.gitmodules` whose first section names a repository outside `structure.json` makes the check `return True` (`tag-release.py:236`), so a later stale submodule is never compared and the repository is tagged. |
| nic_vf_shared | violation | `NoSharedVf`: check-then-bind is not atomic across processes, so two suites reserve the same VF. |

Each violation is listed as a finding in `PROJECT.json`, with its source line.

Two properties are stated in their modules but are not among the runs. The
project keeps at most twelve runs, and these two questions are the most
open to argument:
- `StageOrchestrator!CheckpointMatchesMachines`: `--devel-dump
  --force-cleanup` dumps a resumable checkpoint and then destroys the
  machines, since the dump at `CommonSetupTeardown.py:290` comes before the
  force branch at 297. The combination may be meant that way.
- `MacPool!CleanupComplete`: a MAC claimed by a clone that fails before the
  domain exists stays `in_use`.

TLC finds both violated when they are checked with their module's MC
constants. Their hazards in `PROJECT.json` say so.

## Bounds and fairness

- **Process and item counts.** Two processes are enough for every race found
  here, because each race needs only two actors; the lease race also needs
  the first process's second run. Two machines, three MACs and two VFs let a
  pool be exhausted and let a second candidate be tried.
- **Run counts.** `MaxRuns` bounds the invocations of each process. The runs
  set `CHECK_DEADLOCK FALSE` because the processes stop at that bound.
- **Fairness.** Only MachineLease states liveness. It assumes weak fairness
  for each process's own steps, but not for starting a reservation or for
  crashing. This matches the code: once a reservation has started, a Python
  process keeps running its loop, and nothing forces a new reservation.
- **TagRelease** runs to an end (`pc = "done"` has no successor, hence
  `CHECK_DEADLOCK FALSE`).
- **PmSnapshots** states no liveness, and so assumes no fairness.
- **Symmetry.** None is used. The liveness check rules it out for
  MachineLease, and the refinement mapping's `CHOOSE` rules it out for
  MacPool. A busy `BEGIN EXCLUSIVE` always ends in a timeout, so no MacPool
  process waits forever. No liveness is claimed for it.

## Not modelled

These parts are left out:
- `test_teardown` and the VM snapshot keywords: these are libvirt calls of
  one process on its own domains.
- In PmSnapshots: the `lv_size` query and snapshot sizes, the ssh
  connections of each keyword (taken to succeed), and a second machine. The
  machines of one process are cleaned up one after another, and they share no
  snapshot state.
- In PhysicalMachines: `_get_nics`, `_get_machine_ip`, `_get_machine_hostname`
  and `set_environment_config`. These are ssh queries and parsing of their
  output, and they change no state that another step reads.
- `Oek.py` (inventory templating): file templating and an ansible call.
- `make-automation-report.py`: one pass of grep, regex normalisation,
  counting and table printing, with no state and no failure handling to
  interleave. Its edge cases are questions a unit test reaches directly:
  string sorting of zero-padded ids puts suite 100 before 20, and a zero
  total fails `__calc_ratio`.
- In TagRelease: argument parsing, colours, the ahead-count and authors
  text of the mismatch message, and the tags already on origin before the
  run.
- The contents of messages, names and paths: these are model values.

## Plan

Modules done: StageOrchestrator, MachineLease, MacPool (refining
MacOwnership), NicVfPool, PmSnapshots, TagRelease.

Next:
- an abstract lease specification (one owner per machine) that MachineLease
  is checked against through `INSTANCE ... WITH`, which shows where the
  close/unlink race breaks the refinement;
- a second invocation of `tag-release.py` after a part-way push, with the
  origin's tags as state;
- a property linking StageOrchestrator's devel-mode lock files to its
  checkpoint.
