# A verification development for the Monarch installer ISO

`monarch-iso` builds a live ISO that installs Monarch on a machine: on a whole
disk or beside another system in free space, by a wizard or unattended from a
`cidata` drive, for the person at the keyboard or (deferred) for a later owner.
This directory holds TLA+ modules of the parts of it that decide what happens to
somebody's disk, firmware and first boot; TLC checks them on small instances and
TLAPS proves the main results for every value of the constants.

Paths below are relative to the repository; `PI` is
`configs/airootfs/usr/share/monarch-iso/orchestrator/phases_impl.py`. Line
numbers of every modelled definition are in `PROJECT.json`, under `map`.

## 1. The system

### Flow of an installation

```
boot -> .automated_script.sh
          |-- monarch-cidata-load --ok--> files in /root
          |                       --no--> configurator (wizard) --> files in /root
          |                                 \-- free space: makes, formats, mounts
          |                                     the partitions before the hand-over
          v
        monarch-install-dashboard  (screen, prompts, stop)
          | child, own process group (setsid)
          v
        orchestrator main.py -> phases.py -> phases_impl.py
             verify medium, partition, deploy the root image or pacstrap,
             configure, EFI entry, validate, snapshot @factory
             finally: governors, bind mounts, hook mask, rollback
   monarch-mirror-verify.service (systemd, from boot) <-- monarch-wait-mirror-verify
             <-- partition tool, configurator, orchestrator
```

Communication is by files in `/root` (inputs), by `state.json` in the state
directory (progress), by exit codes (0 success, 1 failure, 2 refused
configuration, 130 interrupted), by the unit state systemd reports, and by what
is on the disk, in its mounts and in NVRAM.

### Components

| Component | State it keeps | Operations | What is hard | What makes it correct |
|---|---|---|---|---|
| Pacman hook mask (`PI` 563-579, 650-692, 1112-1132, 1984-1988) | hook files and backups of the live system and of the target | mask, unmask, assert restored | every call may fail; signals; a second install over a killed one | a hook is neither lost nor masked after success |
| Free-space partitioning (`disk-partitioning.sh`, `configurator` 441-777, `PI` 1991-2025) | partition table, claimed numbers, mounts, LUKS mapping | detect table, create, format, mount, roll back in two processes | others change the disk; unchecked rollback commands | only our partitions are written to or removed; none is orphaned |
| Disk layout arithmetic (`configurator` 540-620, `write-install-config`) | none | choose a region, align, check sizes | inclusive ends, GPT reserve, stale measurement | the plan can be made and is what was promised |
| Medium verification (unit, `monarch-wait-mirror-verify`) | unit state, counters, clock | poll, restart, give up | two timeouts, lost answers, stale `Result` | no write without a verdict; every call returns |
| UEFI boot entries (`PI` 317-440, 502-538, 868-900, 1297-1311, 1704-1719, 2028-2057) | NVRAM entries, `BootOrder`, ESP files, the fallback setting | register, reorder, write the setting, validate, roll back; later upgrades | firmware that refuses, forgets, loses; tools that run years later | nothing of others is touched; a success boots |
| Orchestrator run (`main.py`, `phases.py`, `PI`) | phase, bind mounts, governors, verdict | 15 phases, finally | any call fails; a signal at any step | the exit status is true; nothing leaks |
| Live session (`.automated_script.sh`, `monarch-cidata-load`, dashboard) | input files, `state.json`, screen flags | load, wizard, hand over, prompts, stop | retries in one session; half copies | inputs are of one attempt; unattended runs end |
| Provisioning and boot image (`context.py`, `prebuilt_uki.py`, `PI`) | accounts, keys, drop-ins, image, `@factory` | stage, finalize, login, ssh, tailscale, validate, snapshot, scrub, seal | late changes to boot inputs; secrets staged far from the scrub list | the first boot finds what it needs, the next owner nothing of the last |
| Root image deployment (`root_image.py`; `PI` 112-136, 779-859, 1833-1851; `command.py`) | device content, UUID, subvolumes, staging, `fstab`, command line | preflight, wipe, inspect, write, re-identify, rearrange, fill boot, name the root | nested subvolumes, stale staging, shared UUID, cached answers | nothing lost, nothing foreign written to, the root is found at boot |
| Packages (`build-iso.sh`, `build-root-image.sh`, `select-shipped-mirror.py`, `archinstall_adapter.py`, `PI` 63-91, 580-597, 693-712) | lists, image, mirror, what is installed | reduce the mirror; ask for the rest, list by list | a list read on one kind of hardware only; lists subtracted in two languages | every archive is at hand; what was chosen is installed |
| Interactive configurator forms | answers | gum forms | none shared | partly: only their results are modelled |
| Archinstall adapter | device handler | retried commit, package delta, applications | partition table race | partly: retry in `Install`, packages in `Packages` |
| Keyboard (`keyboard.py`) | console keymap | configure, fall back to `us` | the passphrase prompt is typed in it | in `Provisioning` |
| Command capture (`command.py`) | none | decode output | bytes lost in decoding | partly: identifiers, in `RootImage` |
| Dashboard progress bar | log position | draw | marker order | not modelled |
| Release, VM snapshots, integration harness, diagnostics, profile, the rest of mirror and ISO build | files | scripts | see sections 2 and 7 | not modelled |

## 2. Plan

Modules in order of what a mistake costs:

1. data loss: `FreeSpace`, `Layout`, `RootImage`, `MediaVerify`
2. an installed system that does not boot or update: `HookMask`, `EfiEntries`,
   `Provisioning`
3. a run that lies about its result: `Install` against the abstract
   `InstallContract`
4. the session around it: `LiveSession`
5. what is installed: `Packages`, composed with `Install`
6. proofs of 1-5

All of that is here. What is left, in the order of what it would add:

- **`VmSnapshot`** (`bin/monarch-vm`, `bin/monarch-iso-boot`): a disk and its
  firmware variables as a pair over save, overwrite and boot in place. The
  snapshot is overwritten disk first and variables second (`monarch-vm` 63), so an
  interrupt between the two pairs a disk with the variables of another.
- **`Release`** (`bin/monarch-iso-release`, `-sign`, `-upload`): image, checksum
  and signature. The image is uploaded first (`monarch-iso-upload` 14), so a
  failure leaves a published image nobody can verify.
- **dashboard progress** (`install_progress`): monotone, and 100 only at the end.
- **test harness**: reuse of a base image and the stop of a running VM.
- **composition**: `Install` with `HookMask` and `EfiEntries`, so that one run
  sees the order of main's `finally` across all three. They are separate because
  none of them reads a variable of another; only their order in `finally` is
  shared, and `Install` holds it.

## 3. The modules

In every module an action is one call that can fail or be interrupted on its
own. Where the shell or Python code cannot be observed between two assignments,
they are one action. Definitions with "Variant" or "Faulty variant" above them
are plausible bugs; no action uses them. They document what each property is
sensitive to: put in place of the real definition, the property fails.

### HookMask
`path[h]` and `backup[h]` are what stands at `etc/pacman.d/hooks/NAME` and at
`NAME.monarch-backup`; `root` says whose hooks. `MaskRename`, `MaskLink`,
`UnmaskUnlink`, `UnmaskRename` are the file-system calls; `MaskFails`,
`UnmaskFails` the failures (the first raises, the second is logged). `Interrupt`
raises KeyboardInterrupt, so main's `finally` runs for the target;
`Kill` ends the process; `Restart` starts the next install in the session, over
what the last one left in the live directory.

### FreeSpace
GPT slots, owned by nobody, others or this run. `Decide`, `Recheck` read the
table type by the three probes; `ReadBefore`, `MkPart`, `Claim`,
`LeaveUnclaimed` are `create_partition`; `Writes`, `Acquires`, `UmountTmp` the
formatting and mounting; `HandOff` the JSON; `Rb*` is `disk_abort_hook`, `Cl*`
is `cleanup_protected_state`. `External*` are other programs. `excused` records
that a partition was made that parted or the second read did not acknowledge,
or that an unchecked rollback command failed.

### Layout
The bounds in sectors. `Decide` is the arithmetic; `Make`, `TakeDisk` what parted
makes of it and the size check after it. Others may add partitions between.

### MediaVerify
The unit (`StartJob`, `CheckEnds`, `CheckTimesOut`, `Stopped`), the clock
(`TickIdle`, `TickCall`) and the waiter (`Call`, `Start`, `Answer`, `NoAnswer`,
`Sleep`). `Meaning` is the `case` on the three properties systemctl shows.
`Write` is what the caller does with a good exit. The clock does not tick past a
deadline of the unit or past `timeout 10s`, which is what timeouts mean.

### EfiEntries
`entry`, `order`, `loader`, `fallback` are the firmware and the ESP. `ReadBefore`
to `SetOrder` is the registration, `CheckWindows`, `Validate`, `NoRoute` the
checks, `Delete`, `Restore` the rollback, `FirmwareLoses` what firmware does by
itself. `Interrupt` is Ctrl+C at any step until `Succeed` ends the last phase (130
and the rollback, as a failure), `InterruptRollback` one in the rollback, whose
record is popped before its calls. The ghost `unrecorded` says that the
registration was left without a look at what it had made, `kept` that a call of
the rollback failed or was cut off. In a free-space install the ESP is fresh, yet the module starts with
every state of its two files: the code does not rely on it being empty.
`wanted` is `enable_fallback` of the boot intent and `setting` the line
`ENABLE_LIMINE_FALLBACK` that tells Limine's own tools whether the fallback loader
is theirs. `WriteDefaults` writes it, `TargetSetup` (the runtime, external) may
write it again, `FinalizeBoot` looks once more and runs the tools, and `Upgrade` is
what the pacman hook and those tools do on the installed system later.

### Install and InstallContract
`phase` walks `build_phases`; inside a phase `pc` walks what is acquired and given
back. `ConfigError` and `InterruptEarly` end main before its `try`, without a
`finally`. `Handler` is where an exception goes: the `finally` of the phase that holds
something, or `run`. `Finally` is main's `finally` in its order: governors, binds,
rollback. `mode` never changes except that a signal sets `cut`.
`choice`, `installed` and `txn` are the packages: `Layout` deploys the image, `Strap`
runs the transactions of `Packages` one by one.
`InstallContract` is the abstract specification: five actions over `protected`,
`verdict` and `disk`. `Contract == INSTANCE InstallContract WITH ...` is the
refinement mapping, and `KeepsContract` is checked with its fairness.

### Packages
The lists of the build and of the installer as sets. `Image` and `Shipped` are what
the build leaves: the root image without the optional applications, and the part
of the mirror the image cannot supply (`Select`). `Requested` is each transaction
of the installer, `Missing` the look into the target's package database,
`Fetched` the archives pacman then needs. `Needs` is pacman's resolution, external.
`ListsAssumption` is what the code needs of lists that are kept elsewhere. `MCInstall`
gives a mirror of thirteen packages and three choices.

### LiveSession
`file[f]` is the attempt that wrote file `f` in `/root`, which turns "stale" into
a comparison with `attempt`. `StartScript` begins an attempt; `NoMedium`, `Clear`,
`Copy`, `CopyFails`, `Uncopy` are the loader; `WizardUser`, `WizardConfig` (either of its two writers) in the order the
configurator calls them; `Flags`, `HandOver` the script; `Accepts` is `from_env`;
`Writes` is what a write of the wizard comes to: whole, cut short or, of a file that
was not there, nothing, and no difference in what the wizard does next, since the
configurator runs without `set -e` and looks at no status (777, 1008, 1020).
A write fails for lack of room, after the shell has emptied the file.
`broken` has the JSON files that do not parse, after such a write, a copy that
failed or from the drive, the ghost `spoilt` says that a write of this attempt failed;
`FailureExit`, `FailureMenu`, `Finish*`, `StopChild` the dashboard.

### Provisioning
One action per phase that touches accounts, unlock material, boot image or
snapshot, in the order of `After`. Files are names in the sets `root` and `home`,
a passphrase is one of five values, a boot image is its kind, its command line
and whether it opens the root with what it carries. `input.keyboard` is the layout
asked for and `boot.keymap` the console's after `configure_keyboard`, which an
image carries from the moment it is built. Each phase may fail.

### RootImage
`Preflight` is `validate_layout`, which the run calls before `Wipe` clears a whole
disk; a free-space install skips both. A directory of the image stands for the
files in it; `tree` says where they are.
`Layouts` is every subvolume layout over the candidate names; `Accepted` is the
check that refuses layouts the rearrangement cannot serve; `CreateSubvolume`
takes one directory out at a time, in the order `NextNames` allows; `StageBoot`,
`Remount`, `FillBoot` move what belongs on FAT. `uuid` is the device's and `cached`
what `blkid` may still answer; `WriteCmdline`, `WriteFstab`, `ValidateFilesystems`
write and check the names of the root from `Identifier`. `MCRootImage` gives the
candidates and the devices.

## 4. The runs

| Run | Instance | Why this is enough |
|---|---|---|
| `hook_mask` | 2 hooks, both roots, 3 failed calls, 3 installs | a loop over hooks interacts only through an early exit, which two show; three installs show a backup of a backup |
| `free_space` | 5 slots, 2 acts of others who add or remove, and relabel | two of ours, one on either side and one spare; two acts are enough for the swap of the violation run |
| `layout` | MiB = 4 sectors, EFI 8, minimum 20, disks of 8 to 35 sectors | every residue modulo the alignment at both ends, sizes on both sides of the minimum |
| `media_verify` | start 3 s, stop 1 s, margin 3 s, call 2 s, limits 2 and 3 | the constants keep the inequalities of the real ones (30 >= 10, 30 > 15 + 1); a third call shows a retry after a retry |
| `efi_entries` | 3 slots, every NVRAM, order and fallback intent, 3 faults, an interrupt, any number of upgrades | Windows, another Limine, ours; one fault for the install, two for the rollback |
| `install` | both kinds, 3 faults, one signal of each kind; 13 packages, 3 choices | an error, one in a `finally`, one in the rollback; an optional package that a chosen one needs, one that none needs, firmware some machines ask for |
| `live_session` | 2 attempts, one personal file, one extra, every drive | staleness needs one earlier attempt; files of a class are treated alike |
| `provisioning` | every combination of inputs, three layouts (the default, another, an unknown one) | no bound on the inputs besides their classes |
| `root_image` | 4 directories, 4 mountpoints, 6 names, every partition of a free-space install, every disk to be wiped | depth three (`@`, `@/a`, `@/a/b`), a sibling root and a mountpoint the image lacks |
| `free_space_swap` | 3 slots, others who add and remove | **violation**, below |
| `install_stopped` | a free-space install, no failures, SIGTERM | **violation**, below |
| `live_session_stale` | as `live_session` | **violation**, below |

`CHECK_DEADLOCK FALSE` is in every configuration: every one of these programs
ends.

### What they show

- **HookMask.** `HookNeverLost`: a hook is at its path or at its backup, never
  at neither or both, whatever failed or was killed. `CommandRunsMasked`,
  `HandedOverUnmasked`, `CleanExitRestores`.
- **FreeSpace.** `TheirsUntouched`, `ClaimsOnlyOurs`, `NoOrphans`,
  `HandOffComplete`: with others who only add or only remove (and may replace
  the table), nothing of theirs is written to and nothing of ours stays.
- **Layout.** `PlanIsFeasible`, `MadeAsPromised`, `RefusalJustified`.
- **MediaVerify.** `NoWriteWithoutVerdict` (a checksum run really succeeded),
  `GoodVerdictStands`, `GivesUpAfterTheUnit` (a waiter whose calls are prompt is
  more patient than the unit), `CallReturns` (liveness).
- **EfiEntries.** `ForeignUntouched`, `OthersKeepTheirOrder`,
  `FailureRemovesEntry`, `HandedOverBootable`. A failure or an interrupt takes our
  entry back but for the two cases of `unrecorded`, below. The first holds through every later
  upgrade of Limine too: whoever sets the fallback setting, the last look before the
  tools run forbids them a loader of someone else.
- **Install.** `FstabClean` (no live-only bind is mounted when `genfstab` runs),
  `NothingLeftMounted`, `ExitTellsTruth` (of a run that has begun), `KeepsContract` (refinement,
  including that every run ends with a verdict). `ArchivesAtHand`: no transaction
  needs an archive the reduced mirror lacks, whatever the hardware asks for.
  `AsChosen`: a finished system holds what was chosen with its dependencies,
  and an application left out does not come back by another list.
- **LiveSession.** `InputsOfThisAttempt`: an automatic install works from the
  files of its drive and no others, a wizard's from its user's answers of this
  attempt, never an earlier one's. `HandoverAccepted`: when `from_env` refuses, the
  credentials were broken on the drive or a write of the wizard failed in this
  very attempt. `ScreensAgree`, `AutoEnds` (liveness).
- **Provisioning.** `ReadyForItsOwner`, `OpensUnattended`,
  `BootsItsConfiguration`, `ReachableAsAsked`, `FactoryHoldsNoSecrets`,
  `FactoryStandsAlone`.
- **RootImage.** `NothingLost` (nor does the ESP get files of a failed attempt),
  `NeverMountedAsTemplate`, `NamesTheRoot` (`fstab` and the command line name the
  UUID the device has in the end, although it changes twice and `blkid` may
  answer from its cache), `WritesOnlyDisposable` (no disk is wiped for a layout that
  is refused afterwards).

### The violation runs

- **`free_space_swap`**, `ClaimsOnlyOurs`. `disk-partitioning.sh:139-140` says that
  two additions and a deletion are not the run's to claim. But parted fills the
  lowest free slot: slot 2 is in use when the numbers are read, another program
  adds 1 and removes 2, `mkpart` takes 2, and the second read shows one new
  number, 1, and none removed. The foreign partition is claimed. It takes two
  acts of another program inside one `mkpart`.
- **`install_stopped`**, `StoppedIsRolledBack`. `README.md:61-62` promises that a
  failed free-space install removes what it created. Ctrl+C on the dashboard
  sends SIGTERM, which the orchestrator does not handle, so main's `finally` does
  not run and the partitions (and a hook mask) stay.
- **`live_session_stale`**, `AllInputsFresh`. `monarch-cidata-load:41-45` clears
  the inputs of an earlier drive, but after it has exited for lack of a drive:
  the wizard of the next attempt then hands over the marker or the keys of a
  drive that is gone.

### Known limits the models show without a run

- A read that fails after `efibootmgr --create` leaves the entry unrecorded, so
  the rollback cannot remove it (`PI` 407-411); so does an interrupt between that
  call and the record (`PI` 391-424), which main turns into 130 and a rollback
  that knows of no entry. `FailureRemovesEntry` excuses the two by the ghost
  `unrecorded`.
- A write of the wizard that fails is noticed by nobody (`configurator` 777, 1008,
  1020; it exits 0). With `/root` full, a configuration cut short is handed
  over, `from_env` raises on it (`context.py` 50, 64), and main ends before its
  `finally`: the partitions the wizard has made stay, contrary to
  `README.md:61-62`. `HandoverAccepted` allows exactly this and broken credentials
  on a drive, and `ExitTellsTruth` speaks of a run that has begun. The same goes for
  an interrupt before main's `try` (`main.py` 81-97).
- A free region of 32 GiB or little more is refused because alignment eats into
  it (`configurator` 569-578): `RefusalJustified` allows the two margins.
- An interrupt between a bind mount and the note of it, or SIGTERM anywhere,
  leaves the mount, and with the debugging log on so does a debug line that cannot
  be written (`PI` 627-628, 1007-1008, 1065-1093): `NothingLeftMounted`
  speaks of runs no signal has met, and its run has the debugging log off.
- What `validate_layout` checks before the wipe is the layout alone: a disk too
  small for the image, several members or a mount that is not FAT are refused
  only after the disk was wiped (`root_image.py` 113-120, 259-261).
  `WritesOnlyDisposable` claims the layout only.
- A retry of the medium check whose poll comes before the queued start answers
  with the earlier failure (`monarch-wait-mirror-verify` 80).

## 5. Fairness

- `Install`: `WF(Run)`. The commands of a phase end, with or without success; the
  orchestrator is one process that the kernel schedules. Faults and signals are
  not fair: they need not happen. The retry of the partition race ends because
  the code counts attempts.
- `MediaVerify`: weak fairness of the waiter, whose calls either return or run into
  `timeout 10s` and whose loop sleeps a second per round, and of the unit's two
  deadlines (`CheckTimesOut`, `Stopped`), which systemd enforces. Nothing else is
  fair: systemd need not run the queued job nor answer, and the checksum run
  need not end.
- `LiveSession`: weak fairness of the loader, the script, the child and the
  dashboard's unattended exits. The user is not fair: nothing depends on a key
  being pressed. That the child ends is what `Install` shows.
- The other modules state safety only.

## 6. Proofs

Each `*Proofs` module extends its component's module and TLAPS; `SessionProofs`
has the proofs of both `MediaVerify` and `LiveSession`.

| Theorem | Property | Holds for |
|---|---|---|
| `HookMaskProofs!HookPreserved`, `HandOver`, `MaskedWhileRunning`, `ExitRestores` | the four of `hook_mask` | any hooks, signals, faults, restarts |
| `FreeSpaceProofs!Untouched`, `OnlyOurs`, `Orphans`, `HandedOff` | the four of `free_space` | any slots and faults, under `NoSwap` |
| `LayoutProofs!Promise`, `Feasible`, `Refusals` | the three of `layout` | any sizes that satisfy `LayoutAssumption` |
| `SessionProofs!WriteNeedsVerdict`, `Stands`, `Patient` | the safety of `media_verify` | any periods; `Patient` under `MarginCovers` |
| `SessionProofs!SessionTyped`, `SessionInputs`, `SessionAccepted`, `SessionScreens` | the safety of `live_session` | any personal and extra files, any number of attempts and drives |
| `EfiEntriesProofs!OthersSafe`, `OthersInOrder`, `RollbackComplete`, `HandOver` | the four of `efi_entries` | any slots and faults, a `BootOrder` of any length, both kinds of install, any number of upgrades |
| `InstallProofs!CleanFstab`, `TruthfulExit` | two of `install` | both kinds, deferred or not, debugging or not, any faults |
| `InstallProofs!Released` | `NothingLeftMounted` | the same, without the debugging log |
| `InstallProofs!ReleasedButTheLog` | every mount but the log's, and the governors | the same, debugging or not |
| `InstallProofs!KeepsContractSteps` | the safety part of `KeepsContract` | both kinds, deferred or not, debugging or not, any faults |
| `InstallProofs!NothingMissing`, `ChosenInstalled` | `ArchivesAtHand`, `AsChosen` | any packages, lists and choices, under `PackagesAssumption` and `ListsAssumption` |
| `RootImageProofs!FilesAtHome`, `OnlyDisposable`, `MountedAsItself`, `RootNamed` | the four of `root_image` | any image, subvolume names and mountpoints (paths of any depth), layouts and devices |
| `ProvisioningProofs!Owned`, `Unattended`, `Configured`, `Reachable`, `NoSecrets`, `StandsAlone` | the six of `provisioning` | any shapes of the key files and keyboards |

The arguments:

- **HookMask.** "At exactly one place" is inductive only with where the loop is:
  which hooks have been visited when `pc` is in a loop, and that a backup implies
  a mask or a hook between two calls (`LoopInv`), and what a status or an exit
  implies about the last unmask (`OutcomeInv`).
- **FreeSpace.** `NoSwap` says that no company both adds and removes. The key
  part is `AfterInv`: between the two reads, every slot of the first read that
  is not ours is still in use, or no slot is new; hence the one new number is
  the one `mkpart` took. `ListInv` and `NameInv` carry it to the lists,
  `LabelInv` says that `mklabel` met a blank disk, `HeldInv` what the rollback
  must release. `free_space_swap` shows that the assumption is needed.
- **Layout.** `PlanSound` is the arithmetic: quotients are introduced as
  integers with their two inequalities, so that each leaf is linear. The
  invariant adds that planned and made partitions lie in a region that was free.
- **MediaVerify.** `Gate` ties the exit of the waiter to `verified`. `Pace` bounds
  the waiter's clock by the unit's plus the polls and the stop period, which is
  where `MarginCovers` (the 30 seconds of the script) is used.
- **LiveSession.** `Gathered` is what the hand-over rests on: from the
  moment the loader or the wizard is done until the orchestrator has read its
  inputs, `/root` holds either exactly the files of one drive, all written in this
  attempt and broken only where the drive's are, or the wizard's, none of an earlier
  attempt and all there and sound unless a write failed (`Answered`). It is inductive only with
  `Placed`: `/root` is clear of inputs when a drive is inspected, `auto` is set on no
  path that leads through the wizard, a child runs only while the dashboard
  watches it, and `state.json` and the failure screen are of this attempt or empty.
- **EfiEntries.** `Ownership` says which slots may hold our entry at each `pc`,
  `Accounted` that it is in the rollback record unless the registration was left
  unread (`unrecorded`), `Checked` what the Windows check and the validation have
  seen, and that the setting forbids a foreign fallback from the last look on.
  `Ordered` is for `OthersInOrder`: every order the install has set or may set
  again keeps the others' entries as the machine had them. It rests on what `Kept`
  (the filter on `BootOrder`) does: that it is defined on every sequence, what it
  makes of one more entry at either end, and that filtering twice is filtering by
  the intersection. `Kept` is a recursive function, so these need an induction;
  tlapm cannot instantiate the library's theorems, but their form with a set in
  place of the predicate (`Induction`, `OrderInduction`) follows from `WFMin`.
- **Install.** `IInv` begins with `TypeOK`, `BindsInPlace` and `VerdictFollowsDisk`:
  which temporary mounts can exist at each step, and how disk, report, verdict
  and code go together. `FstabClean` follows from the first two, the exit status
  and every step of the refinement from the first and the third.
  `MountsAccounted` adds what each place of the code still owes an unmount; with
  the debugging log on, a line that cannot be written leaves the log mounted
  (`Forgotten`), hence `~Debug` in `Released`.
  `PackagesInPlace` says that `installed` is closed, holds the image and every
  transaction so far, and nothing beyond the closure of what was chosen; the
  lemmas on `Closure`, `Requested` and `Fetched` do the rest: what is missing is in `Installable` and not in `Image`, so the mirror has it.
- **RootImage.** `DeviceInOrder` lists what each place of the deployment knows of
  the device: accepted, single, large enough, empty, unmounted, and from
  `RefreshUuid` on a UUID that cache and device agree on, so that whatever `blkid`
  answers names the root. `FilesInOrder` is the argument along paths: while subvolumes are
  made, parents first, every file lies in the deepest one made so far, and
  taking out the next one moves just the files below it (`Filled`, on `ImagePlace`,
  `ImageBelow` and `ImageAbove`). The image has those directories nested as the
  mounts nest them; `ImageOrder` proves it of every accepted layout from
  `Nested`, whose proof is a minimal counterexample over the depth of a nested
  subvolume. So the deepest subvolume in the image is the one mounted deepest over the file. For FAT,
  `TakenIsCovered` and `CoveredIsTaken` say that `StageBoot` takes exactly the
  directories a FAT mount will cover most deeply, whence `FillBoot` puts every one
  where it belongs.
- **Provisioning.** One conjunct per concern (`Keyed`, `Peopled`, `Booting`,
  `Reached`, `Kept`), each saying what is settled from which phase on (`FromStage`
  and its like). `Booting` is the delicate one: an image that carries the key was
  built on the target after staging, since staging changes a boot input and a
  changed input rules the prebuilt image out. `Kept` ties the read-only state of
  the factory image to the scrub list having been gone through to its end.

Assumptions on constants are named in each module and as weak as the proofs
need; TLC evaluates them in the runs.

**Only model-checked.** Liveness and `ENABLED` (`CallReturns`, `AutoEnds`, the
fairness of `KeepsContract`) are out of the prover's reach. `NothingLeftMounted`
with the debugging log on is neither proved nor claimed: a write to the log that
fails between its bind mount and the `try` (`PI` 1085) leaves it mounted; that
this is the only mount left is `ReleasedButTheLog`. Every other property of the
passing runs is stated by a theorem. No module has a RECURSIVE operator.

## 7. Not modelled

- The gum forms, the locale tables, colours, the drawing of the
  dashboard and the log upload: no state that another part reads.
- What archinstall, pacman, limine-update and Btrfs do inside: external, and
  modelled by the outcomes the code distinguishes. Snapshots and FAT copies are
  sets of files.
- Processes below the leader of the installer's process group: the dashboard
  waits for the leader only, so a helper that outlasts SIGTERM may still write
  when the user tries again.
- What `from_env` makes of a configuration that parses and yet lacks a field: it
  raises or refuses, and ends as `ConfigError` does.
- The files of the wizard are either whole or do not parse: a text file cut short
  (the name, the e-mail) is handed over as it is.
- An empty answer of `blkid` for the LUKS container the wizard has just made
  (`configurator` 772), which is not checked either.
- A staging directory that cannot be removed: `rmtree(..., ignore_errors=True)`
  (`root_image.py` 280) is taken to empty `/run/monarch-install/image-esp`, on a tmpfs
  that only root writes to.
- Provides: `pacman -T` counts a package as there when another one provides it;
  `Missing` goes by names, and so may ask for an archive more than the code does.
- `_install_limine_efi` with `removable`, where the loader's path is the fallback's
  own (`EfiEntries` has them as two files), and BIOS boot (`_install_limine_bios`),
  which has no firmware entry.
- Package versions, the repository database and its signatures: the mirror and the
  image are made from the same repositories in one build.
- The bytes of the PE section `embed_cmdline` rewrites, and the locale, time zone
  and mirror calls, which hand their argument to archinstall.
- The build of the image and the ISO besides its package lists, release and upload,
  VM snapshots, the integration harness: tools of the developers that share no
  state with an installation. The plan says which of them are worth a module.
- Power loss in the middle of one file-system call.
- `monarch-install-diagnose-media` and `monarch-iso-cleanup-disk`: they report,
  or run a straight line of commands; the ISO profile is static files.
