------------------------------- MODULE Install -------------------------------
(***************************************************************************)
(* The orchestrator: main.main, phases.run and what the phases acquire and *)
(* give back (phases_impl.py): bind mounts, the factory-snapshot mount,    *)
(* the CPU governors and, for a free-space install, the target and its     *)
(* partitions.  Any call may fail and an interrupt may come at any step    *)
(* before main's finally.  Of the work in between it has the packages: the *)
(* image of the medium and the transactions of arch_install_system         *)
(* (Packages).  The hook mask, the deployment and the boot entry have      *)
(* modules of their own (HookMask, RootImage, EfiEntries).  One interrupt  *)
(* at most: a second one, in main's finally, would cut that short.         *)
(***************************************************************************)
EXTENDS Naturals, Sequences, Packages

CONSTANTS
    Modes,       \* the kinds of install: values of protected
    Deferred,    \* deferred provisioning: no user finalizer
    Interrupts,  \* SIGINT can arrive, to a run from a shell
    Kills,       \* SIGTERM can arrive, from the dashboard
    Debug,       \* MONARCH_INSTALL_DEBUG: more is written to the log
    Choices,     \* the answers tried
    MaxFaults    \* bound: calls that fail

ASSUME InstallAssumption ==
    /\ Modes \subseteq BOOLEAN /\ Choices \subseteq Choice
    /\ Deferred \in BOOLEAN /\ Interrupts \in BOOLEAN
    /\ Kills \in BOOLEAN /\ Debug \in BOOLEAN /\ MaxFaults \in Nat

VARIABLES
    protected, \* a free-space install, handed its partitions; or full-disk
    phase,     \* index of the phase; 0 before the first
    pc,        \* where in main, run or the phase
    exc,       \* the exception in flight: "none", "error" or "interrupt"
    attempts,  \* of the partitioning
    verified,  \* ctx.state["media_verified"]
    boosted,   \* the CPU governors are at performance
    mounted,   \* the temporary mounts
    tracked,   \* ctx.state["bind_mounts"]
    prepared,  \* ctx.state["target_setup_prepared"]
    disk,      \* the target: "before", "partial", "whole" or "reverted"
    choice,    \* include_preinstalls, the auth key, archinstall's applications
    installed, \* the target's package database
    txn,       \* the next of Transactions
    fstab,     \* ghost: temporary mounts that genfstab wrote down
    report,    \* what state.json says: "none", "running", "failed", "complete"
    verdict,   \* "none", "success" or "failure"
    code,      \* the exit status
    stuck,     \* ghost: temporary mounts whose umount failed
    cut,       \* ghost: a signal has come
    faults

resources == <<boosted, mounted, tracked, prepared, fstab, stuck>>
packages == <<choice, installed, txn>>
mode == <<protected, cut, packages>>
outcome == <<disk, report, verdict, code>>
vars == <<mode, phase, pc, exc, attempts, verified, resources, outcome, faults>>

(* build_phases *)
Phases == <<"verify", "live", "target", "system", "hibernation", "finalizer",
            "staging", "limine", "user", "login", "ssh", "tailscale", "dns",
            "validate", "snapshot">>
Last == 15

Mounts == {"cache", "mirror", "packages", "log", "top"}
UnderTarget == Mounts \ {"top"}

Init ==
    /\ protected \in Modes /\ cut = FALSE
    /\ phase = 0 /\ pc = "boost" /\ exc = "none" /\ attempts = 0
    /\ verified = FALSE /\ boosted = FALSE
    /\ mounted = {} /\ tracked = {} /\ prepared = FALSE
    /\ disk = IF protected THEN "partial" ELSE "before"
    /\ fstab = {} /\ report = "none" /\ verdict = "none" /\ code = 0
    /\ stuck = {} /\ faults = 0
    /\ choice \in Choices /\ installed = {} /\ txn = 1

-----------------------------------------------------------------------------
Fault == faults < MaxFaults /\ faults' = faults + 1

Goto(p) == pc' = p

(* Where an exception raised at pc lands: the innermost finally around it.  *)
Handler ==
    CASE pc = "base" -> "release"
      [] pc = "chroot" -> "unlog"
      [] pc = "snapshot" -> "untop"
      [] OTHER -> "handler"

(* A step of the phase that changes nothing modelled here. *)
Step(from, to) ==
    /\ pc = from /\ Goto(to)
    /\ UNCHANGED <<mode, phase, exc, attempts, verified, resources, outcome,
                   faults>>

(* InstallContext.from_env refuses the configuration, with 2, or raises what *)
(* main does not expect, a file that does not parse: no run, no finally.    *)
ConfigError ==
    /\ pc = "boost" /\ Fault
    /\ verdict' = "failure" /\ code' \in {1, 2} /\ Goto("exit")
    /\ UNCHANGED <<mode, phase, exc, attempts, verified, resources, disk,
                   report>>

(* Writing an unsupported governor fails and is left out of the saved ones. *)
Boost ==
    /\ pc = "boost"
    /\ boosted' \in BOOLEAN
    /\ report' = "running" /\ Goto("next")
    /\ UNCHANGED <<mode, phase, exc, attempts, verified, mounted, tracked,
                   prepared, fstab, stuck, disk, verdict, code, faults>>

(* Where the phase of an index starts. *)
Entry(n) ==
    CASE Phases[n] = "verify" -> "verify"
      [] Phases[n] = "live" -> "cleanup"
      [] Phases[n] = "system" -> IF protected THEN "layout" ELSE "partition"
      [] Phases[n] = "finalizer" -> "mirror"
      [] Phases[n] = "user" -> IF Deferred THEN "body" ELSE "mirror"
      [] Phases[n] = "snapshot" -> "top"
      [] OTHER -> "body"

Enter ==
    /\ pc = "next" /\ phase < Last
    /\ phase' = phase + 1 /\ report' = "running" /\ Goto(Entry(phase + 1))
    /\ UNCHANGED <<mode, exc, attempts, verified, resources, disk, verdict,
                   code, faults>>

Body == pc = "body" /\ Step("body", "next")

Verify ==
    /\ pc = "verify"
    /\ verified' = TRUE /\ Goto("next")
    /\ UNCHANGED <<mode, phase, exc, attempts, resources, outcome, faults>>

Touch == disk' = IF disk = "before" THEN "partial" ELSE disk

(* monarch-iso-cleanup-disk on the disk to be wiped. *)
Cleanup ==
    /\ pc = "cleanup"
    /\ IF protected THEN UNCHANGED disk ELSE Touch
    /\ Goto("next")
    /\ UNCHANGED <<mode, phase, exc, attempts, verified, resources, report,
                   verdict, code, faults>>

Partition ==
    /\ pc = "partition"
    /\ Touch /\ Goto("layout")
    /\ UNCHANGED <<mode, phase, exc, attempts, verified, resources, report,
                   verdict, code, faults>>

(* Variant: the count starts again instead of ending the retries. *)
PartitionRaceForever ==
    /\ pc = "partition"
    /\ Touch /\ attempts' = (attempts + 1) % 2
    /\ UNCHANGED <<mode, phase, pc, exc, verified, resources, report,
                   verdict, code, faults>>

(* "unable to inform the kernel": written, and tried again, twice at most. *)
PartitionRace ==
    /\ pc = "partition" /\ attempts < 2
    /\ Touch /\ attempts' = attempts + 1
    /\ UNCHANGED <<mode, phase, pc, exc, verified, resources, report,
                   verdict, code, faults>>

(* The installer context, the root image (RootImage), the mirrors. *)
Layout ==
    /\ pc = "layout"
    /\ installed' = Image /\ Goto("cache")
    /\ UNCHANGED <<protected, cut, choice, txn, phase, exc, attempts, verified,
                   resources, outcome, faults>>

-----------------------------------------------------------------------------
(* Bind mounts: mounted by one call, noted in ctx.state by the next.        *)

Mount(at, m, to) ==
    /\ pc = at
    /\ mounted' = mounted \cup {m} /\ Goto(to)
    /\ UNCHANGED <<mode, phase, exc, attempts, verified, boosted, tracked,
                   prepared, fstab, stuck, outcome, faults>>

Track(at, m, to) ==
    /\ pc = at
    /\ tracked' = tracked \cup {m} /\ Goto(to)
    /\ prepared' = (prepared \/ m = "packages")
    /\ UNCHANGED <<mode, phase, exc, attempts, verified, boosted, mounted,
                   fstab, stuck, outcome, faults>>

MountCache == Mount("cache", "cache", "cache_note")
TrackCache == Track("cache_note", "cache", "mask")
Mask == Step("mask", "base")

(* pacstrap takes every archive from the mirror; whether it is there is        *)
(* ArchivesAtHand.                                                             *)
Strap ==
    /\ pc = "base" /\ txn <= Len(Transactions)
    /\ installed' = installed \cup Fetched(choice, installed, Transactions[txn])
    /\ txn' = txn + 1
    /\ UNCHANGED <<protected, cut, choice, phase, pc, exc, attempts, verified,
                   resources, outcome, faults>>

Base == txn > Len(Transactions) /\ Step("base", "release")

(* Variant: the failure of the umount is ignored, as everywhere else. *)
ReleaseCacheUnchecked ==
    /\ pc = "release"
    /\ mounted' \in {mounted, mounted \ {"cache"}}
    /\ stuck' = stuck \cup (mounted' \cap {"cache"})
    /\ tracked' = tracked \ {"cache"}
    /\ Goto(IF exc = "none" THEN "fstab" ELSE "handler")
    /\ UNCHANGED <<mode, phase, exc, attempts, verified, boosted, prepared,
                   fstab, outcome, faults>>

(* The finally of arch_install_system, after the hooks are unmasked. *)
ReleaseCache ==
    /\ pc = "release"
    /\ mounted' = mounted \ {"cache"} /\ tracked' = tracked \ {"cache"}
    /\ Goto(IF exc = "none" THEN "fstab" ELSE "handler")
    /\ UNCHANGED <<mode, phase, exc, attempts, verified, boosted, prepared,
                   fstab, stuck, outcome, faults>>

(* umount with check=True raises, over an exception in flight too. *)
ReleaseCacheFails ==
    /\ pc = "release" /\ Fault
    /\ exc' = "error" /\ Goto("handler")
    /\ UNCHANGED <<mode, phase, attempts, verified, resources, outcome>>

(* The keyring, the passwords and genfstab, which lists what is mounted     *)
(* under the target; the free-space install writes its own fstab.           *)
WriteFstab ==
    /\ pc = "fstab"
    /\ fstab' = IF protected THEN fstab ELSE mounted \cap UnderTarget
    /\ Goto("next")
    /\ UNCHANGED <<mode, phase, exc, attempts, verified, boosted, mounted,
                   tracked, prepared, stuck, outcome, faults>>

(* _prepare_target_setup runs once. *)
SkipPrepare == prepared /\ Step("mirror", "log")
MountMirror == ~prepared /\ Mount("mirror", "mirror", "mirror_note")
TrackMirror == Track("mirror_note", "mirror", "packages")
MountPackages == Mount("packages", "packages", "packages_note")
TrackPackages == Track("packages_note", "packages", "log")

(* The log is bound over the target's; a failure is only a warning. *)
MountLog == Mount("log", "log", "log_env")
MountLogFails ==
    /\ pc = "log" /\ Fault /\ Goto("chroot")
    /\ UNCHANGED <<mode, phase, exc, attempts, verified, resources, outcome>>

(* The command line is built before the try around the command. *)
LogEnv == Step("log_env", "chroot")
Chroot == Step("chroot", "unlog")

UnmountLogNever ==
    /\ pc = "unlog"
    /\ Goto(IF exc = "none" THEN "next" ELSE "handler")
    /\ UNCHANGED <<mode, phase, exc, attempts, verified, resources, outcome,
                   faults>>

UnmountLog ==
    /\ pc = "unlog"
    /\ mounted' = mounted \ {"log"}
    /\ Goto(IF exc = "none" THEN "next" ELSE "handler")
    /\ UNCHANGED <<mode, phase, exc, attempts, verified, boosted, tracked,
                   prepared, fstab, stuck, outcome, faults>>

UnmountLogFails ==
    /\ pc = "unlog" /\ "log" \in mounted /\ Fault
    /\ stuck' = stuck \cup {"log"}
    /\ Goto(IF exc = "none" THEN "next" ELSE "handler")
    /\ UNCHANGED <<mode, phase, exc, attempts, verified, boosted, mounted,
                   tracked, prepared, fstab, outcome>>

(* A root that is not Btrfs on @ gets no factory snapshot. *)
SkipSnapshot == Step("top", "next")
MountTop == Mount("top", "top", "snapshot")
Snapshot == Step("snapshot", "untop")

UnmountTop ==
    /\ pc = "untop"
    /\ mounted' = mounted \ {"top"}
    /\ Goto(IF exc = "none" THEN "next" ELSE "handler")
    /\ UNCHANGED <<mode, phase, exc, attempts, verified, boosted, tracked,
                   prepared, fstab, stuck, outcome, faults>>

UnmountTopFails ==
    /\ pc = "untop" /\ Fault
    /\ stuck' = stuck \cup {"top"}
    /\ Goto(IF exc = "none" THEN "next" ELSE "handler")
    /\ UNCHANGED <<mode, phase, exc, attempts, verified, boosted, mounted,
                   tracked, prepared, fstab, outcome>>

-----------------------------------------------------------------------------
(* Where a call of the phase can raise: every step that runs a command or   *)
(* touches a file; the notes only change Python's state, and the command    *)
(* line of the chroot writes to the log only when debugging.                *)
Fallible == {"body", "verify", "cleanup", "partition", "layout", "cache",
             "mask", "base", "fstab", "mirror", "packages", "log", "chroot",
             "top", "snapshot"} \cup (IF Debug THEN {"log_env"} ELSE {})

PhaseRaises ==
    /\ pc \in Fallible /\ Fault
    /\ exc' = "error" /\ Goto(Handler)
    /\ IF pc = "partition" THEN Touch ELSE UNCHANGED disk
    /\ UNCHANGED <<mode, phase, attempts, verified, resources, report,
                   verdict, code>>

(* SIGINT, until main's finally.  In the finally of a phase it skips what   *)
(* is left of that.                                                         *)
Interrupt ==
    /\ Interrupts /\ exc # "interrupt"
    /\ pc \in Fallible \cup {"next", "cache_note", "mirror_note",
            "packages_note", "log_env", "release", "unlog", "untop", "timing"}
    /\ exc' = "interrupt" /\ cut' = TRUE /\ Goto(Handler)
    /\ UNCHANGED <<protected, packages, phase, attempts, verified, resources,
                   outcome, faults>>

(* SIGINT before main's try leaves what is boosted by then. *)
InterruptEarly ==
    /\ Interrupts /\ pc = "boost"
    /\ boosted' \in BOOLEAN /\ cut' = TRUE
    /\ verdict' = "failure" /\ code' = 130 /\ Goto("exit")
    /\ UNCHANGED <<protected, packages, phase, exc, attempts, verified, mounted,
                   tracked, prepared, fstab, stuck, disk, report, faults>>

(* The dashboard's stop_child signals the process group with SIGTERM, for   *)
(* which Python has no handler: no finally runs.                            *)
Kill ==
    /\ Kills /\ pc # "exit"
    /\ verdict' = IF verdict = "none" THEN "failure" ELSE verdict
    /\ code' = 143 /\ cut' = TRUE /\ Goto("exit")
    /\ UNCHANGED <<protected, packages, phase, exc, attempts, verified, resources,
                   disk, report, faults>>

(* run records the failed phase, main turns the exception into a code. *)
Handle ==
    /\ pc = "handler"
    /\ report' = IF exc = "error" THEN "failed" ELSE report
    /\ verdict' = "failure"
    /\ code' = IF exc = "error" THEN 1 ELSE 130
    /\ Goto("restore")
    /\ UNCHANGED <<mode, phase, exc, attempts, verified, resources, disk,
                   faults>>

(* After the last phase state.json says "Installation complete" ... *)
Report ==
    /\ pc = "next" /\ phase = Last
    /\ disk' = "whole" /\ report' = "complete" /\ Goto("timing")
    /\ UNCHANGED <<mode, phase, exc, attempts, verified, resources, verdict,
                   code, faults>>

(* ... before the timing file is written into the target. *)
WriteTiming ==
    /\ pc = "timing"
    /\ verdict' = "success" /\ code' = 0 /\ Goto("restore")
    /\ UNCHANGED <<mode, phase, exc, attempts, verified, resources, disk,
                   report, faults>>

(* An OSError of state.json or the timing file, written outside the try     *)
(* around the phase, is no PhaseError: it passes run's and main's handlers. *)
WriteStateFails ==
    /\ pc \in {"next", "handler", "timing"} /\ exc # "interrupt" /\ Fault
    /\ exc' = "error" /\ verdict' = "failure" /\ code' = 1 /\ Goto("restore")
    /\ UNCHANGED <<mode, phase, attempts, verified, resources, disk, report>>

-----------------------------------------------------------------------------
(* main's finally.                                                          *)
RestoreGovernors ==
    /\ pc = "restore"
    /\ boosted' = FALSE
    /\ Goto(IF verified THEN "binds" ELSE "rollback")
    /\ UNCHANGED <<mode, phase, exc, attempts, verified, mounted, tracked,
                   prepared, fstab, stuck, outcome, faults>>

(* cleanup_bind_mounts; cleanup_target_hook_masks follows (HookMask). *)
CleanupBinds ==
    /\ pc = "binds"
    /\ mounted' = mounted \ tracked /\ tracked' = {}
    /\ Goto("rollback")
    /\ UNCHANGED <<mode, phase, exc, attempts, verified, boosted, prepared,
                   fstab, stuck, outcome, faults>>

(* A failed umount is ignored and forgotten. *)
CleanupBindsFails ==
    /\ pc = "binds" /\ Fault
    /\ \E m \in tracked : /\ mounted' = mounted \ (tracked \ {m})
                          /\ stuck' = stuck \cup {m}
    /\ tracked' = {} /\ Goto("rollback")
    /\ UNCHANGED <<mode, phase, exc, attempts, verified, boosted, prepared,
                   fstab, outcome>>

(* Variant: cleanup_protected_state runs whatever the outcome. *)
RollbackAlways ==
    /\ pc = "rollback"
    /\ disk' = IF protected THEN "reverted" ELSE disk
    /\ mounted' = IF protected THEN mounted \ UnderTarget ELSE mounted
    /\ Goto("exit")
    /\ UNCHANGED <<mode, phase, exc, attempts, verified, boosted, tracked,
                   prepared, fstab, stuck, report, verdict, code, faults>>

(* cleanup_protected_state: umount -R takes what is left below the target,  *)
(* then the partitions of this run are removed.                             *)
Rollback ==
    /\ pc = "rollback"
    /\ IF protected /\ verdict = "failure"
       THEN disk' = "reverted" /\ mounted' = mounted \ UnderTarget
       ELSE UNCHANGED <<disk, mounted>>
    /\ Goto("exit")
    /\ UNCHANGED <<mode, phase, exc, attempts, verified, boosted, tracked,
                   prepared, fstab, stuck, report, verdict, code, faults>>

(* The target is busy: parted refuses to remove partitions in use. *)
RollbackFails ==
    /\ pc = "rollback" /\ protected /\ verdict = "failure" /\ Fault
    /\ stuck' = stuck \cup {"target"} /\ Goto("exit")
    /\ UNCHANGED <<mode, phase, exc, attempts, verified, boosted, mounted,
                   tracked, prepared, fstab, outcome>>

System == Partition \/ PartitionRace \/ Layout \/ MountCache \/ TrackCache
          \/ Mask \/ Strap \/ Base \/ ReleaseCache \/ ReleaseCacheFails \/ WriteFstab
Setup == SkipPrepare \/ MountMirror \/ TrackMirror \/ MountPackages
         \/ TrackPackages \/ MountLog \/ MountLogFails \/ LogEnv \/ Chroot
         \/ UnmountLog \/ UnmountLogFails
Factory == SkipSnapshot \/ MountTop \/ Snapshot \/ UnmountTop
           \/ UnmountTopFails
Finally == RestoreGovernors \/ CleanupBinds \/ CleanupBindsFails \/ Rollback
           \/ RollbackFails
Run == ConfigError \/ Boost \/ Enter \/ Body \/ Verify \/ Cleanup
       \/ System \/ Setup \/ Factory \/ PhaseRaises \/ Handle \/ Report \/ WriteTiming
       \/ WriteStateFails \/ Finally

Next == Run \/ Interrupt \/ InterruptEarly \/ Kill

(* The process runs; every command it waits for ends. *)
Spec == Init /\ [][Next]_vars /\ WF_vars(Run)

-----------------------------------------------------------------------------
Pcs == Fallible \cup {"boost", "next", "cache_note", "mirror_note",
    "packages_note", "log_env", "release", "unlog", "untop", "handler",
    "timing", "restore", "binds", "rollback", "exit"}

TypeOK ==
    /\ protected \in Modes /\ cut \in BOOLEAN
    /\ phase \in 0..Last /\ pc \in Pcs
    /\ exc \in {"none", "error", "interrupt"} /\ attempts \in 0..2
    /\ verified \in BOOLEAN /\ boosted \in BOOLEAN /\ prepared \in BOOLEAN
    /\ mounted \subseteq Mounts /\ tracked \subseteq Mounts
    /\ fstab \subseteq Mounts /\ stuck \subseteq Mounts \cup {"target"}
    /\ disk \in {"before", "partial", "whole", "reverted"}
    /\ report \in {"none", "running", "failed", "complete"}
    /\ verdict \in {"none", "success", "failure"} /\ code \in {0, 1, 2, 130, 143}
    /\ choice \in Choices /\ installed \subseteq Package /\ txn \in 1..7
    /\ faults \in 0..MaxFaults

(* _mount_offline_package_cache: the live-only bind never leaks into the    *)
(* installed system's fstab, whichever call before genfstab failed.         *)
FstabClean == fstab = {}

(* Every archive a transaction takes is on the medium: the mirror was reduced  *)
(* to what the image lacks (select-shipped-mirror.py), and no list the         *)
(* installer asks for later may need an archive that was thrown away.          *)
ArchivesAtHand ==
    pc = "base" /\ txn <= Len(Transactions) =>
        Fetched(choice, installed, Transactions[txn]) \subseteq Shipped

(* A finished install holds what was chosen with its dependencies, and nothing *)
(* else: an application that was left out is there only when a chosen one      *)
(* needs it, tailscale only with an auth key (_runtime_package_list,           *)
(* arch_install_system), although the image was built before the choice.       *)
AsChosen == verdict = "success" => installed = Closure(Chosen(choice))

(* When an installer that no signal has met ends, nothing temporary is left *)
(* mounted, but for a mount whose own umount failed, and the governors are  *)
(* as they were.                                                            *)
NothingLeftMounted ==
    pc = "exit" /\ ~cut => mounted \subseteq stuck /\ ~boosted

(* The exit status tells the truth: 0 says that every phase has passed and  *)
(* nothing was taken back; 1 or 130 says, of a free-space install that had  *)
(* begun to run and whose target could be released, that its partitions are *)
(* gone.  Before the run (from_env, the governors) main has no finally.     *)
ExitTellsTruth ==
    pc = "exit" =>
      /\ code = 0 => disk = "whole" /\ phase = Last /\ report = "complete"
      /\ code \in {1, 130} /\ protected /\ report # "none" =>
           disk = "reverted" \/ "target" \in stuck

(* The installer keeps its contract: one verdict, success only for a whole  *)
(* system, partitions taken back after a failure only, and an end.          *)
Contract == INSTANCE InstallContract
    WITH protected <- protected, verdict <- verdict, disk <- disk
KeepsContract == Contract!Spec

(* README.md:61: a failed free-space install removes its partitions; here,  *)
(* one that the user stopped on the dashboard.                              *)
StoppedIsRolledBack ==
    pc = "exit" /\ verdict = "failure" /\ protected => disk = "reverted"

-----------------------------------------------------------------------------
(* The strengthening of InstallProofs.                                      *)
SystemPcs == {"partition", "layout", "cache", "cache_note", "mask", "base",
              "release", "fstab"}
SetupPcs == {"mirror", "mirror_note", "packages", "packages_note", "log",
             "log_env", "chroot", "unlog", "top", "snapshot", "untop"}
FinallyPcs == {"restore", "binds", "rollback"}

(* The live-only bind is below the target in its own phase, the fourth,     *)
(* only, and the other binds come later.                                    *)
BindsInPlace ==
    /\ pc \in SystemPcs => phase = 4
    /\ pc \in SetupPcs => phase > 4
    /\ pc = "boost" => phase = 0
    /\ pc \in {"verify", "cleanup"} => phase < 4
    /\ pc = "body" => phase # 4
    /\ phase <= 4 => mounted \subseteq {"cache"}
    /\ "cache" \in mounted =>
         pc \in {"cache_note", "mask", "base", "release", "handler", "exit"}
                 \cup FinallyPcs
    /\ FstabClean

(* A verdict is reached once, on the way into the finally; the target is    *)
(* changed from the second phase on and whole after the last.               *)
VerdictFollowsDisk ==
    /\ pc \in FinallyPcs \cup {"exit"} <=> verdict # "none"
    /\ pc = "boost" => report = "none"
    /\ verdict = "none" /\ pc \notin {"timing", "handler"} =>
         disk \in {"before", "partial"}
    /\ disk = "before" => /\ ~protected
                          /\ \/ phase < 2
                             \/ pc \in {"cleanup", "handler", "exit"}
                             \/ verdict # "none"
    /\ pc = "timing" \/ verdict = "success" =>
         phase = Last /\ disk = "whole" /\ report = "complete"
    /\ verdict # "none" /\ code = 0 => verdict = "success"
    /\ verdict = "success" => code \in {0, 143}
    /\ pc = "exit" /\ verdict = "failure" /\ protected =>
         disk = "reverted" \/ "target" \in stuck \/ code = 143
         \/ report = "none"

(* A temporary mount the handlers below it do not know of yet: its own step    *)
(* or finally comes next.                                                      *)
InFlight ==
    CASE pc = "cache_note" -> {"cache"}
      [] pc = "mirror_note" -> {"mirror"}
      [] pc = "packages_note" -> {"packages"}
      [] pc \in {"log_env", "chroot", "unlog"} -> {"log"}
      [] pc \in {"snapshot", "untop"} -> {"top"}
      [] OTHER -> {}

(* A debug line that cannot be written leaves the log where LogEnv found it.   *)
Forgotten == IF Debug THEN {"log"} ELSE {}

(* Without a signal every other mount is known to a handler that is still to come,   *)
(* and the one that releases the noted mounts is only skipped before the       *)
(* medium is verified, when there are none.                                    *)
MountsAccounted ==
    /\ phase < 4 => mounted = {}
    /\ ~verified => \/ phase = 0 /\ pc \in {"boost", "next"}
                    \/ phase = 1 /\ pc = "verify"
                    \/ phase < 2 /\ pc \in {"handler", "exit"} \cup FinallyPcs
    /\ ~cut => /\ mounted \subseteq tracked \cup stuck \cup InFlight \cup Forgotten
               /\ pc \in {"rollback", "exit"} => mounted \subseteq stuck \cup Forgotten
               /\ pc \in {"boost", "binds", "rollback", "exit"} => ~boosted

(* What the transactions have installed is closed under dependencies and part  *)
(* of what was chosen; it holds the image, every list asked for so far and,    *)
(* when the phase has passed, all that was chosen.                             *)
PackagesInPlace ==
    LET chosen == Closure(Chosen(choice))
    IN /\ Closure(installed) \subseteq installed /\ installed \subseteq chosen
       /\ pc \in {"cache", "cache_note", "mask", "base"} =>
            /\ Image \subseteq installed
            /\ \A n \in 1..6 : n < txn => Requested(choice, Transactions[n]) \subseteq installed
       /\ (phase < 4 \/ pc \in {"partition", "layout"}) => txn = 1
       /\ exc # "none" => pc \in {"release", "unlog", "untop", "handler", "exit"}
                                 \cup FinallyPcs
       /\ (\/ pc = "release" /\ exc = "none"
           \/ pc = "fstab"
           \/ phase = 4 /\ pc = "next"
           \/ phase > 4)
          => chosen \subseteq installed

IInv == /\ TypeOK /\ BindsInPlace /\ VerdictFollowsDisk /\ PackagesInPlace
        /\ MountsAccounted
=============================================================================
