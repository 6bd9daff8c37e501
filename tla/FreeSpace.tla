------------------------------ MODULE FreeSpace ------------------------------
(***************************************************************************)
(* The free-space install: the configurator creates an EFI and a root       *)
(* partition beside whatever is on the disk, formats and mounts them, and   *)
(* hands their numbers to the orchestrator, which takes them away again if  *)
(* the install fails (disk-partitioning.sh, run_partition_execute in the    *)
(* configurator, cleanup_protected_state in phases_impl.py).                *)
(*                                                                         *)
(* Partition numbers are GPT slots and parted takes the lowest free one.    *)
(* The disk is shared: a shell on another console, or the partition tool,   *)
(* may change what is not this run's while it works.                        *)
(***************************************************************************)
EXTENDS Naturals

CONSTANTS
  MaxSlot,     \* GPT slots are 1..MaxSlot
  External,    \* kinds of company: sets of "add", "remove", "relabel"
  MaxExternal  \* bound on how often they do it

ASSUME FreeSpaceAssumption ==
  /\ MaxSlot \in Nat
  /\ External \subseteq SUBSET {"add", "remove", "relabel"}
  /\ MaxExternal \in Nat

Slots == 1..MaxSlot

VARIABLES
  others,     \* what everybody else may do to the disk, of External
  table,      \* "none": a blank disk; "gpt"; "exotic": seen by blkid only
  slot,       \* who owns each slot: "free", "theirs" or "ours" (this run's)
  pc,         \* where the configurator, then the orchestrator, is
  part,       \* the partition being created: "efi" or "root"
  needsLabel, \* needs_mklabel, the verdict of the decide half
  encrypted,  \* encrypt_installation
  before,     \* the slot numbers of the last read before mkpart
  num,        \* efi_part_num and root_part_num, 0 when not assigned
  created,    \* created_parts, what the rollback may remove
  handoff,    \* monarch_install.storage.created_partitions
  held,       \* what is mounted or mapped: of "luks", "tmp", "mnt", "esp"
  harm,       \* something that is not this run's was written to or removed
  excused,    \* a partition was left unclaimed, or a rollback command failed
  meddled     \* how often others have changed the disk

vars == <<others, table, slot, pc, part, needsLabel, encrypted, before, num,
          created, handoff, held, harm, excused, meddled>>

choices == <<others, needsLabel, encrypted>>
claims  == <<part, before, num, created, handoff>>

Used == {n \in Slots : slot[n] # "free"}
Ours == {n \in Slots : slot[n] = "ours"}

Planning  == {"mode", "decide", "verify"}
Failing   == {"recheck", "mklabel", "before", "mkpart", "size", "flag", "wait",
              "wipeEfi", "wipeRoot", "luksFormat", "luksOpen", "mkfs",
              "mountTmp", "mountTarget", "mkfat", "mountEsp", "check"}
Cleaning  == {"rbUmount", "rbTmp", "rbClose", "rbRemove",
              "clUmount", "clClose", "clRemove"}
Ended     == {"elsewhere", "aborted", "failed", "installed"}
Pcs       == Planning \cup Failing \cup Cleaning \cup Ended
               \cup {"after", "umountTmp", "install"}

-----------------------------------------------------------------------------
(* partition_table_type: parted reads the disk, blkid probes it, lsblk asks  *)
(* udev's cache.                                                            *)

\* What each probe can answer about a disk whose table is t: parted "unknown"
\* means its clean unlabeled-disk diagnostic, "error" any other failure; blkid
\* "none" is exit status 0 or 2 with no type; lsblk's cache may be out of date.
Parted(t) == {"error"} \cup IF t = "gpt" THEN {"type"} ELSE {"unknown"}
Blkid(t)  == {"error"} \cup IF t = "none" THEN {"none"} ELSE {"type"}
Lsblk     == {"error", "none", "type"}

Verdict(p, b, l) ==
  IF p = "type" \/ b = "type" \/ l = "type" THEN "labeled"
  ELSE IF p = "unknown" /\ b = "none" /\ l = "none" THEN "blank"
  ELSE "unreadable"

Verdicts == {Verdict(p, b, l) : p \in Parted(table), b \in Blkid(table), l \in Lsblk}

-----------------------------------------------------------------------------

Init ==
  /\ others \in External
  /\ table \in {"none", "gpt", "exotic"}
  /\ slot \in [Slots -> {"free", "theirs"}]
  /\ table # "gpt" => slot = [n \in Slots |-> "free"]
  /\ pc = "mode"
  /\ part = "efi"
  /\ needsLabel = FALSE
  /\ encrypted \in BOOLEAN
  /\ before = {}
  /\ num = [p \in {"efi", "root"} |-> 0]
  /\ created = {}
  /\ handoff = {}
  /\ held = {}
  /\ harm = FALSE
  /\ excused = FALSE
  /\ meddled = 0

Goto(p) == pc' = p

-----------------------------------------------------------------------------
(* The decide half, with nothing written yet.                                *)

\* requires_full_disk_install: a blank disk goes to the full-disk path, an
\* unreadable one aborts, and so does one whose table parted cannot list.
ChooseMode ==
  /\ pc = "mode"
  /\ \E v \in Verdicts :
       \/ v = "blank" /\ Goto("elsewhere")
       \/ v = "labeled" /\ table = "gpt" /\ Goto("decide")
       \/ v = "labeled" /\ table # "gpt" /\ Goto("aborted")
       \/ v = "unreadable" /\ Goto("aborted")
  /\ UNCHANGED <<table, slot, choices, claims, held, harm, excused, meddled>>

\* run_partition_decide: read again after the mode screen; back to the mode
\* screen when BitLocker-free space is short or the user declines.
Decide ==
  /\ pc = "decide"
  /\ \E v \in Verdicts :
       /\ needsLabel' = (v = "blank")
       /\ \/ v = "blank" /\ Goto("verify")
          \/ v = "labeled" /\ table = "gpt" /\ Goto("verify")
          \/ v = "labeled" /\ table # "gpt" /\ Goto("aborted")
          \/ v = "unreadable" /\ Goto("aborted")
          \/ v # "unreadable" /\ Goto("mode")
  /\ UNCHANGED <<table, slot, others, encrypted, claims, held, harm, excused, meddled>>

\* monarch-wait-mirror-verify, which may take minutes; then the first write.
Verify ==
  /\ pc = "verify"
  /\ \/ Goto(IF needsLabel THEN "recheck" ELSE "before")
     \/ Goto("aborted")
  /\ UNCHANGED <<table, slot, choices, claims, held, harm, excused, meddled>>

-----------------------------------------------------------------------------
(* The execute half: label, and two runs of create_partition.                *)

\* Faulty variant: the blank verdict of the decide half is good enough.
RecheckTrustsPlan ==
  /\ pc = "recheck"
  /\ Goto("mklabel")
  /\ UNCHANGED <<table, slot, choices, claims, held, harm, excused, meddled>>

Recheck ==
  /\ pc = "recheck"
  /\ \E v \in Verdicts : Goto(IF v = "blank" THEN "mklabel" ELSE "rbUmount")
  /\ UNCHANGED <<table, slot, choices, claims, held, harm, excused, meddled>>

MkLabel ==
  /\ pc = "mklabel"
  /\ harm' = (harm \/ table # "none")
  /\ table' = "gpt"
  /\ slot' = [n \in Slots |-> "free"]
  /\ Goto("before")
  /\ UNCHANGED <<choices, claims, held, excused, meddled>>

\* partition_numbers lists a table parted can read; anything else is StepFails.
ReadBefore ==
  /\ pc = "before"
  /\ table = "gpt"
  /\ before' = Used
  /\ Goto("mkpart")
  /\ UNCHANGED <<table, slot, choices, part, num, created, handoff, held, harm,
                 excused, meddled>>

\* parted fills the lowest free slot.
MkPart ==
  /\ pc = "mkpart"
  /\ table = "gpt"
  /\ \E n \in Slots \ Used :
       /\ \A m \in Slots \ Used : n <= m
       /\ slot' = [slot EXCEPT ![n] = "ours"]
  /\ Goto("after")
  /\ UNCHANGED <<table, choices, claims, held, harm, excused, meddled>>

\* parted exits non-zero after the table was written, as it does when it cannot
\* make the kernel read it again: the partition exists and nobody has its number.
MkPartUnacknowledged ==
  /\ pc = "mkpart"
  /\ table = "gpt"
  /\ \E n \in Slots \ Used :
       /\ \A m \in Slots \ Used : n <= m
       /\ slot' = [slot EXCEPT ![n] = "ours"]
  /\ excused' = TRUE
  /\ Goto("rbUmount")
  /\ UNCHANGED <<table, choices, claims, held, harm, meddled>>

\* Faulty variant: the highest new number is taken, whatever else has changed.
ClaimHighest ==
  /\ pc = "after"
  /\ \E n \in Used \ before :
       /\ \A m \in Used \ before : m <= n
       /\ created' = created \cup {n}
       /\ num' = [num EXCEPT ![part] = n]
       /\ Goto("size")
  /\ UNCHANGED <<table, slot, choices, part, before, handoff, held, harm,
                 excused, meddled>>

\* The number is ours when the second read shows exactly one new number and has
\* lost none.
Claim ==
  /\ pc = "after"
  /\ before \subseteq Used
  /\ \E n \in Slots :
       /\ Used \ before = {n}
       /\ created' = created \cup {n}
       /\ num' = [num EXCEPT ![part] = n]
  /\ Goto("size")
  /\ UNCHANGED <<table, slot, choices, part, before, handoff, held, harm,
                 excused, meddled>>

\* The second read fails, or leaves doubt: the partition stays, unclaimed.
LeaveUnclaimed ==
  /\ pc = "after"
  /\ Goto("rbUmount")
  /\ excused' = TRUE
  /\ UNCHANGED <<table, slot, choices, claims, held, harm, meddled>>

\* Faulty variant: the root partition is never created.
CheckSizeSkipsRoot ==
  /\ pc = "size"
  /\ part' = "root"
  /\ Goto("flag")
  /\ UNCHANGED <<table, slot, choices, before, num, created, handoff, held, harm,
                 excused, meddled>>

\* The size of a partition of ours is within the tolerance; that of another's
\* need not be.  After the EFI partition comes the root partition.
CheckSize ==
  /\ pc = "size"
  /\ part' = "root"
  /\ Goto(IF part = "efi" THEN "before" ELSE "flag")
  /\ UNCHANGED <<table, slot, choices, before, num, created, handoff, held, harm,
                 excused, meddled>>

-----------------------------------------------------------------------------
(* Formatting and mounting.                                                  *)

\* A command that writes to partition p of this run.
Writes(from, p, to) ==
  /\ pc = from
  /\ harm' = (harm \/ num[p] \notin Ours)
  /\ Goto(to)
  /\ UNCHANGED <<table, slot, choices, claims, held, excused, meddled>>

\* A command that mounts or maps r.
Acquires(from, r, to) ==
  /\ pc = from
  /\ held' = held \cup {r}
  /\ Goto(to)
  /\ UNCHANGED <<table, slot, choices, claims, harm, excused, meddled>>

FlagEsp     == Writes("flag", "efi", "wait")
WipeEfi     == Writes("wipeEfi", "efi", "wipeRoot")
WipeRoot    == Writes("wipeRoot", "root", IF encrypted THEN "luksFormat" ELSE "mkfs")
LuksFormat  == Writes("luksFormat", "root", "luksOpen")
LuksOpen    == Acquires("luksOpen", "luks", "mkfs")
MakeBtrfs   == Writes("mkfs", "root", "mountTmp")
MountTmp    == Acquires("mountTmp", "tmp", "umountTmp")
MountTarget == Acquires("mountTarget", "mnt", "mkfat")
MakeFat     == Writes("mkfat", "efi", "mountEsp")
MountEsp    == Acquires("mountEsp", "esp", "check")

WaitForDevices ==
  /\ pc = "wait"
  /\ Goto("wipeEfi")
  /\ UNCHANGED <<table, slot, choices, claims, held, harm, excused, meddled>>

\* The subvolumes are made, then /mnt/btrfs-root is unmounted, unchecked.
UmountTmp ==
  /\ pc = "umountTmp"
  /\ \/ held' = held \ {"tmp"} /\ UNCHANGED excused
     \/ excused' = TRUE /\ UNCHANGED held
  /\ Goto("mountTarget")
  /\ UNCHANGED <<table, slot, choices, claims, harm, meddled>>

\* Both mountpoints are there; the numbers go into the configuration, and the
\* configurator exits, created_parts with it.
HandOff ==
  /\ pc = "check"
  /\ {"mnt", "esp"} \subseteq held
  /\ handoff' = {num["efi"], num["root"]}
  /\ created' = {}
  /\ Goto("install")
  /\ UNCHANGED <<table, slot, choices, part, before, num, held, harm, excused,
                 meddled>>

\* disk_abort_hook: a step of the execute half fails.
StepFails ==
  /\ pc \in Failing
  /\ Goto("rbUmount")
  /\ UNCHANGED <<table, slot, choices, claims, held, harm, excused, meddled>>

-----------------------------------------------------------------------------
(* The two rollbacks.  Their commands are unchecked: each may fail.          *)

\* umount of a set of mounts.
Umounts(from, rs, to) ==
  /\ pc = from
  /\ \/ held' = held \ rs /\ UNCHANGED excused
     \/ held \cap rs # {} /\ excused' = TRUE /\ UNCHANGED held
  /\ Goto(to)
  /\ UNCHANGED <<table, slot, choices, claims, harm, meddled>>

\* cryptsetup close, which a mount of the mapping prevents.
Closes(from, to) ==
  /\ pc = from
  /\ \/ /\ held' = IF {"mnt", "tmp"} \cap held = {} THEN held \ {"luks"} ELSE held
        /\ UNCHANGED excused
     \/ "luks" \in held /\ excused' = TRUE /\ UNCHANGED held
  /\ Goto(to)
  /\ UNCHANGED <<table, slot, choices, claims, harm, meddled>>

\* What keeps parted from removing partition n.
Busy(n) ==
  \/ n = num["root"] /\ {"luks", "tmp", "mnt"} \cap held # {}
  \/ n = num["efi"] /\ "esp" \in held

\* parted rm of the highest number left in list.
RemovesHighest(list, n) ==
  /\ n \in list
  /\ \A m \in list : m <= n
  /\ \/ /\ ~Busy(n)
        /\ harm' = (harm \/ slot[n] = "theirs")
        /\ slot' = [slot EXCEPT ![n] = "free"]
        /\ UNCHANGED excused
     \/ Busy(n) /\ UNCHANGED <<slot, harm, excused>>
     \/ excused' = TRUE /\ UNCHANGED <<slot, harm>>

RbUmount == Umounts("rbUmount", {"mnt", "esp"}, "rbTmp")
RbTmp    == Umounts("rbTmp", {"tmp"}, "rbClose")

\* Faulty variant: the mapping stays open.
RbCloseSkipped ==
  /\ pc = "rbClose"
  /\ Goto("rbRemove")
  /\ UNCHANGED <<table, slot, choices, claims, held, harm, excused, meddled>>

RbClose  == Closes("rbClose", "rbRemove")

RbRemove ==
  /\ pc = "rbRemove"
  /\ \E n \in created :
       /\ RemovesHighest(created, n)
       /\ created' = created \ {n}
  /\ UNCHANGED <<table, pc, choices, part, before, num, handoff, held, meddled>>

RbEnd ==
  /\ pc = "rbRemove" /\ created = {}
  /\ Goto("aborted")
  /\ UNCHANGED <<table, slot, choices, claims, held, harm, excused, meddled>>

\* The orchestrator succeeds and keeps the target mounted, or fails and runs
\* cleanup_protected_state.
InstallSucceeds ==
  /\ pc = "install"
  /\ Goto("installed")
  /\ UNCHANGED <<table, slot, choices, claims, held, harm, excused, meddled>>

InstallFails ==
  /\ pc = "install"
  /\ Goto("clUmount")
  /\ UNCHANGED <<table, slot, choices, claims, held, harm, excused, meddled>>

ClUmount == Umounts("clUmount", {"mnt", "esp"}, "clClose")
ClClose  == Closes("clClose", "clRemove")

ClRemove ==
  /\ pc = "clRemove"
  /\ \E n \in handoff :
       /\ RemovesHighest(handoff, n)
       /\ handoff' = handoff \ {n}
  /\ UNCHANGED <<table, pc, choices, part, before, num, created, held, meddled>>

ClEnd ==
  /\ pc = "clRemove" /\ handoff = {}
  /\ Goto("failed")
  /\ UNCHANGED <<table, slot, choices, claims, held, harm, excused, meddled>>

-----------------------------------------------------------------------------
(* Everybody else.                                                           *)

Meddle ==
  /\ meddled < MaxExternal
  /\ meddled' = meddled + 1
  /\ UNCHANGED <<pc, choices, claims, held, harm, excused>>

ExternalAdd ==
  /\ "add" \in others /\ table = "gpt"
  /\ \E n \in Slots \ Used : slot' = [slot EXCEPT ![n] = "theirs"]
  /\ UNCHANGED table
  /\ Meddle

ExternalRemove ==
  /\ "remove" \in others /\ table = "gpt"
  /\ \E n \in Used \ Ours : slot' = [slot EXCEPT ![n] = "free"]
  /\ UNCHANGED table
  /\ Meddle

\* The disk is wiped, or gets a table, while the wizard asks its questions and
\* the medium is verified; not between the recheck and the command after it.
ExternalRelabel ==
  /\ "relabel" \in others /\ pc \in Planning \cup {"recheck"}
  /\ \E t \in {"none", "gpt", "exotic"} \ {table} : table' = t
  /\ slot' = [n \in Slots |-> "free"]
  /\ Meddle

Next ==
  \/ ChooseMode \/ Decide \/ Verify
  \/ Recheck \/ MkLabel \/ ReadBefore \/ MkPart \/ MkPartUnacknowledged
  \/ Claim \/ LeaveUnclaimed \/ CheckSize
  \/ FlagEsp \/ WaitForDevices \/ WipeEfi \/ WipeRoot \/ LuksFormat \/ LuksOpen
  \/ MakeBtrfs \/ MountTmp \/ UmountTmp \/ MountTarget \/ MakeFat \/ MountEsp
  \/ HandOff \/ StepFails
  \/ RbUmount \/ RbTmp \/ RbClose \/ RbRemove \/ RbEnd
  \/ InstallSucceeds \/ InstallFails \/ ClUmount \/ ClClose \/ ClRemove \/ ClEnd
  \/ ExternalAdd \/ ExternalRemove \/ ExternalRelabel

Spec == Init /\ [][Next]_vars

-----------------------------------------------------------------------------
(* Properties.                                                               *)

TypeOK ==
  /\ others \in External
  /\ table \in {"none", "gpt", "exotic"}
  /\ slot \in [Slots -> {"free", "theirs", "ours"}]
  /\ pc \in Pcs
  /\ part \in {"efi", "root"}
  /\ needsLabel \in BOOLEAN
  /\ encrypted \in BOOLEAN
  /\ before \subseteq Slots
  /\ num \in [{"efi", "root"} -> Slots \cup {0}]
  /\ created \subseteq Slots
  /\ handoff \subseteq Slots
  /\ held \subseteq {"luks", "tmp", "mnt", "esp"}
  /\ harm \in BOOLEAN
  /\ excused \in BOOLEAN
  /\ meddled \in 0..MaxExternal

\* "Existing partitions are preserved" (README.md:56): no partition of anybody
\* else is flagged, formatted or removed, and no table is replaced, whatever
\* fails and whatever others do to the disk meanwhile.
TheirsUntouched == ~harm

\* "two additions and a deletion are not ours to claim" (create_partition): the
\* list the rollback works from never holds a partition this run did not create.
ClaimsOnlyOurs == created \subseteq Ours

\* "A failed free-space install removes only the partitions [...] created by
\* that run" (README.md:61), and removes them all: none is left once the failure
\* is over, unless one could not be identified or a rollback command failed.
NoOrphans ==
  (pc \in {"aborted", "failed"} /\ ~excused) => Ours = {}

\* What the orchestrator is given is what the configurator made: two different
\* partitions of this run, all it has, mounted, and named for the rollback.
HandOffComplete ==
  pc \in {"install", "installed"} =>
    /\ num["efi"] # num["root"]
    /\ handoff = {num["efi"], num["root"]}
    /\ handoff = Ours
    /\ {"mnt", "esp"} \subseteq held

=============================================================================
