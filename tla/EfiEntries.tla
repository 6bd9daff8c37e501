----------------------------- MODULE EfiEntries ------------------------------
(***************************************************************************)
(* The UEFI boot entries across one install: Limine's registration         *)
(* (phases_impl.py, _install_limine_efi, _register_limine_efi_entry), the  *)
(* checks after it, the validation before success, and the rollback a      *)
(* failed free-space install runs.  The firmware may refuse a call, refuse *)
(* to keep an entry it accepted, or lose someone else's entry. And the     *)
(* setting by which later Limine updates know whose the fallback loader is.*)
(***************************************************************************)
EXTENDS Naturals, Sequences, FiniteSets

CONSTANTS
    Slots,      \* the Boot#### numbers the firmware has room for
    Protected,  \* a free-space install; otherwise a full-disk one
    MaxFaults   \* bound: calls that fail and entries the firmware loses

ASSUME EfiAssumption ==
    Slots \subseteq Nat /\ IsFiniteSet(Slots) /\ Protected \in BOOLEAN
    /\ MaxFaults \in Nat

VARIABLES
    entry,     \* what each slot holds: "free", "windows", "limine" (that of
               \* another ESP) or "ours" (this ESP's GUID and this loader)
    order,     \* BootOrder, which may name slots that hold nothing
    loader,    \* the file at esp_path: "none", "foreign" or "limine"
    fallback,  \* EFI/BOOT/BOOTX64.EFI, likewise
    wanted,    \* enable_fallback in the boot intent
    setting,   \* ENABLE_LIMINE_FALLBACK in /etc/default/limine, or "unset"
    found,     \* ghost: the four of them before the install
    lost,      \* ghost: the slots the firmware emptied by itself
    pre,       \* pre_state: its entries and its order
    rollback,  \* ctx.state["efi_boot_rollback"]; the empty set when there is none
    unrecorded,  \* ghost: the registration was left without a look at what it
                 \* made: that read failed, or an interrupt came before the record
    kept,      \* ghost: a call of the rollback failed or was cut off
    pc, status, faults

firmware == <<entry, order>>
config == <<wanted, setting>>
files == <<loader, fallback, config>>
ghosts == <<found, lost, unrecorded, kept>>
vars == <<firmware, files, ghosts, pre, rollback, pc, status, faults>>

Kinds == {"free", "windows", "limine", "ours"}
FileKinds == {"none", "foreign", "limine"}
Entries == {s \in Slots : entry[s] # "free"}

(* The members of S that q names, in their order there: a filter written as *)
(* a recursive function, which the proofs can reason about.                 *)
Kept(q, S) ==
    LET upto[n \in 0..Len(q)] ==
          IF n = 0 THEN <<>>
          ELSE IF q[n] \in S THEN Append(upto[n - 1], q[n]) ELSE upto[n - 1]
    IN upto[Len(q)]

(* Sequences of distinct slots. *)
Orders ==
    {q \in UNION {[1..n -> Slots] : n \in 0..Cardinality(Slots)} :
        \A i, j \in DOMAIN q : q[i] = q[j] => i = j}

Init ==
    /\ entry \in [Slots -> Kinds \ {"ours"}] /\ order \in Orders
    /\ loader \in FileKinds /\ fallback \in FileKinds
    /\ wanted \in BOOLEAN /\ setting = "unset"
    /\ found = [entry |-> entry, order |-> order,
                loader |-> loader, fallback |-> fallback]
    /\ lost = {} /\ unrecorded = FALSE /\ kept = FALSE
    /\ pre = [entries |-> {}, order |-> <<>>] /\ rollback = {}
    /\ pc = "read_before" /\ status = "running" /\ faults = 0

-----------------------------------------------------------------------------
Fault == faults < MaxFaults /\ faults' = faults + 1

(* A phase raises: main's finally rolls back a protected install only. *)
Halt ==
    /\ status' = "failed"
    /\ pc' = IF Protected THEN "delete" ELSE "done"

(* The full-disk install reads in _register_limine_efi_entry itself, after  *)
(* the files; no firmware call comes between.                               *)
ReadBefore ==
    /\ pc = "read_before"
    /\ pre' = [entries |-> Entries, order |-> order]
    /\ pc' = "copy"
    /\ UNCHANGED <<firmware, files, ghosts, rollback, status, faults>>

ReadBeforeFails ==
    /\ pc = "read_before" /\ Fault /\ Halt
    /\ UNCHANGED <<firmware, files, ghosts, pre, rollback>>

(* An equal loader is copied over, a fallback only where there is none and  *)
(* one is wanted.                                                           *)
CopyLoader ==
    /\ pc = "copy" /\ loader # "foreign"
    /\ loader' = "limine"
    /\ fallback' = IF wanted /\ fallback = "none" THEN "limine" ELSE fallback
    /\ pc' = "create"
    /\ UNCHANGED <<config, firmware, ghosts, pre, rollback, status, faults>>

RefuseForeignLoader ==
    /\ pc = "copy" /\ loader = "foreign" /\ Halt
    /\ UNCHANGED <<firmware, files, ghosts, pre, rollback, faults>>

CopyFails ==
    /\ pc = "copy" /\ loader # "foreign" /\ Fault /\ Halt
    /\ loader' \in {loader, "limine"}
    /\ UNCHANGED <<fallback, config, firmware, ghosts, pre, rollback>>

Lowest(s, S) == s \in S /\ \A t \in S : s <= t

(* efibootmgr --create: the lowest free slot, first in BootOrder. Its exit  *)
(* status is only reported.                                                 *)
Create ==
    /\ pc = "create"
    /\ \E s \in Slots :
         /\ Lowest(s, Slots \ Entries)
         /\ entry' = [entry EXCEPT ![s] = "ours"]
         /\ order' = <<s>> \o order
    /\ pc' = "read_after"
    /\ UNCHANGED <<files, ghosts, pre, rollback, status, faults>>

(* The firmware is full, refuses the entry or does not keep it. *)
CreateInVain ==
    /\ pc = "create"
    /\ pc' = "read_after"
    /\ UNCHANGED <<firmware, files, ghosts, pre, rollback, status, faults>>

(* The firmware loses an entry of someone else while it stores ours. *)
FirmwareLoses ==
    /\ pc = "read_after" /\ Fault
    /\ \E s \in Entries :
         /\ entry[s] # "ours"
         /\ entry' = [entry EXCEPT ![s] = "free"]
         /\ lost' = lost \cup {s}
    /\ UNCHANGED <<order, files, found, unrecorded, kept, pre, rollback, pc,
                   status>>

(* Variant: the entry is recognised by its label alone. *)
NewLimineByLabel == {s \in Slots : entry[s] \in {"ours", "limine"}}

(* new_limine: entries that were not there before, with this ESP's GUID. *)
NewLimine == {s \in Entries \ pre.entries : entry[s] = "ours"}

(* With an entry of our own the rollback is recorded before the order is    *)
(* touched; without one the install goes on and leaves it to validate_boot. *)
ReadAfter ==
    /\ pc = "read_after"
    /\ IF NewLimine = {}
       THEN pc' = "check" /\ UNCHANGED rollback
       ELSE \E s \in Slots :
              /\ Lowest(s, NewLimine)
              /\ rollback' = {[created |-> s, previous |-> pre.order]}
              /\ pc' = "order"
    /\ UNCHANGED <<firmware, files, ghosts, pre, status, faults>>

(* "Rollback ownership is unknown": the install goes on. *)
ReadAfterFails ==
    /\ pc = "read_after" /\ Fault
    /\ unrecorded' = TRUE /\ pc' = "check"
    /\ UNCHANGED <<firmware, files, found, lost, kept, pre, rollback, status>>

(* efibootmgr --bootorder refuses an order that names an empty slot. *)
Names(q) == {q[i] : i \in DOMAIN q}
Acceptable(q) == q # <<>> /\ Names(q) \subseteq Entries

(* Variant: nothing of the previous order is kept. *)
OurOrderAlone(s) == <<s>>

OurOrder(s) == <<s>> \o Kept(pre.order, pre.entries \ {s})

SetOrder ==
    /\ pc = "order"
    /\ \E r \in rollback : Acceptable(OurOrder(r.created))
                           /\ order' = OurOrder(r.created)
    /\ pc' = "check"
    /\ UNCHANGED <<entry, files, ghosts, pre, rollback, status, faults>>

(* Variant: the record is kept only when the order was accepted. *)
SetOrderRefusedForgets ==
    /\ pc = "order" /\ Fault
    /\ rollback' = {} /\ pc' = "check"
    /\ UNCHANGED <<firmware, files, ghosts, pre, status>>

(* A refused order is a warning. *)
SetOrderRefused ==
    /\ pc = "order"
    /\ \/ Fault
       \/ /\ \E r \in rollback : ~Acceptable(OurOrder(r.created))
          /\ UNCHANGED faults
    /\ pc' = "check"
    /\ UNCHANGED <<firmware, files, ghosts, pre, rollback, status>>

Windows(S) == {s \in S : entry[s] = "windows"}
HadWindows == \E s \in pre.entries : found.entry[s] = "windows"

(* The protected install looks once more for the Windows entry. *)
CheckWindows ==
    /\ pc = "check"
    /\ Protected /\ HadWindows => Windows(Slots) # {}
    /\ pc' = "defaults"
    /\ UNCHANGED <<firmware, files, ghosts, pre, rollback, status, faults>>

WindowsGone ==
    /\ pc = "check" /\ Protected /\ HadWindows /\ Windows(Slots) = {}
    /\ Halt
    /\ UNCHANGED <<firmware, files, ghosts, pre, rollback, faults>>

CheckFails ==
    /\ pc = "check" /\ Protected /\ Fault /\ Halt
    /\ UNCHANGED <<firmware, files, ghosts, pre, rollback>>

(* _write_limine_defaults: a foreign fallback is never to be updated; a     *)
(* full-disk install leaves the rest to the template.                       *)
WriteDefaults ==
    /\ pc = "defaults" /\ pc' = "setup"
    /\ setting' = IF fallback = "foreign" THEN "no"
                  ELSE IF ~Protected THEN "unset" ELSE IF wanted THEN "yes" ELSE "no"
    /\ UNCHANGED <<loader, fallback, wanted, firmware, ghosts, pre, rollback, status, faults>>

(* The runtime's own setup of the target may write the setting too. *)
TargetSetup ==
    /\ pc = "setup" /\ pc' = "finalize"
    /\ setting' \in {setting, "yes"}
    /\ UNCHANGED <<loader, fallback, wanted, firmware, ghosts, pre, rollback, status, faults>>

(* What limine-install and limine-update make of the fallback loader. *)
Deployed(file, enabled) ==
    IF enabled = "no" THEN {file}
    ELSE IF enabled = "yes" THEN {"limine"} ELSE {file, "limine"}

(* finalize_limine_boot looks at the fallback once more, then runs them. *)
FinalizeBoot ==
    /\ pc = "finalize" /\ pc' = "validate"
    /\ setting' = IF fallback = "foreign" THEN "no" ELSE setting
    /\ fallback' \in Deployed(fallback, setting')
    /\ UNCHANGED <<loader, wanted, firmware, ghosts, pre, rollback, status, faults>>

Later == {"defaults", "setup", "finalize", "validate", "snapshot"}

(* Any phase from here to the last may fail on its own account. *)
LaterPhaseFails ==
    /\ pc \in Later /\ Fault /\ Halt
    /\ UNCHANGED <<firmware, files, ghosts, pre, rollback>>

HasEntry == \E s \in Slots : entry[s] = "ours"
HasFallback == fallback = "limine"

(* Variant: any loader at the fallback path is a route. *)
ValidateAnyFallback ==
    /\ pc = "validate"
    /\ HasEntry \/ fallback # "none"
    /\ pc' = "snapshot"
    /\ UNCHANGED <<firmware, files, ghosts, pre, rollback, status, faults>>

(* _validate_uefi_boot_routes, with the entries read or with none. *)
Validate ==
    /\ pc = "validate"
    /\ HasEntry \/ HasFallback
    /\ pc' = "snapshot"
    /\ UNCHANGED <<firmware, files, ghosts, pre, rollback, status, faults>>

NoRoute ==
    /\ pc = "validate" /\ ~HasFallback
    /\ \/ ~HasEntry /\ UNCHANGED faults
       \/ Fault
    /\ Halt
    /\ UNCHANGED <<firmware, files, ghosts, pre, rollback>>

(* The factory snapshot is the last phase: main has a success, and with it  *)
(* no rollback.                                                             *)
Succeed ==
    /\ pc = "snapshot"
    /\ status' = "ok" /\ pc' = "done"
    /\ UNCHANGED <<firmware, files, ghosts, pre, rollback, faults>>

(* KeyboardInterrupt at any step ends the install as a failure does.  After *)
(* efibootmgr --create it leaves what that made for no one to take back:    *)
(* the record comes only with the read.                                     *)
Interrupt ==
    /\ status = "running" /\ Halt
    /\ unrecorded' = (unrecorded \/ pc = "read_after")
    /\ UNCHANGED <<firmware, files, found, lost, kept, pre, rollback, faults>>

(* The installed system upgrades Limine: 99-monarch-limine.hook copies the  *)
(* loader, and the tools run under the setting the install left.            *)
Upgrade ==
    /\ pc = "done" /\ status = "ok"
    /\ loader' = "limine"
    /\ fallback' \in Deployed(fallback, setting)
    /\ UNCHANGED <<config, firmware, ghosts, pre, rollback, pc, status, faults>>

-----------------------------------------------------------------------------
(* _rollback_protected_efi_entry: the record is popped, the entry deleted,  *)
(* which also takes it out of BootOrder, and the previous order restored.   *)
Delete ==
    /\ pc = "delete"
    /\ IF rollback = {}
       THEN pc' = "done" /\ UNCHANGED firmware
       ELSE \E r \in rollback :
              /\ entry' = [entry EXCEPT ![r.created] = "free"]
              /\ order' = Kept(order, Slots \ {r.created})
              /\ pc' = "restore"
    /\ UNCHANGED <<files, ghosts, pre, rollback, status, faults>>

DeleteFails ==
    /\ pc = "delete" /\ rollback # {} /\ Fault
    /\ kept' = TRUE /\ pc' = "restore"
    /\ UNCHANGED <<firmware, files, found, lost, unrecorded, pre, rollback,
                   status>>

Restore ==
    /\ pc = "restore"
    /\ \E r \in rollback :
         order' = IF Acceptable(r.previous) THEN r.previous ELSE order
    /\ rollback' = {} /\ pc' = "done"
    /\ UNCHANGED <<entry, files, ghosts, pre, status, faults>>

RestoreFails ==
    /\ pc = "restore" /\ Fault
    /\ kept' = TRUE /\ rollback' = {} /\ pc' = "done"
    /\ UNCHANGED <<firmware, files, found, lost, unrecorded, pre, status>>

(* An interrupt in the rollback, whose record is popped before its calls.   *)
InterruptRollback ==
    /\ pc \in {"delete", "restore"} /\ rollback # {}
    /\ kept' = TRUE /\ rollback' = {} /\ pc' = "done"
    /\ UNCHANGED <<firmware, files, found, lost, unrecorded, pre, status, faults>>

Next ==
    \/ ReadBefore \/ ReadBeforeFails \/ CopyLoader \/ RefuseForeignLoader
    \/ CopyFails \/ Create \/ CreateInVain \/ FirmwareLoses \/ ReadAfter
    \/ ReadAfterFails \/ SetOrder \/ SetOrderRefused \/ CheckWindows
    \/ WindowsGone \/ CheckFails \/ WriteDefaults \/ TargetSetup \/ FinalizeBoot
    \/ LaterPhaseFails \/ Validate \/ NoRoute \/ Succeed \/ Interrupt
    \/ Upgrade \/ Delete \/ DeleteFails \/ Restore \/ RestoreFails
    \/ InterruptRollback

Spec == Init /\ [][Next]_vars

-----------------------------------------------------------------------------
TypeOK ==
    /\ entry \in [Slots -> Kinds] /\ order \in Seq(Slots)
    /\ loader \in FileKinds /\ fallback \in FileKinds
    /\ wanted \in BOOLEAN /\ setting \in {"unset", "yes", "no"}
    /\ found \in [entry : [Slots -> Kinds], order : Orders,
                  loader : FileKinds, fallback : FileKinds]
    /\ lost \subseteq Slots /\ unrecorded \in BOOLEAN /\ kept \in BOOLEAN
    /\ pre \in [entries : SUBSET Slots, order : Orders]
    /\ rollback \in SUBSET [created : Slots, previous : Orders]
    /\ Cardinality(rollback) <= 1
    /\ pc \in {"read_before", "copy", "create", "read_after", "order",
               "check", "delete", "restore", "done"} \cup Later
    /\ status \in {"running", "ok", "failed"} /\ faults \in 0..MaxFaults

(* The install never removes or replaces a boot entry or a loader that it   *)
(* did not make itself, whatever the firmware answers and wherever it fails,*)
(* and neither does an upgrade of Limine on the system it handed over; only *)
(* what the firmware lost by itself is gone (_install_limine_efi,           *)
(* _write_limine_defaults, finalize_limine_boot).                           *)
ForeignUntouched ==
    /\ \A s \in Slots \ lost :
         found.entry[s] # "free" => entry[s] = found.entry[s]
    /\ found.loader = "foreign" => loader = "foreign"
    /\ found.fallback # "none" => fallback = found.fallback

Theirs == {s \in Slots : found.entry[s] # "free"}
Others(q) == Kept(q, Theirs \ lost)

(* However the install ends, the entries of others follow each other in     *)
(* BootOrder as they did before: setting Limine first, deleting it and      *)
(* restoring an order the firmware may refuse neither drops nor moves one.  *)
OthersKeepTheirOrder == pc = "done" => Others(order) = Others(found.order)

(* A failed or interrupted free-space install whose rollback ran to its end *)
(* leaves no entry of its own, unless the run left the registration without *)
(* having seen what it made, by a read that failed or an interrupt between  *)
(* efibootmgr --create and the record: then nobody knows which entry is     *)
(* ours (_register_limine_efi_entry, _rollback_protected_efi_entry).        *)
FailureRemovesEntry ==
    pc = "done" /\ status = "failed" /\ Protected /\ ~kept /\ ~unrecorded
      => ~HasEntry

(* An install is handed over only with a route that boots this system, and  *)
(* a free-space one only if a machine that had Windows can still boot one.  *)
HandedOverBootable ==
    status = "ok" =>
      /\ HasEntry \/ HasFallback
      /\ Protected /\ (\E s \in Slots : found.entry[s] = "windows")
           => Windows(Slots) # {}

-----------------------------------------------------------------------------
(* The strengthening the proofs use. *)
Ours == {s \in Slots : entry[s] = "ours"}
Claimed == {r.created : r \in rollback}

(* An entry of ours stands where there was none, and there is at most one;  *)
(* what is claimed was made by this install.                                *)
Ownership ==
    /\ entry \in [Slots -> Kinds] /\ found.entry \in [Slots -> Kinds]
    /\ found.fallback \in FileKinds
    /\ pc \in {"read_before", "copy"} => loader = found.loader
    /\ pc \notin {"read_before", "copy"} /\ status # "failed" => found.loader # "foreign"
    /\ Claimed \subseteq Slots /\ status \in {"running", "ok", "failed"}
    /\ \A s \in Slots : found.entry[s] # "ours"
    /\ \A s \in Ours \cup Claimed : found.entry[s] = "free"
    /\ \A s, t \in Ours : s = t
    /\ \A r, q \in rollback : r = q
    /\ pc \in {"read_before", "copy", "create"} =>
         entry = found.entry /\ rollback = {}
    /\ pc = "read_after" => rollback = {}
    /\ pc # "read_before" /\ status = "running" =>
         pre.entries = {s \in Slots : found.entry[s] # "free"}
    /\ pc \in {"delete", "restore"} => status = "failed"
    /\ status = "failed" => pc \in {"delete", "restore", "done"}
    /\ status = "ok" => pc = "done"
    /\ status = "running" =>
         pc \in {"read_before", "copy", "create", "read_after", "order", "check"} \cup Later

(* From the read after the registration on, our entry is claimed until it   *)
(* is deleted.                                                              *)
Accounted ==
    /\ pc \in {"order", "check", "delete"} \cup Later /\ ~unrecorded =>
         Ours \subseteq Claimed
    /\ pc = "restore" /\ ~kept => Ours = {} \/ unrecorded
    /\ pc = "read_before" => ~unrecorded /\ ~kept

(* What the checks before success have established, and that nothing that   *)
(* comes later may replace a foreign fallback.                              *)
Checked ==
    /\ pc \in {"validate", "snapshot"} \/ status = "ok" =>
         (fallback = "foreign" => setting = "no")
    /\ pc \in Later \/ status = "ok" =>
         (Protected /\ (\E s \in Slots : found.entry[s] = "windows")
            => Windows(Slots) # {})
    /\ pc = "snapshot" \/ status = "ok" => HasEntry \/ HasFallback

(* Every order the install has set or may set again, and BootOrder at each  *)
(* moment, has the entries of others as the machine had them.               *)
Ordered ==
    /\ order \in Seq(Slots) /\ found.order \in Seq(Slots)
    /\ Kept(order, Theirs) = Kept(found.order, Theirs)
    /\ pc = "read_before" => order = found.order
    /\ pc # "read_before" /\ status = "running" => pre.order = found.order
    /\ \A r \in rollback : r.previous = found.order

IInv ==
    /\ Ownership /\ ForeignUntouched /\ Accounted /\ Checked
    /\ FailureRemovesEntry /\ Ordered
=============================================================================
