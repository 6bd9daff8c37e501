------------------------------- MODULE HookMask -------------------------------
(***************************************************************************)
(* The pacman hook mask the orchestrator puts up around a package install   *)
(* and takes down again (phases_impl.py, _mask_/_unmask_mkinitcpio_pacman_  *)
(* hooks and their callers), one file-system call per step.                *)
(*                                                                         *)
(* A hook NAME lives at etc/pacman.d/hooks/NAME.  Masking moves what is     *)
(* there to NAME.monarch-backup and links NAME to /dev/null; unmasking      *)
(* removes the link and moves the backup home.  Any call may fail, any      *)
(* moment may bring a signal, and the install may be started again over     *)
(* what a killed one left.                                                  *)
(***************************************************************************)
EXTENDS Naturals

CONSTANTS
  Hooks,     \* the hook names masked together
  Roots,     \* whose hooks are masked: a subset of {"live", "target"}
  Signals,   \* the signals that can arrive: of "INT", "TERM", "KILL"
  MaxFaults, \* bound on the file-system calls that fail
  MaxRuns    \* bound on the installs started in one live session

ASSUME HookMaskAssumption ==
  /\ Roots \subseteq {"live", "target"}
  /\ Signals \subseteq {"INT", "TERM", "KILL"}
  /\ MaxFaults \in Nat
  /\ MaxRuns \in Nat \ {0}

VARIABLES
  root,    \* "live": the ISO's own hook directory, which outlives an install
           \* "target": the installed system's, rebuilt by every install
  orig,    \* what stood at each path before the first install of the session
  path,    \* what stands there now: "absent", "file" or "null" (-> /dev/null)
  backup,  \* what stands at the backup name: "absent" or "file"
  pc,      \* where the orchestrator is
  todo,    \* the hooks the running mask or unmask loop has still to visit
  caller,  \* who called unmask: the phase, validate_boot or main's finally
  status,  \* of the install: "running", "ok" or "failed"
  skipped, \* the last unmask of the install left a hook unvisited or unrestored
  faults,  \* file-system calls that have failed so far
  runs     \* installs started so far

found == <<root, orig>>   \* what a session never changes
disk == <<found, path, backup>>
vars == <<disk, pc, todo, caller, status, skipped, faults, runs>>

Pcs == {"mask", "command", "unmask", "later", "assert", "exit", "dead"}

-----------------------------------------------------------------------------

\* The target's hook is the one limine-mkinitcpio-hook ships, if the package
\* put it where the assertion expects it; the live directory may hold none.
Init ==
  /\ root \in Roots
  /\ orig \in [Hooks -> {"absent", "file"}]
  /\ path = orig
  /\ backup = [h \in Hooks |-> "absent"]
  /\ pc = "mask"
  /\ todo = Hooks
  /\ caller = "phase"
  /\ status = "running"
  /\ skipped = FALSE
  /\ faults = 0
  /\ runs = 1

\* Entering _unmask_mkinitcpio_pacman_hooks on behalf of c.
CallUnmask(c) ==
  /\ pc' = "unmask"
  /\ todo' = Hooks
  /\ caller' = c
  /\ skipped' = FALSE

\* An exception leaves the phase.  Only the target's masks are named in main's
\* finally; the live ones have had their unmask, or never get it.
Raise ==
  /\ status' = "failed"
  /\ IF root = "target"
       THEN CallUnmask("main")
       ELSE pc' = "exit" /\ skipped' = TRUE /\ UNCHANGED <<todo, caller>>

-----------------------------------------------------------------------------
(* _mask_mkinitcpio_pacman_hooks: for each name, skip a mask that is up,     *)
(* else move what is there aside and link.                                   *)

MaskSkip(h) ==
  /\ pc = "mask" /\ h \in todo /\ path[h] = "null"
  /\ todo' = todo \ {h}
  /\ UNCHANGED <<disk, pc, caller, status, skipped, faults, runs>>

\* Faulty variant: the hook is removed instead of moved aside.
MaskRenameUnlinks(h) ==
  /\ pc = "mask" /\ h \in todo /\ path[h] = "file"
  /\ path' = [path EXCEPT ![h] = "absent"]
  /\ UNCHANGED <<found, backup, pc, todo, caller, status, skipped, faults, runs>>

\* Dropping an older backup and renaming are one step: HookNeverLost shows that
\* no older backup can be there.
MaskRename(h) ==
  /\ pc = "mask" /\ h \in todo /\ path[h] = "file"
  /\ backup' = [backup EXCEPT ![h] = "file"]
  /\ path' = [path EXCEPT ![h] = "absent"]
  /\ UNCHANGED <<found, pc, todo, caller, status, skipped, faults, runs>>

\* Faulty variant: only a hook that was moved aside gets a mask.
MaskLinkOnlyMoved(h) ==
  /\ pc = "mask" /\ h \in todo /\ path[h] = "absent"
  /\ path' = IF backup[h] = "file" THEN [path EXCEPT ![h] = "null"] ELSE path
  /\ todo' = todo \ {h}
  /\ UNCHANGED <<found, backup, pc, caller, status, skipped, faults, runs>>

MaskLink(h) ==
  /\ pc = "mask" /\ h \in todo /\ path[h] = "absent"
  /\ path' = [path EXCEPT ![h] = "null"]
  /\ todo' = todo \ {h}
  /\ UNCHANGED <<found, backup, pc, caller, status, skipped, faults, runs>>

MaskDone ==
  /\ pc = "mask" /\ todo = {}
  /\ pc' = "command"
  /\ UNCHANGED <<disk, todo, caller, status, skipped, faults, runs>>

\* unlink, rename or symlink raises OSError.  The call stands before the
\* caller's try, so the caller's own finally does not run.
MaskFails ==
  /\ pc = "mask" /\ todo # {} /\ faults < MaxFaults
  /\ faults' = faults + 1
  /\ Raise
  /\ UNCHANGED <<disk, runs>>

-----------------------------------------------------------------------------
(* The masked install command, inside try ... finally.                       *)

CommandSucceeds ==
  /\ pc = "command"
  /\ CallUnmask("phase")
  /\ UNCHANGED <<disk, status, faults, runs>>

CommandFails ==
  /\ pc = "command"
  /\ CallUnmask("phase")
  /\ status' = "failed"
  /\ UNCHANGED <<disk, faults, runs>>

-----------------------------------------------------------------------------
(* _unmask_mkinitcpio_pacman_hooks: for each name, remove the mask, then     *)
(* move a backup home; an OSError is logged and the loop goes on.            *)

UnmaskUnlink(h) ==
  /\ pc = "unmask" /\ h \in todo /\ path[h] = "null"
  /\ path' = [path EXCEPT ![h] = "absent"]
  /\ UNCHANGED <<found, backup, pc, todo, caller, status, skipped, faults, runs>>

UnmaskRename(h) ==
  /\ pc = "unmask" /\ h \in todo /\ path[h] # "null" /\ backup[h] = "file"
  /\ path' = [path EXCEPT ![h] = "file"]
  /\ backup' = [backup EXCEPT ![h] = "absent"]
  /\ todo' = todo \ {h}
  /\ UNCHANGED <<found, pc, caller, status, skipped, faults, runs>>

\* Faulty variant: a hook whose mask is already gone is left alone, backup or not.
UnmaskNothingLeavesBackup(h) ==
  /\ pc = "unmask" /\ h \in todo /\ path[h] # "null"
  /\ todo' = todo \ {h}
  /\ UNCHANGED <<disk, pc, caller, status, skipped, faults, runs>>

UnmaskNothing(h) ==
  /\ pc = "unmask" /\ h \in todo /\ path[h] # "null" /\ backup[h] = "absent"
  /\ todo' = todo \ {h}
  /\ UNCHANGED <<disk, pc, caller, status, skipped, faults, runs>>

UnmaskFails(h) ==
  /\ pc = "unmask" /\ h \in todo /\ faults < MaxFaults
  /\ path[h] = "null" \/ backup[h] = "file"
  /\ todo' = todo \ {h}
  /\ faults' = faults + 1
  /\ skipped' = TRUE
  /\ UNCHANGED <<disk, pc, caller, status, runs>>

\* The loop returns: to the phase (and, with the command's error pending, on
\* into main's finally), to the assertion, or out of the program.
UnmaskReturns ==
  /\ pc = "unmask" /\ todo = {}
  /\ CASE caller = "main" \/ root = "live" ->
            /\ pc' = "exit"
            /\ status' = IF status = "failed" THEN "failed" ELSE "ok"
            /\ UNCHANGED <<todo, caller, skipped>>
       [] caller = "phase" /\ root = "target" ->
            IF status = "failed"
              THEN CallUnmask("main") /\ UNCHANGED status
              ELSE pc' = "later" /\ UNCHANGED <<todo, caller, status, skipped>>
       [] caller = "validate" /\ root = "target" ->
            pc' = "assert" /\ UNCHANGED <<todo, caller, status, skipped>>
  /\ UNCHANGED <<disk, faults, runs>>

-----------------------------------------------------------------------------
(* The phases between the finalizer and validate_boot, and its assertion.    *)

LaterPhasesFail ==
  /\ pc = "later"
  /\ Raise
  /\ UNCHANGED <<disk, faults, runs>>

\* _assert_boot_hooks_restored repairs before it insists.
Validate ==
  /\ pc = "later"
  /\ CallUnmask("validate")
  /\ UNCHANGED <<disk, status, faults, runs>>

\* Faulty variant: the assertion looks for masks only.
AssertNoMask ==
  /\ pc = "assert"
  /\ IF \A h \in Hooks : path[h] # "null"
       THEN CallUnmask("main") /\ UNCHANGED status
       ELSE Raise
  /\ UNCHANGED <<disk, faults, runs>>

AssertRestored ==
  /\ pc = "assert"
  /\ IF \A h \in Hooks : path[h] = "file" /\ backup[h] = "absent"
       THEN CallUnmask("main") /\ UNCHANGED status
       ELSE Raise
  /\ UNCHANGED <<disk, faults, runs>>

-----------------------------------------------------------------------------
(* What comes from outside.                                                  *)

\* KeyboardInterrupt unwinds like an exception: through the caller's finally
\* when the command is running, and straight out when the last unmask is.
Interrupt ==
  /\ "INT" \in Signals
  /\ \/ pc \in {"mask", "later", "assert"} /\ Raise
     \/ pc = "command" /\ status' = "failed" /\ CallUnmask("phase")
     \/ pc = "unmask" /\ caller # "main" /\ Raise
     \/ /\ pc = "unmask" /\ caller = "main"
        /\ pc' = "exit" /\ status' = "failed" /\ skipped' = TRUE
        /\ UNCHANGED <<todo, caller>>
  /\ UNCHANGED <<disk, faults, runs>>

\* SIGTERM, for which Python has no handler and which the dashboard sends when it
\* is interrupted; SIGKILL or a power cut.  No finally runs.
Kill ==
  /\ Signals \cap {"TERM", "KILL"} # {}
  /\ pc \notin {"exit", "dead"}
  /\ pc' = "dead"
  /\ status' = "failed"
  /\ UNCHANGED <<disk, todo, caller, skipped, faults, runs>>

\* The install is started again from the live session.  The target is formatted
\* and filled anew before its hooks are masked; the live directory is not.
Restart ==
  /\ pc \in {"exit", "dead"} /\ status = "failed" /\ runs < MaxRuns
  /\ runs' = runs + 1
  /\ IF root = "target"
       THEN path' = orig /\ backup' = [h \in Hooks |-> "absent"]
       ELSE UNCHANGED <<path, backup>>
  /\ pc' = "mask" /\ todo' = Hooks /\ caller' = "phase"
  /\ status' = "running" /\ skipped' = FALSE
  /\ UNCHANGED <<found, faults>>

Next ==
  \/ \E h \in Hooks :
       \/ MaskSkip(h) \/ MaskRename(h) \/ MaskLink(h)
       \/ UnmaskUnlink(h) \/ UnmaskRename(h) \/ UnmaskNothing(h) \/ UnmaskFails(h)
  \/ MaskDone \/ MaskFails
  \/ CommandSucceeds \/ CommandFails
  \/ UnmaskReturns
  \/ LaterPhasesFail \/ Validate \/ AssertRestored
  \/ Interrupt \/ Kill \/ Restart

Spec == Init /\ [][Next]_vars

-----------------------------------------------------------------------------
(* Properties.                                                               *)

\* Every variable has its type.
TypeOK ==
  /\ root \in {"live", "target"}
  /\ orig \in [Hooks -> {"absent", "file"}]
  /\ path \in [Hooks -> {"absent", "file", "null"}]
  /\ backup \in [Hooks -> {"absent", "file"}]
  /\ pc \in Pcs
  /\ todo \subseteq Hooks
  /\ caller \in {"phase", "validate", "main"}
  /\ status \in {"running", "ok", "failed"}
  /\ skipped \in BOOLEAN
  /\ faults \in 0..MaxFaults
  /\ runs \in 1..MaxRuns

\* No sequence of failed calls, signals, power cuts and restarts loses a hook
\* that was there when the session began: it is at its path or at its backup,
\* exactly one of them, and no backup appears from nowhere.
HookNeverLost ==
  \A h \in Hooks :
    IF orig[h] = "file" THEN path[h] = "file" <=> backup[h] = "absent"
                        ELSE path[h] # "file" /\ backup[h] = "absent"

\* The install command never runs with a hook of the list active, whatever an
\* earlier install left behind (mask_mkinitcpio_pacman_hooks skips the masks it
\* finds up).
CommandRunsMasked ==
  pc = "command" => \A h \in Hooks : path[h] = "null"

\* A target handed over as a success has its real hook in place and no backup
\* beside it, even when both earlier unmasks failed on it.
HandedOverUnmasked ==
  (root = "target" /\ pc = "exit" /\ status = "ok") =>
    \A h \in Hooks : path[h] = "file" /\ backup[h] = "absent"

\* An install that ends by itself, or by an exception, restores exactly what it
\* found unless its last unmask was cut short or failed on a hook.
CleanExitRestores ==
  (pc = "exit" /\ ~skipped) =>
    \A h \in Hooks : path[h] = orig[h] /\ backup[h] = "absent"

=============================================================================
