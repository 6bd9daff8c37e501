----------------------------- MODULE LiveSession -----------------------------
(***************************************************************************)
(* The live session: .automated_script.sh takes the installer's inputs     *)
(* from a cidata drive (monarch-cidata-load) or from the wizard            *)
(* (configurator), all of them files in /root, and hands them to the       *)
(* dashboard, which runs the orchestrator as its child.  A session may     *)
(* try again ("You can retry later by running: ./.automated_script.sh"),   *)
(* with another drive or none, so every file may be of an earlier attempt. *)
(* What every module has is named for the session here, so that a module    *)
(* can extend this one beside MediaVerify, the gate of the same session.   *)
(***************************************************************************)
EXTENDS Naturals

CONSTANTS
    Personal,    \* name and e-mail: files the wizard writes too
    Extras,      \* authorized_keys, tailscale_authkey: only a drive has them
    MaxAttempts  \* bound: runs of the script in one session

ASSUME SessionAssumption ==
    /\ {"config", "creds", "marker"} \cap (Personal \cup Extras) = {}
    /\ Personal \cap Extras = {} /\ MaxAttempts \in Nat

VARIABLES
    attempt,  \* of the script, from 1
    drive,    \* the attached cidata drive: {} or one of Drives
    place,    \* where the script, its loader, the wizard or the dashboard is
    file,     \* /root: the attempt that wrote each file, 0 when absent
    conf,     \* what user_configuration.json says, when it parses
    broken,   \* the JSON files that do not: cut short, or so on the drive
    spoilt,   \* ghost: a file the wizard wrote in this attempt is not whole
    auto,     \* MONARCH_UI_INTERACTIVE=no
    uiDefer,  \* MONARCH_UI_DEFER_PROVISIONING=yes
    child,    \* the installer: "none", "starting", "running", "ok", "failed"
    state,    \* the attempt that wrote state.json, 0 when absent
    shown     \* the state.json whose phases the failure screen shows

inputs == <<file, conf, broken, spoilt>>
screen == <<auto, uiDefer, shown>>
session == <<attempt, drive, place, inputs, screen, child, state>>

Optional == {"creds", "marker"} \cup Personal \cup Extras
Files == {"config"} \cup Optional
Written == {"creds"} \cup Personal   \* by write_install_user_files

Json == {"config", "creds"}          \* parsed by from_env

(* A drive has no configuration, one the loader accepts or another one; its *)
(* credentials parse or not, and nobody looks before from_env.              *)
Drives == [config : {"none", "full", "other"}, deferred : BOOLEAN,
           sound : BOOLEAN, files : SUBSET Optional]
Given(d) == d.files \cup {"config"}

SessionInit ==
    /\ attempt = 0 /\ drive = {} /\ place = "shell"
    /\ file = [f \in Files |-> 0]
    /\ conf = [mode |-> "full_disk", deferred |-> FALSE]
    /\ broken = {} /\ spoilt = FALSE
    /\ auto = FALSE /\ uiDefer = FALSE /\ shown = 0
    /\ child = "none" /\ state = 0

-----------------------------------------------------------------------------
Goto(p) == place' = p

(* The user attaches another drive, or takes it away. *)
Attach ==
    /\ place = "shell" /\ attempt < MaxAttempts
    /\ drive' = {} \/ \E d \in Drives : drive' = {d}
    /\ UNCHANGED <<attempt, place, inputs, screen, child, state>>

(* The script starts; its exports are those of a new process. *)
StartScript ==
    /\ place = "shell" /\ attempt < MaxAttempts
    /\ attempt' = attempt + 1 /\ Goto("probe")
    /\ auto' = FALSE /\ uiDefer' = FALSE /\ spoilt' = FALSE
    /\ UNCHANGED <<drive, file, conf, broken, shown, child, state>>

(* monarch-cidata-load: no device, or one that does not mount. *)
NoMedium ==
    /\ place = "probe" /\ Goto("wizard")
    /\ UNCHANGED <<attempt, drive, inputs, screen, child, state>>

(* Variant: the list of optional inputs lacks the extras. *)
ClearNoExtras ==
    /\ place = "probe" /\ drive # {}
    /\ file' = [f \in Files |-> IF f \in Extras THEN file[f] ELSE 0]
    /\ broken' = {} /\ Goto("inspect")
    /\ UNCHANGED <<attempt, drive, conf, spoilt, screen, child, state>>

(* Mounted; what earlier attempts left in /root is removed. *)
Clear ==
    /\ place = "probe" /\ drive # {}
    /\ file' = [f \in Files |-> 0]
    /\ broken' = {} /\ Goto("inspect")
    /\ UNCHANGED <<attempt, drive, conf, spoilt, screen, child, state>>

(* The required pair: a configuration, and credentials or the marker. *)
Pair(d) == d.config # "none" /\ d.files \cap {"creds", "marker"} # {}

NotAutoinstall ==
    /\ place = "inspect" /\ \A d \in drive : ~Pair(d)
    /\ Goto("wizard")
    /\ UNCHANGED <<attempt, drive, inputs, screen, child, state>>

SupportedAny(d) == d.config # "none"

(* Full-disk, as monarch-iso-cidata writes it. *)
Supported(d) == d.config = "full"

(* Exit 2, which ends the script. *)
Refuse ==
    /\ place = "inspect" /\ \E d \in drive : Pair(d) /\ ~Supported(d)
    /\ Goto("shell")
    /\ UNCHANGED <<attempt, drive, inputs, screen, child, state>>

CopyOf(d, part) ==
    /\ file' = [f \in Files |-> IF f \in part THEN attempt ELSE file[f]]
    /\ conf' = IF "config" \in part
               THEN [mode |-> IF d.config = "full" THEN "full_disk"
                              ELSE "protected",
                     deferred |-> d.deferred]
               ELSE conf

(* The files of the drive that do not parse. *)
Unsound(d) == IF d.sound THEN {} ELSE {"creds"}

Copy ==
    /\ place = "inspect"
    /\ \E d \in drive : /\ Pair(d) /\ Supported(d) /\ CopyOf(d, Given(d))
                        /\ broken' = Unsound(d) \cap Given(d)
    /\ auto' = TRUE /\ Goto("flags")
    /\ UNCHANGED <<attempt, drive, spoilt, uiDefer, shown, child, state>>

(* cp goes on to the next file after a failure, which leaves nothing of the *)
(* file or a part.                                                          *)
CopyFails ==
    /\ place = "inspect"
    /\ \E d \in drive : /\ Pair(d) /\ Supported(d)
                        /\ \E part \in SUBSET Given(d) :
                             /\ CopyOf(d, part)
                             /\ broken' \in SUBSET (Json \cap part)
    /\ Goto("uncopy")
    /\ UNCHANGED <<attempt, drive, spoilt, screen, child, state>>

Uncopy ==
    /\ place = "uncopy"
    /\ \E d \in drive :
         /\ file' = [f \in Files |-> IF f \in Given(d) THEN 0 ELSE file[f]]
         /\ broken' = broken \ Given(d)
    /\ Goto("wizard")
    /\ UNCHANGED <<attempt, drive, conf, spoilt, screen, child, state>>

-----------------------------------------------------------------------------
(* The wizard runs without set -e and looks at no status of its writes: it  *)
(* ends well when /root is full.  The shell empties a file that is there,   *)
(* and makes one that is not if it can, before anything is written; so one  *)
(* that is not whole is cut short, or absent as before.                     *)
Writes(F) ==
    \E whole, made \in SUBSET F :
      /\ whole \subseteq made /\ {f \in F : file[f] # 0} \subseteq made
      /\ file' = [f \in Files |-> IF f \in made THEN attempt ELSE file[f]]
      /\ broken' = (broken \ F) \cup (Json \cap (made \ whole))
      /\ spoilt' = (spoilt \/ whole # F)

(* write_install_user_files comes first, the configuration after the        *)
(* partitions of a free-space install.                                      *)
WizardUser ==
    /\ place = "wizard" /\ Writes(Written)
    /\ Goto("wizard_config")
    /\ UNCHANGED <<attempt, drive, conf, screen, child, state>>

(* Variant: the wizard's word for its choice gets into the file. *)
WizardConfigOwnWord ==
    /\ place = "wizard_config"
    /\ conf' \in [mode : {"full_disk", "free_space"}, deferred : {FALSE}]
    /\ Writes({"config"}) /\ Goto("flags")
    /\ UNCHANGED <<attempt, drive, screen, child, state>>

ConfigWritten(c) ==
    /\ place = "wizard_config"
    /\ conf' = c /\ Writes({"config"}) /\ Goto("flags")
    /\ UNCHANGED <<attempt, drive, screen, child, state>>

(* At the end of run_partition_execute, the partitions made and mounted.    *)
WriteProtectedConfig ==
    ConfigWritten([mode |-> "protected", deferred |-> FALSE])

(* Deferred provisioning is always a full-disk install. *)
WriteFullDiskConfig ==
    \E d \in BOOLEAN : ConfigWritten([mode |-> "full_disk", deferred |-> d])

WizardConfig == WriteProtectedConfig \/ WriteFullDiskConfig

(* abort, or partitions that could not be made: the status is not 0, and    *)
(* set -e ends the script that called the wizard.                           *)
WizardAborts ==
    /\ place \in {"wizard", "wizard_config"} /\ Goto("shell")
    /\ UNCHANGED <<attempt, drive, inputs, screen, child, state>>

(* Ctrl+C while the script is in the foreground. *)
Break ==
    /\ place \in {"probe", "inspect", "uncopy", "flags"} /\ Goto("shell")
    /\ UNCHANGED <<attempt, drive, inputs, screen, child, state>>

-----------------------------------------------------------------------------
Parses(f) == file[f] # 0 /\ f \notin broken

FlagsConfigOnly ==
    /\ place = "flags"
    /\ uiDefer' = conf.deferred
    /\ Goto("handover")
    /\ UNCHANGED <<attempt, drive, inputs, auto, shown, child, state>>

Flags ==
    /\ place = "flags"
    /\ uiDefer' = (file["marker"] # 0 \/ (Parses("config") /\ conf.deferred))
    /\ Goto("handover")
    /\ UNCHANGED <<attempt, drive, inputs, auto, shown, child, state>>

(* rm state.json; the dashboard launches its child. *)
HandOver ==
    /\ place = "handover"
    /\ state' = 0 /\ child' = "starting" /\ Goto("watch")
    /\ UNCHANGED <<attempt, drive, inputs, screen>>

(* InstallContext.from_env: credentials that are there must parse, deferred *)
(* or not.                                                                  *)
Deferred == (Parses("config") /\ conf.deferred) \/ file["marker"] # 0
Accepts == /\ Parses("config")
           /\ IF file["creds"] # 0 THEN Parses("creds") ELSE Deferred

(* run writes state.json before the first phase. *)
Record ==
    /\ child = "starting" /\ Accepts
    /\ child' = "running" /\ state' = attempt
    /\ UNCHANGED <<attempt, drive, place, inputs, screen>>

(* Refused by from_env, or failed later. *)
ChildFails ==
    /\ child \in {"starting", "running"}
    /\ child' = "failed"
    /\ UNCHANGED <<attempt, drive, place, inputs, screen, state>>

ChildSucceeds ==
    /\ child = "running"
    /\ child' = "ok"
    /\ UNCHANGED <<attempt, drive, place, inputs, screen, state>>

(* The poll of the dashboard finds no job, wait gives the status. *)
Ended ==
    /\ place = "watch" /\ child \in {"ok", "failed"}
    /\ child' = "none"
    /\ shown' = IF child = "failed" THEN state ELSE shown
    /\ Goto(IF child = "failed" THEN "failure" ELSE "finish")
    /\ UNCHANGED <<attempt, drive, inputs, auto, uiDefer, state>>

(* Variant: skipped for the deferred install in place of the automatic one. *)
FailureExitDeferred ==
    /\ place = "failure" /\ uiDefer
    /\ Goto("shell")
    /\ UNCHANGED <<attempt, drive, inputs, screen, child, state>>

(* Nobody can answer the menu of an automatic install. *)
FailureExit ==
    /\ place = "failure" /\ auto
    /\ Goto("shell")
    /\ UNCHANGED <<attempt, drive, inputs, screen, child, state>>

(* The user leaves the menu, to the shell or by a reboot. *)
FailureMenu ==
    /\ place = "failure" /\ ~auto
    /\ Goto("shell") \/ Goto("off")
    /\ UNCHANGED <<attempt, drive, inputs, screen, child, state>>

(* A deferred install, or an automatic one, reboots on its own. *)
FinishReboot ==
    /\ place = "finish" /\ (uiDefer \/ auto)
    /\ Goto("off")
    /\ UNCHANGED <<attempt, drive, inputs, screen, child, state>>

(* gum confirm: Reboot Now, or a prompt that is dismissed. *)
FinishPrompt ==
    /\ place = "finish" /\ ~uiDefer /\ ~auto
    /\ Goto("shell") \/ Goto("off")
    /\ UNCHANGED <<attempt, drive, inputs, screen, child, state>>

(* Ctrl+C on the dashboard: SIGTERM to the group of the child ... *)
Interrupt ==
    /\ place = "watch" /\ child # "none"
    /\ Goto("stopping")
    /\ UNCHANGED <<attempt, drive, inputs, screen, child, state>>

(* ... SIGKILL a second later, and wait; meanwhile the child may end. *)
StopChild ==
    /\ place = "stopping"
    /\ child' = "none" /\ Goto("shell")
    /\ UNCHANGED <<attempt, drive, inputs, screen, state>>

Load == NoMedium \/ Clear \/ NotAutoinstall \/ Refuse \/ Copy \/ CopyFails
        \/ Uncopy
Wizard == WizardUser \/ WizardConfig \/ WizardAborts
Child == Record \/ ChildFails \/ ChildSucceeds
Dashboard == HandOver \/ Ended \/ FailureExit \/ FinishReboot \/ StopChild
User == Attach \/ StartScript \/ Wizard \/ Break \/ Interrupt \/ FailureMenu
        \/ FinishPrompt

SessionNext == Load \/ Flags \/ Child \/ Dashboard \/ User

(* The programs run, and the installer ends (Install, Contract!Ends); the   *)
(* user need not do anything.                                               *)
SessionSpec ==
    /\ SessionInit /\ [][SessionNext]_session
    /\ WF_session(Load \/ Flags \/ Child \/ Dashboard)

-----------------------------------------------------------------------------
SessionTypeOK ==
    /\ attempt \in 0..MaxAttempts /\ drive \subseteq Drives
    /\ place \in {"shell", "probe", "inspect", "uncopy", "wizard",
               "wizard_config", "flags", "handover", "watch", "stopping",
               "failure", "finish", "off"}
    /\ file \in [Files -> 0..MaxAttempts]
    /\ conf \in [mode : {"full_disk", "protected"}, deferred : BOOLEAN]
    /\ broken \subseteq Json /\ spoilt \in BOOLEAN
    /\ auto \in BOOLEAN /\ uiDefer \in BOOLEAN
    /\ child \in {"none", "starting", "running", "ok", "failed"}
    /\ state \in 0..MaxAttempts /\ shown \in 0..MaxAttempts

(* An automatic install works from the files of its drive, each of them and *)
(* none of an earlier attempt, whose marker would take the user away and    *)
(* whose keys belong to another deployment.  The wizard's works from what   *)
(* its user has just answered, and from no earlier answer even when a write *)
(* failed (monarch-cidata-load, write-install-config).                      *)
InputsOfThisAttempt ==
    child = "starting" =>
      IF auto
      THEN \A d \in drive, f \in Files :
             file[f] = IF f \in Given(d) THEN attempt ELSE 0
      ELSE \A f \in Written \cup {"config"} :
             file[f] = attempt \/ (file[f] = 0 /\ spoilt)

(* from_env refuses what is handed over, and main ends before its finally,  *)
(* only for credentials that were broken on the drive or for a write of the *)
(* wizard in this very attempt that failed: never for what an earlier one   *)
(* left half written, half copied or cleared.  The second leaves the        *)
(* wizard's partitions on the disk.  And a configuration that names         *)
(* partitions as this install's own, to be removed after a failure, comes   *)
(* from the wizard that has made them (configurator, from_env, main).       *)
HandoverAccepted ==
    child = "starting" =>
      /\ \/ Accepts
         \/ IF auto THEN \E d \in drive : ~d.sound /\ "creds" \in d.files ELSE spoilt
      /\ Accepts /\ conf.mode = "protected" => ~auto /\ file["config"] = attempt

(* The dashboard ends a deferred install as one, and no other, and its      *)
(* failure screen tells of this attempt or of none.                         *)
ScreensAgree ==
    /\ child = "starting" => uiDefer = Deferred
    /\ place = "failure" => shown \in {0, attempt}

(* An automatic install ends without anybody at the keyboard. *)
AutoEnds == auto /\ place = "flags" ~> place \in {"shell", "off"}

(* monarch-cidata-load:41: no input of a previous load is left in /root.    *)
AllInputsFresh ==
    child = "starting" => \A f \in Files : file[f] \in {0, attempt}
-----------------------------------------------------------------------------
(* The strengthening the proofs use: whose files are in /root at each place *)
(* of the script, and what the flags say of them.                           *)
Watched == {"watch", "stopping"}

Placed ==
    /\ \A d, e \in drive : d = e
    /\ place \notin {"shell", "off"} => attempt > 0
    /\ child # "none" => place \in Watched
    /\ place \in Watched => state \in {0, attempt}
    /\ place = "failure" => shown \in {0, attempt}
    /\ place \in {"probe", "inspect", "uncopy", "wizard", "wizard_config"}
         => ~auto
    /\ place = "inspect" => file = [f \in Files |-> 0]

(* Files the wizard has written: whole if no write failed, and never stale. *)
Answered(F) ==
    /\ \A f \in F : file[f] \in {0, attempt}
    /\ ~spoilt => \A f \in F : file[f] = attempt /\ f \notin broken

(* What is on its way to the installer: the drive's files and no other, or  *)
(* the wizard's.                                                            *)
Gathered ==
    /\ place = "wizard_config" => Answered(Written)
    /\ place \in {"flags", "handover"} \/ child = "starting" =>
         IF auto
         THEN /\ conf.mode = "full_disk"
              /\ \E d \in drive :
                   /\ Pair(d)
                   /\ file = [f \in Files |->
                                IF f \in Given(d) THEN attempt ELSE 0]
                   /\ broken = Unsound(d) \cap Given(d)
         ELSE Answered(Written \cup {"config"})
    /\ place = "handover" \/ child = "starting" => uiDefer = Deferred

SessionIInv == SessionTypeOK /\ Placed /\ Gathered
=============================================================================
