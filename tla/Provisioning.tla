---------------------------- MODULE Provisioning ----------------------------
(***************************************************************************)
(* What an installation leaves for the first boot and for the next owner   *)
(* (context.py, phases_impl.py, prebuilt_uki.py): the account or the armed *)
(* first-boot setup, the unlock material of a deferred encrypted install,  *)
(* the boot image that must carry it, the SSH and Tailscale access the     *)
(* drive asked for, and the factory snapshot of @ that outlives them all.  *)
(* Mounts and exit codes are module Install's, NVRAM is EfiEntries'.       *)
(***************************************************************************)
EXTENDS Naturals, Sequences, FiniteSets

CONSTANTS
    KeyFiles,       \* shapes of authorized_keys: a subset of {"absent", "empty", "some"}
    TailscaleFiles, \* shapes of tailscale_authkey: a subset of {"absent", "bad", "one"}
    Keyboards       \* layouts asked for: a subset of {"none", "us", "other", "unknown"}

ASSUME KeyFilesKnown == KeyFiles \subseteq {"absent", "empty", "some"}
ASSUME TailscaleFilesKnown == TailscaleFiles \subseteq {"absent", "bad", "one"}
ASSUME KeyboardsKnown == Keyboards \subseteq {"none", "us", "other", "unknown"}

VARIABLES
    pc,       \* the phase that runs, or how the run ended
    input,    \* what the drive or the wizard supplied
    conf,     \* the two files archinstall reads: passphrases and accounts
    slot,     \* the passphrase of the LUKS slot on the disk
    account,  \* accounts of the target: "none", "created", "finalized"
    root,     \* files of the @ subvolume that later phases or the owner read
    home,     \* files of the @home subvolume
    key,      \* the passphrase written to luks-key and provisioning.key
    boot,     \* boot inputs changed since the root image was built, its kernel,
              \* whether it came with a boot image; the keymap of the console
    image,    \* the boot image on the ESP
    menu,     \* the command line in limine.conf, {} before an entry exists
    factory   \* the @factory subvolume

vars == <<pc, input, conf, slot, account, root, home, key, boot, image, menu, factory>>

-----------------------------------------------------------------------------
(* The files, named for what they hold. *)

Unlock == {"luks-key", "provisioning.key", "cmdline-dropin", "files-dropin"}
Tailnet == {"ts-authkey", "ts-join-unit", "ts-join-link"}
RootFiles ==
    Unlock \cup Tailnet \cup
    {"node-tarball", "skip-preinstalls", "pending", "owner-unit", "owner-link",
     "resume-dropin", "autologin", "staged-keys", "sshd-link", "ufw-22",
     "tailscaled-link", "ufw-tailscale0", "stub-resolv"}
Tokens == {"root=", "cryptdevice=", "rd.luks.name=", "resume=", "cryptkey="}
Passphrases == {"none", "owner", "rigA", "rigB", "generated"}

(* opens: the initramfs can open LUKS; embedded: it carries the key file;    *)
(* keymap: the one its passphrase prompt is typed in.                        *)
Image(kind, cmdline, opens, embedded, keymap) ==
    [kind |-> kind, cmdline |-> cmdline, opens |-> opens, embedded |-> embedded,
     keymap |-> keymap]
NoImage == Image("none", {}, FALSE, FALSE, "us")
BootInputs(keymaps) ==
    [changed : BOOLEAN, kernel : {"shipped", "replaced"}, cache : BOOLEAN, keymap : keymaps]

Factory(state, of, files) == [state |-> state, of |-> of, files |-> files]
NoFactory == Factory("none", "none", {})

Encrypted == input.luks # "none"

(* The phases of build_phases that touch this state, each with its successor; *)
(* the last one in three steps.                                              *)
After ==
    [archinstall |-> "system", system |-> "stage", stage |-> "finalize",
     finalize |-> "user", user |-> "login", login |-> "ssh", ssh |-> "tailscale",
     tailscale |-> "dns", dns |-> "validate", validate |-> "factory",
     factory |-> "scrub", scrub |-> "seal", seal |-> "done"]

Ended == {"done", "failed", "refused"}

(* What an encrypted root adds to root=, in the busybox initramfs' words.     *)
KernelParameters == {"root="} \cup (IF Encrypted THEN {"cryptdevice="} ELSE {})

(* The systemd initramfs of the prebuilt image wants rd.luks.name: both stay.  *)
WithSdEncrypt(parameters) ==
    parameters \cup (IF "cryptdevice=" \in parameters THEN {"rd.luks.name="} ELSE {})

(* /etc/default/limine *)
LimineDefaults == WithSdEncrypt(KernelParameters)

(* What the tools compute from it and the drop-ins. *)
Cmdline ==
    LimineDefaults \cup (IF "resume-dropin" \in root THEN {"resume="} ELSE {})
                   \cup (IF "cmdline-dropin" \in root THEN {"cryptkey="} ELSE {})

-----------------------------------------------------------------------------
(* The input: luks is "disk" when archinstall formats, "mounted" when a rig  *)
(* hands over an opened root, which exists under UEFI only. Accounts and     *)
(* passphrases may come with either file, for a deferred install too.        *)

Inputs ==
    {i \in [deferred : BOOLEAN, luks : {"none", "disk", "mounted"}, uefi : BOOLEAN,
            accounts : SUBSET {"creds", "config"}, diskPass : {"none", "owner", "rigA"},
            credPass : {"none", "owner", "rigB"}, preinstalls : BOOLEAN,
            keys : KeyFiles, tailscale : TailscaleFiles, keyboard : Keyboards] :
        /\ i.luks = "mounted" => i.uefi
        /\ i.luks # "disk" => i.diskPass = "none"
        /\ i.luks = "none" => i.credPass = "none"
        /\ i.deferred => "owner" \notin {i.diskPass, i.credPass}
        /\ ~i.deferred =>
              /\ i.accounts \in {{}, {"creds"}}
              /\ i.luks # "none" => i.credPass = "owner"
              /\ i.luks = "disk" => i.diskPass = "owner"}

(* An earlier installation of the rig may have left its own factory image. *)
Init ==
    /\ pc = "context"
    /\ input \in Inputs
    /\ conf = [diskPass |-> "none", credPass |-> "none", accounts |-> {}]
    /\ slot = CASE input.luks # "mounted" -> "none"
                [] input.deferred -> "rigB"
                [] OTHER -> "owner"
    /\ account = "none"
    /\ root = {} /\ home = {} /\ key = "none"
    /\ boot = [changed |-> FALSE, kernel |-> "shipped", cache |-> FALSE, keymap |-> "us"]
    /\ image = NoImage /\ menu = {}
    /\ factory \in {NoFactory} \cup
          (IF input.luks = "mounted" THEN {Factory("readonly", "old", {"node-tarball"})} ELSE {})

-----------------------------------------------------------------------------
(* InstallContext.from_env *)

(* One passphrase for both files: the supplied one, or a generated one. *)
Injected ==
    IF input.diskPass # "none" THEN input.diskPass
    ELSE IF input.credPass # "none" THEN input.credPass ELSE "generated"

Files(diskPass, credPass, accounts) ==
    [diskPass |-> diskPass, credPass |-> credPass, accounts |-> accounts]

WithoutAccounts(diskPass, credPass) == Files(diskPass, credPass, {})

(* What archinstall will read, left as supplied unless the owner is deferred. *)
HandsOver(deferredFiles) ==
    /\ pc = "context" /\ pc' = "archinstall"
    /\ input.deferred \/ input.accounts # {}
    /\ conf' = IF input.deferred THEN deferredFiles
               ELSE Files(input.diskPass, input.credPass, input.accounts)
    /\ UNCHANGED <<input, slot, account, root, home, key, boot, image, menu, factory>>

(* Variant: a passphrase that is there already is left alone. *)
ContextInjectsMissingOnly ==
    HandsOver(IF input.luks = "disk"
              THEN WithoutAccounts(
                       IF input.diskPass # "none" THEN input.diskPass ELSE Injected,
                       IF input.credPass # "none" THEN input.credPass ELSE Injected)
              ELSE WithoutAccounts("none", input.credPass))

(* A deferred install loses every account, whichever file carried it. *)
Context ==
    HandsOver(IF input.luks = "disk" THEN WithoutAccounts(Injected, Injected)
              ELSE WithoutAccounts("none", input.credPass))

(* No credentials file, or none with a user, and no deferral. *)
Refuse ==
    /\ pc = "context" /\ pc' = "refused"
    /\ ~input.deferred /\ input.accounts = {}
    /\ UNCHANGED <<input, conf, slot, account, root, home, key, boot, image, menu, factory>>

-----------------------------------------------------------------------------
(* configure_keyboard: a layout localectl does not know is a warning, and the *)
(* keymap of the image stays, as it does when none is asked for.             *)
Keymap == IF input.keyboard = "other" THEN "other" ELSE "us"

(* arch_install_system: archinstall may read the passphrase in either file.  *)
(* The deployed root image may come with a prebuilt boot image, and the      *)
(* kernel selection may differ from the one it was built with.               *)
Archinstall ==
    /\ pc = "archinstall" /\ pc' = After[pc]
    /\ IF input.luks = "disk"
       THEN slot' \in {conf.diskPass, conf.credPass} \ {"none"}
       ELSE slot' = slot
    /\ account' = IF conf.accounts # {} THEN "created" ELSE "none"
    /\ boot' \in BootInputs({Keymap})
    /\ UNCHANGED <<input, conf, root, home, key, image, menu, factory>>

(* configure_hibernation and run_system_finalizer: the runtime's tools may   *)
(* add a resume hook with its drop-in, or a hardware quirk.                  *)
System ==
    /\ pc = "system" /\ pc' = After[pc]
    /\ \/ root' = root \cup {"resume-dropin"} /\ boot' = [boot EXCEPT !.changed = TRUE]
       \/ root' = root /\ boot' \in {boot, [boot EXCEPT !.changed = TRUE]}
    /\ UNCHANGED <<input, conf, slot, account, home, key, image, menu, factory>>

-----------------------------------------------------------------------------
(* stage_provisioning_state *)

Password == IF conf.diskPass # "none" THEN conf.diskPass ELSE conf.credPass

Armed == {"pending", "owner-unit", "owner-link"}

(* The tarball for every install; a deferred one is armed, and an encrypted   *)
(* deferred one gets the passphrase it was formatted with, or stops here.     *)
StageProvisioning ==
    /\ pc = "stage" /\ pc' = After[pc]
    /\ input.deferred /\ Encrypted => Password # "none"
    /\ root' = root \cup {"node-tarball"}
                    \cup (IF input.preinstalls THEN {} ELSE {"skip-preinstalls"})
                    \cup (IF input.deferred THEN Armed ELSE {})
                    \cup (IF input.deferred /\ Encrypted THEN Unlock ELSE {})
    /\ key' = IF input.deferred /\ Encrypted THEN Password ELSE key
    /\ UNCHANGED <<input, conf, slot, account, home, boot, image, menu, factory>>

-----------------------------------------------------------------------------
(* finalize_limine_boot *)

(* fingerprint: mkinitcpio drop-ins, keyboard, hooks and kernels. *)
BootInputsMatch ==
    /\ ~boot.changed /\ boot.kernel = "shipped" /\ boot.keymap = "us"
    /\ "files-dropin" \notin root

CanDeploy ==
    input.uefi /\ boot.cache /\ BootInputsMatch /\ "provisioning.key" \notin root

(* The checks that follow either way. *)
MenuAccepted == menu' # {} /\ ("cryptdevice=" \in Cmdline => "cryptdevice=" \in menu')

(* The prebuilt systemd image, its command line replaced in place. *)
DeployPrebuilt ==
    /\ pc = "finalize" /\ pc' = After[pc]
    /\ CanDeploy
    /\ image' = Image("prebuilt", Cmdline, TRUE, FALSE, "us")
    /\ menu' = Cmdline
    /\ MenuAccepted
    /\ UNCHANGED <<input, conf, slot, account, root, home, key, boot, factory>>

(* limine-update on the target, also when the command line finds no room in   *)
(* the prebuilt image. mkinitcpio refuses FILES that name nothing. The tool   *)
(* may end well and yet leave no image, or one without the unlock hook.       *)
RebuildOnTarget ==
    /\ pc = "finalize" /\ pc' = After[pc]
    /\ "files-dropin" \in root => "provisioning.key" \in root
    /\ \/ \E opens \in BOOLEAN :
             image' = Image("rebuilt", Cmdline, opens, "files-dropin" \in root, boot.keymap)
       \/ image' = NoImage
    /\ menu' \in {{}, Cmdline}
    /\ MenuAccepted
    /\ UNCHANGED <<input, conf, slot, account, root, home, key, boot, factory>>

-----------------------------------------------------------------------------
(* run_chroot_finalizer: monarch-provision-user runs as the new user. *)
FinalizeUser ==
    /\ pc = "user" /\ pc' = After[pc]
    /\ IF input.deferred THEN account' = account
       ELSE account # "none" /\ account' = "finalized"
    /\ UNCHANGED <<input, conf, slot, root, home, key, boot, image, menu, factory>>

(* Variant: autologin follows the encryption alone. *)
ConfigureLoginByEncryption ==
    /\ pc = "login" /\ pc' = After[pc]
    /\ root' = IF Encrypted THEN root \cup {"autologin"} ELSE root \ {"autologin"}
    /\ UNCHANGED <<input, conf, slot, account, home, key, boot, image, menu, factory>>

(* configure_login: the LUKS prompt is the authentication of an encrypted     *)
(* install; a deferred one has nobody to log in yet.                          *)
ConfigureLogin ==
    /\ pc = "login" /\ pc' = After[pc]
    /\ root' = IF Encrypted /\ ~input.deferred
               THEN root \cup {"autologin"} ELSE root \ {"autologin"}
    /\ UNCHANGED <<input, conf, slot, account, home, key, boot, image, menu, factory>>

(* Variant: a deferred install opens the door and forgets the keys. *)
ConfigureSSHDropsKeys ==
    /\ pc = "ssh" /\ pc' = After[pc]
    /\ input.keys # "empty"
    /\ IF input.keys = "absent" THEN UNCHANGED <<root, home>>
       ELSE /\ root' = root \cup {"sshd-link", "ufw-22"}
            /\ home' = IF input.deferred THEN home ELSE home \cup {"authorized_keys"}
    /\ UNCHANGED <<input, conf, slot, account, key, boot, image, menu, factory>>

(* configure_ssh_access: keys to the user, or staged for the owner to come;   *)
(* the service and the firewall rule in both cases.                           *)
ConfigureSSH ==
    /\ pc = "ssh" /\ pc' = After[pc]
    /\ input.keys # "empty"
    /\ IF input.keys = "absent" THEN UNCHANGED <<root, home>>
       ELSE /\ root' = root \cup {"sshd-link", "ufw-22"}
                            \cup (IF input.deferred THEN {"staged-keys"} ELSE {})
            /\ home' = IF input.deferred THEN home ELSE home \cup {"authorized_keys"}
    /\ UNCHANGED <<input, conf, slot, account, key, boot, image, menu, factory>>

(* configure_tailscale *)
ConfigureTailscale ==
    /\ pc = "tailscale" /\ pc' = After[pc]
    /\ input.tailscale # "bad"
    /\ root' = IF input.tailscale = "absent" THEN root
               ELSE root \cup Tailnet \cup {"tailscaled-link", "ufw-tailscale0"}
    /\ UNCHANGED <<input, conf, slot, account, home, key, boot, image, menu, factory>>

ConfigureDNS ==
    /\ pc = "dns" /\ pc' = After[pc]
    /\ root' = root \cup {"stub-resolv"}
    /\ UNCHANGED <<input, conf, slot, account, home, key, boot, image, menu, factory>>

-----------------------------------------------------------------------------
(* validate_boot *)

(* _validate_provisioning_state *)
ProvisioningComplete ==
    /\ {"pending", "owner-link", "node-tarball"} \subseteq root
    /\ Encrypted => /\ {"luks-key", "provisioning.key"} \subseteq root
                    /\ "cryptkey=" \in menu

(* Variant: the presence of the boot image is enough. *)
ValidateImagePresent ==
    /\ pc = "validate" /\ pc' = After[pc]
    /\ menu # {} /\ (Encrypted => "cryptdevice=" \in menu)
    /\ input.uefi => image.kind # "none"
    /\ input.deferred => ProvisioningComplete
    /\ UNCHANGED <<input, conf, slot, account, root, home, key, boot, image, menu, factory>>

(* The image itself is inspected under UEFI only. *)
ValidateBoot ==
    /\ pc = "validate" /\ pc' = After[pc]
    /\ menu # {} /\ (Encrypted => "cryptdevice=" \in menu)
    /\ input.uefi => image.kind # "none" /\ (Encrypted => image.opens)
    /\ input.deferred => ProvisioningComplete
    /\ UNCHANGED <<input, conf, slot, account, root, home, key, boot, image, menu, factory>>

-----------------------------------------------------------------------------
(* create_factory_snapshot *)

(* Variant: written before SSH keys could be staged. *)
ScrubPathsWithoutKeys ==
    <<"luks-key", "provisioning.key", "cmdline-dropin", "files-dropin",
      "ts-authkey", "ts-join-unit", "ts-join-link">>

FACTORY_SCRUB_PATHS ==
    <<"staged-keys", "luks-key", "provisioning.key", "cmdline-dropin", "files-dropin",
      "ts-authkey", "ts-join-unit", "ts-join-link">>

(* A root that is not the @ subvolume of a Btrfs gets none. *)
SkipFactory ==
    /\ pc = "factory" /\ pc' = "done"
    /\ UNCHANGED <<input, conf, slot, account, root, home, key, boot, image, menu, factory>>

DeleteOldFactory ==
    /\ pc = "factory" /\ factory # NoFactory
    /\ factory' = NoFactory
    /\ UNCHANGED <<pc, input, conf, slot, account, root, home, key, boot, image, menu>>

(* Variant: the snapshot is taken whatever @factory is; Btrfs then nests it,   *)
(* and the old one stays where it was.                                         *)
SnapshotOverOld ==
    /\ pc = "factory" /\ pc' = After[pc]
    /\ factory' = IF factory = NoFactory THEN Factory("writable", "this", root) ELSE factory
    /\ UNCHANGED <<input, conf, slot, account, root, home, key, boot, image, menu>>

Snapshot ==
    /\ pc = "factory" /\ pc' = After[pc]
    /\ factory = NoFactory
    /\ factory' = Factory("writable", "this", root)
    /\ UNCHANGED <<input, conf, slot, account, root, home, key, boot, image, menu>>

Unscrubbed ==
    {i \in DOMAIN FACTORY_SCRUB_PATHS : FACTORY_SCRUB_PATHS[i] \in factory.files}

(* One unlink after the other, in the order of the table. *)
Scrub ==
    /\ pc = "scrub"
    /\ \/ Unscrubbed = {} /\ pc' = After[pc] /\ factory' = factory
       \/ \E i \in Unscrubbed :
             /\ \A j \in Unscrubbed : i <= j
             /\ pc' = pc
             /\ factory' = [factory EXCEPT !.files = @ \ {FACTORY_SCRUB_PATHS[i]}]
    /\ UNCHANGED <<input, conf, slot, account, root, home, key, boot, image, menu>>

Seal ==
    /\ pc = "seal" /\ pc' = After[pc]
    /\ factory' = [factory EXCEPT !.state = "readonly"]
    /\ UNCHANGED <<input, conf, slot, account, root, home, key, boot, image, menu>>

(* Any command or file of a phase may fail, and the run may be interrupted. *)
PhaseFails ==
    /\ pc \in DOMAIN After /\ pc' = "failed"
    /\ UNCHANGED <<input, conf, slot, account, root, home, key, boot, image, menu, factory>>

Next ==
    \/ Context \/ Refuse \/ Archinstall \/ System \/ StageProvisioning
    \/ DeployPrebuilt \/ RebuildOnTarget \/ FinalizeUser \/ ConfigureLogin \/ ConfigureSSH
    \/ ConfigureTailscale \/ ConfigureDNS \/ ValidateBoot
    \/ SkipFactory \/ DeleteOldFactory \/ Snapshot \/ Scrub \/ Seal \/ PhaseFails

Spec == Init /\ [][Next]_vars

-----------------------------------------------------------------------------
(* Properties *)

(* Every variable keeps its type, and a staged key file is never empty. *)
TypeOK ==
    /\ pc \in DOMAIN After \cup Ended \cup {"context"}
    /\ input \in Inputs
    /\ conf \in [diskPass : Passphrases, credPass : Passphrases,
                 accounts : SUBSET {"creds", "config"}]
    /\ slot \in Passphrases /\ key \in Passphrases
    /\ "luks-key" \in root <=> key # "none"
    /\ account \in {"none", "created", "finalized"}
    /\ root \subseteq RootFiles /\ home \subseteq {"authorized_keys"}
    /\ boot \in BootInputs({"us", "other"})
    /\ image \in [kind : {"none", "prebuilt", "rebuilt"}, cmdline : SUBSET Tokens,
                  opens : BOOLEAN, embedded : BOOLEAN, keymap : {"us", "other"}]
    /\ menu \subseteq Tokens
    /\ factory \in [state : {"none", "writable", "readonly"}, of : {"none", "old", "this"},
                    files : SUBSET RootFiles]

(* A finished install has somebody to log in: the account archinstall made    *)
(* and monarch-provision-user finalized, or the armed first-boot setup with   *)
(* its offline tarball and no stale autologin (_validate_provisioning_state:  *)
(* anything less is a user-less brick). Only an LUKS prompt replaces SDDM's.  *)
(* And a deferred install creates no account, whichever input file smuggled   *)
(* one in and however the run ends (from_env, _strip_account_fields).         *)
ReadyForItsOwner ==
    /\ input.deferred => account = "none"
    /\ pc = "done" =>
        /\ "node-tarball" \in root
        /\ IF input.deferred
           THEN Armed \subseteq root /\ "autologin" \notin root
           ELSE /\ account = "finalized" /\ root \cap (Armed \cup Unlock) = {}
                /\ ("autologin" \in root <=> Encrypted)

(* A finished deferred encrypted install boots to its owner unattended: the   *)
(* staged passphrase is the one the slot was formatted with, the image was    *)
(* built on the target and packs the key file, and both command lines name it *)
(* (_stage_provisioning_luks_unlock, deploy). UEFI, where images are checked. *)
OpensUnattended ==
    pc = "done" /\ input.deferred /\ Encrypted /\ input.uefi =>
        /\ key = slot /\ slot # "none"
        /\ Unlock \subseteq root
        /\ image.kind = "rebuilt" /\ image.embedded
        /\ "cryptkey=" \in image.cmdline \cap menu

(* What boots is what was configured: no drop-in written after the image was  *)
(* made, no root the image cannot open, no passphrase prompt in another       *)
(* layout than the one asked for (build_phases, fingerprint, validate_boot).  *)
BootsItsConfiguration ==
    pc = "done" =>
        /\ menu = Cmdline
        /\ input.uefi => /\ image.kind # "none" /\ image.cmdline = Cmdline
                         /\ Encrypted => image.opens
                         /\ image.keymap = "other" <=> input.keyboard = "other"

(* Who asked for SSH or the tailnet gets keys, service and firewall rule      *)
(* together, the keys where the owner's login will look for them; who did not *)
(* gets a closed port and no key (configure_ssh_access, configure_tailscale). *)
ReachableAsAsked ==
    pc = "done" =>
        /\ IF input.keys = "absent"
           THEN root \cap {"sshd-link", "ufw-22", "staged-keys"} = {} /\ home = {}
           ELSE /\ {"sshd-link", "ufw-22"} \subseteq root
                /\ IF input.deferred THEN "staged-keys" \in root
                                     ELSE "authorized_keys" \in home
        /\ IF input.tailscale = "absent"
           THEN root \cap (Tailnet \cup {"tailscaled-link", "ufw-tailscale0"}) = {}
           ELSE Tailnet \cup {"tailscaled-link", "ufw-tailscale0"} \subseteq root

Secrets == {"staged-keys", "luks-key", "provisioning.key", "ts-authkey"}

(* A factory image anybody can reset to holds none of the secrets this        *)
(* install staged for the first boot, at whatever point the run stopped       *)
(* (FACTORY_SCRUB_PATHS).                                                     *)
FactoryHoldsNoSecrets ==
    factory.state = "readonly" => factory.files \cap Secrets = {}

(* What is scrubbed and sealed is this install's snapshot, never the image an  *)
(* earlier installation left; and it works on its own: nothing in it names a   *)
(* scrubbed file, and the tarball the next owner needs offline is there.       *)
FactoryStandsAlone ==
    /\ pc \in {"scrub", "seal"} => factory.of = "this"
    /\ pc = "done" /\ factory.of = "this" =>
        /\ factory.state = "readonly"
        /\ "node-tarball" \in factory.files
        /\ {"files-dropin", "cmdline-dropin"} \cap factory.files # {} =>
              "provisioning.key" \in factory.files
        /\ "ts-join-link" \in factory.files => "ts-join-unit" \in factory.files

-----------------------------------------------------------------------------
(* The strengthening of ProvisioningProofs: what is settled from each phase    *)
(* on.  A run that failed is asked for nothing but what it must never do.      *)
FromFactory == {"factory", "scrub", "seal", "done"}
FromDNS == {"dns", "validate"} \cup FromFactory
FromSSH == {"tailscale"} \cup FromDNS
FromLogin == {"ssh"} \cup FromSSH
FromUser == {"login"} \cup FromLogin
FromFinalize == {"user"} \cup FromUser
FromStage == {"finalize"} \cup FromFinalize
FromArchinstall == {"system", "stage"} \cup FromStage

(* The passphrases of a deferred install are one. *)
Keyed ==
    /\ input.deferred /\ pc \in FromArchinstall \cup {"archinstall"} =>
          /\ conf.accounts = {}
          /\ input.luks = "disk" => conf.diskPass = Injected /\ conf.credPass = Injected
          /\ input.luks # "disk" => conf.diskPass = "none" /\ conf.credPass = input.credPass
    /\ input.deferred /\ input.luks = "mounted" => slot = "rigB"
    /\ input.deferred /\ input.luks = "disk" /\ pc \in FromArchinstall => slot = Injected
    /\ input.deferred /\ Encrypted /\ pc \in FromStage => key = Password /\ key # "none"

Peopled ==
    /\ input.deferred => account = "none"
    /\ ~input.deferred => root \cap (Armed \cup Unlock) = {}
    /\ ~input.deferred /\ pc \in FromUser => account = "finalized"
    /\ pc \in FromStage => "node-tarball" \in root
    /\ pc \in FromStage /\ input.deferred => Armed \subseteq root
    /\ pc \in FromStage /\ input.deferred /\ Encrypted => Unlock \subseteq root
    /\ pc \in FromLogin => ("autologin" \in root <=> Encrypted /\ ~input.deferred)

Booting ==
    /\ pc \in FromArchinstall => boot.keymap = Keymap
    /\ pc \in FromFinalize =>
          /\ menu = Cmdline
          /\ image.kind # "none" =>
                /\ image.cmdline = Cmdline /\ image.keymap = boot.keymap
                /\ "provisioning.key" \in root =>
                      image.kind = "rebuilt" /\ (image.embedded <=> "files-dropin" \in root)
    /\ pc \in FromFactory /\ input.uefi =>
          image.kind # "none" /\ (Encrypted => image.opens)

Reached ==
    /\ input.keys = "absent" =>
          root \cap {"sshd-link", "ufw-22", "staged-keys"} = {} /\ home = {}
    /\ input.tailscale = "absent" =>
          root \cap (Tailnet \cup {"tailscaled-link", "ufw-tailscale0"}) = {}
    /\ pc \in FromSSH /\ input.keys # "absent" =>
          /\ {"sshd-link", "ufw-22"} \subseteq root
          /\ IF input.deferred THEN "staged-keys" \in root ELSE "authorized_keys" \in home
    /\ pc \in FromDNS /\ input.tailscale # "absent" =>
          Tailnet \cup {"tailscaled-link", "ufw-tailscale0"} \subseteq root

Scrubbed == {FACTORY_SCRUB_PATHS[i] : i \in DOMAIN FACTORY_SCRUB_PATHS}

Kept ==
    /\ factory.of = "this" => "node-tarball" \in factory.files
    /\ pc \in {"scrub", "seal"} => factory.of = "this" /\ factory.state = "writable"
    /\ pc \notin {"scrub", "seal", "done", "failed"} => factory.of # "this"
    /\ pc = "seal" => factory.files \cap Scrubbed = {}
    /\ factory.of = "this" /\ factory.state = "readonly" => factory.files \cap Scrubbed = {}
    /\ factory.of # "this" => factory.files \subseteq {"node-tarball"}
    /\ pc = "done" /\ factory.of = "this" => factory.state = "readonly"

IInv == TypeOK /\ Keyed /\ Peopled /\ Booting /\ Reached /\ Kept
=============================================================================
