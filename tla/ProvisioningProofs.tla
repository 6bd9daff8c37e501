------------------------- MODULE ProvisioningProofs -------------------------
(***************************************************************************)
(* Provisioning's properties for every input, every keyboard, key file and *)
(* passphrase and every outcome of the tools.                              *)
(***************************************************************************)
EXTENDS Provisioning, TLAPS

(* The order of the phases, read off the table. *)
LEMMA Successors ==
    /\ After["archinstall"] = "system" /\ After["system"] = "stage"
    /\ After["stage"] = "finalize" /\ After["finalize"] = "user"
    /\ After["user"] = "login" /\ After["login"] = "ssh" /\ After["ssh"] = "tailscale"
    /\ After["tailscale"] = "dns" /\ After["dns"] = "validate"
    /\ After["validate"] = "factory" /\ After["factory"] = "scrub"
    /\ After["scrub"] = "seal" /\ After["seal"] = "done"
    /\ DOMAIN After = {"archinstall", "system", "stage", "finalize", "user", "login", "ssh",
                       "tailscale", "dns", "validate", "factory", "scrub", "seal"}
  BY DEF After

(* What a drive or the wizard can supply. *)
LEMMA InputFields ==
    input \in Inputs =>
        /\ input.deferred \in BOOLEAN /\ input.uefi \in BOOLEAN
        /\ input.luks \in {"none", "disk", "mounted"}
        /\ input.accounts \subseteq {"creds", "config"}
        /\ input.diskPass \in {"none", "owner", "rigA"}
        /\ input.credPass \in {"none", "owner", "rigB"}
  BY DEF Inputs

(* What the unlink loop goes through. *)
LEMMA ScrubTable ==
    /\ Scrubbed = Secrets \cup {"cmdline-dropin", "files-dropin", "ts-join-unit",
                                "ts-join-link"}
    /\ \A i \in DOMAIN FACTORY_SCRUB_PATHS : FACTORY_SCRUB_PATHS[i] \in Scrubbed
    /\ "node-tarball" \notin Scrubbed
  BY DEF Scrubbed, FACTORY_SCRUB_PATHS, Secrets

(* Every step keeps the types. *)
LEMMA StepTypeOK == IInv /\ [Next]_vars => TypeOK'
<1> SUFFICES ASSUME IInv, [Next]_vars PROVE TypeOK'
  OBVIOUS
<1>0. TypeOK /\ Keyed /\ Peopled /\ Booting /\ Reached /\ Kept
  BY DEF IInv
<1> USE DEF TypeOK, Ended, Tokens, Passphrases, RootFiles, Unlock, Tailnet, BootInputs,
       Armed, Factory, NoFactory, Image, NoImage, Password, Files, WithoutAccounts,
       Injected, Encrypted, Cmdline, LimineDefaults, WithSdEncrypt, KernelParameters
<1>1. CASE Context
  <2>1. Injected \in Passphrases
    BY <1>0, InputFields
  <2>2. conf' \in [diskPass : Passphrases, credPass : Passphrases,
                    accounts : SUBSET {"creds", "config"}]
    BY <1>1, <2>1, <1>0, InputFields DEF Context, HandsOver
  <2> QED
    BY <1>0, <1>1, <2>2, Successors DEF Context, HandsOver
<1>2. CASE Refuse
  BY <1>0, <1>2, Successors DEF Refuse
<1>3. CASE Archinstall
  <2>1. slot' \in Passphrases /\ account' \in {"none", "created"}
    BY <1>0, <1>3 DEF Archinstall
  <2>2. boot' \in BootInputs({"us", "other"})
    BY <1>3 DEF Archinstall, Keymap
  <2> QED
    BY <1>0, <1>3, <2>1, <2>2, Successors DEF Archinstall
<1>4. CASE System
  <2>1. boot' \in BootInputs({"us", "other"})
    <3>1. boot \in BootInputs({"us", "other"})
      BY <1>0
    <3> QED
      BY <3>1, <1>4 DEF System
  <2>2. root' = root \/ root' = root \cup {"resume-dropin"}
    BY <1>4 DEF System
  <2> QED
    BY <1>0, <1>4, <2>1, <2>2, Successors DEF System
<1>5. CASE StageProvisioning
  BY <1>0, <1>5, Successors DEF StageProvisioning
<1>6. CASE DeployPrebuilt
  BY <1>0, <1>6, Successors DEF DeployPrebuilt
<1>7. CASE RebuildOnTarget
  <2>1. image' \in [kind : {"none", "prebuilt", "rebuilt"}, cmdline : SUBSET Tokens,
                     opens : BOOLEAN, embedded : BOOLEAN, keymap : {"us", "other"}]
    <3>1. Cmdline \subseteq Tokens /\ boot.keymap \in {"us", "other"}
      BY <1>0
    <3>2. ("files-dropin" \in root) \in BOOLEAN
      OBVIOUS
    <3>3. CASE image' = NoImage
      BY <3>3
    <3>4. ASSUME NEW opens \in BOOLEAN, NEW embedded \in BOOLEAN,
                 image' = Image("rebuilt", Cmdline, opens, embedded, boot.keymap)
          PROVE  image' \in [kind : {"none", "prebuilt", "rebuilt"},
                             cmdline : SUBSET Tokens,
                             opens : BOOLEAN, embedded : BOOLEAN, keymap : {"us", "other"}]
      BY <3>1, <3>4
    <3> QED
      BY <1>7, <3>2, <3>3, <3>4 DEF RebuildOnTarget
  <2>2. menu' \subseteq Tokens
    BY <1>7 DEF RebuildOnTarget
  <2> QED
    BY <1>0, <1>7, <2>1, <2>2, Successors DEF RebuildOnTarget
<1>8. CASE FinalizeUser
  BY <1>0, <1>8, Successors DEF FinalizeUser
<1>9. CASE ConfigureLogin
  BY <1>0, <1>9, Successors DEF ConfigureLogin
<1>10. CASE ConfigureSSH
  <2>1. /\ root' \subseteq root \cup {"sshd-link", "ufw-22", "staged-keys"}
        /\ home' \subseteq home \cup {"authorized_keys"}
    <3>1. CASE input.keys = "absent"
      BY <1>10, <3>1 DEF ConfigureSSH
    <3>2. CASE input.keys # "absent"
      BY <1>10, <3>2 DEF ConfigureSSH
    <3> QED
      BY <3>1, <3>2
  <2>2. "luks-key" \in root' <=> "luks-key" \in root
    BY <1>10 DEF ConfigureSSH
  <2> QED
    BY <1>0, <1>10, <2>1, <2>2, Successors DEF ConfigureSSH
<1>11. CASE ConfigureTailscale
  BY <1>0, <1>11, Successors DEF ConfigureTailscale
<1>12. CASE ConfigureDNS
  BY <1>0, <1>12, Successors DEF ConfigureDNS
<1>13. CASE ValidateBoot
  BY <1>0, <1>13, Successors DEF ValidateBoot
<1>14. CASE SkipFactory
  BY <1>0, <1>14, Successors DEF SkipFactory
<1>15. CASE DeleteOldFactory
  BY <1>0, <1>15, Successors DEF DeleteOldFactory
<1>16. CASE Snapshot
  BY <1>0, <1>16, Successors DEF Snapshot
<1>17. CASE Scrub
  BY <1>0, <1>17, Successors DEF Scrub
<1>18. CASE Seal
  BY <1>0, <1>18, Successors DEF Seal
<1>19. CASE PhaseFails
  BY <1>0, <1>19, Successors DEF PhaseFails
<1>20. CASE UNCHANGED vars
  BY <1>0, <1>20 DEF vars
<1> QED
  BY <1>1, <1>2, <1>3, <1>4, <1>5, <1>6, <1>7, <1>8, <1>9, <1>10, <1>11, <1>12, <1>13,
         <1>14, <1>15, <1>16, <1>17, <1>18, <1>19, <1>20 DEF Next

(* Every step keeps the passphrases of a deferred install one. *)
LEMMA StepKeyed == IInv /\ [Next]_vars => Keyed'
<1> SUFFICES ASSUME IInv, [Next]_vars PROVE Keyed'
  OBVIOUS
<1>0. TypeOK /\ Keyed /\ Peopled /\ Booting /\ Reached /\ Kept
  BY DEF IInv
<1> USE DEF Keyed, Injected, Password, Files, WithoutAccounts, Encrypted, FromArchinstall,
       FromStage, FromFinalize, FromUser, FromLogin, FromSSH, FromDNS, FromFactory
<1>1. CASE Context
  BY <1>0, <1>1, Successors DEF Context, HandsOver
<1>2. CASE Refuse
  BY <1>0, <1>2, Successors DEF Refuse
<1>3. CASE Archinstall
  BY <1>0, <1>3, Successors DEF Archinstall
<1>4. CASE System
  BY <1>0, <1>4, Successors DEF System
<1>5. CASE StageProvisioning
  BY <1>0, <1>5, Successors DEF StageProvisioning
<1>6. CASE DeployPrebuilt
  BY <1>0, <1>6, Successors DEF DeployPrebuilt
<1>7. CASE RebuildOnTarget
  BY <1>0, <1>7, Successors DEF RebuildOnTarget
<1>8. CASE FinalizeUser
  BY <1>0, <1>8, Successors DEF FinalizeUser
<1>9. CASE ConfigureLogin
  BY <1>0, <1>9, Successors DEF ConfigureLogin
<1>10. CASE ConfigureSSH
  BY <1>0, <1>10, Successors DEF ConfigureSSH
<1>11. CASE ConfigureTailscale
  BY <1>0, <1>11, Successors DEF ConfigureTailscale
<1>12. CASE ConfigureDNS
  BY <1>0, <1>12, Successors DEF ConfigureDNS
<1>13. CASE ValidateBoot
  BY <1>0, <1>13, Successors DEF ValidateBoot
<1>14. CASE SkipFactory
  BY <1>0, <1>14, Successors DEF SkipFactory
<1>15. CASE DeleteOldFactory
  BY <1>0, <1>15, Successors DEF DeleteOldFactory
<1>16. CASE Snapshot
  BY <1>0, <1>16, Successors DEF Snapshot
<1>17. CASE Scrub
  BY <1>0, <1>17, Successors DEF Scrub
<1>18. CASE Seal
  BY <1>0, <1>18, Successors DEF Seal
<1>19. CASE PhaseFails
  BY <1>0, <1>19, Successors DEF PhaseFails
<1>20. CASE UNCHANGED vars
  BY <1>0, <1>20 DEF vars
<1> QED
  BY <1>1, <1>2, <1>3, <1>4, <1>5, <1>6, <1>7, <1>8, <1>9, <1>10, <1>11, <1>12, <1>13,
         <1>14, <1>15, <1>16, <1>17, <1>18, <1>19, <1>20 DEF Next

(* Every step keeps accounts and the armed first boot apart. *)
LEMMA StepPeopled == IInv /\ [Next]_vars => Peopled'
<1> SUFFICES ASSUME IInv, [Next]_vars PROVE Peopled'
  OBVIOUS
<1>0. TypeOK /\ Keyed /\ Peopled /\ Booting /\ Reached /\ Kept
  BY DEF IInv
<1> USE DEF Peopled, Keyed, Armed, Unlock, Tailnet, Encrypted, FromArchinstall, FromStage,
       FromFinalize, FromUser, FromLogin, FromSSH, FromDNS, FromFactory
<1>1. CASE Context
  BY <1>0, <1>1, Successors DEF Context, HandsOver
<1>2. CASE Refuse
  BY <1>0, <1>2, Successors DEF Refuse
<1>3. CASE Archinstall
  BY <1>0, <1>3, Successors DEF Archinstall
<1>4. CASE System
  BY <1>0, <1>4, Successors DEF System
<1>5. CASE StageProvisioning
  BY <1>0, <1>5, Successors DEF StageProvisioning
<1>6. CASE DeployPrebuilt
  BY <1>0, <1>6, Successors DEF DeployPrebuilt
<1>7. CASE RebuildOnTarget
  BY <1>0, <1>7, Successors DEF RebuildOnTarget
<1>8. CASE FinalizeUser
  BY <1>0, <1>8, Successors DEF FinalizeUser
<1>9. CASE ConfigureLogin
  BY <1>0, <1>9, Successors DEF ConfigureLogin
<1>10. CASE ConfigureSSH
  BY <1>0, <1>10, Successors DEF ConfigureSSH
<1>11. CASE ConfigureTailscale
  BY <1>0, <1>11, Successors DEF ConfigureTailscale
<1>12. CASE ConfigureDNS
  BY <1>0, <1>12, Successors DEF ConfigureDNS
<1>13. CASE ValidateBoot
  BY <1>0, <1>13, Successors DEF ValidateBoot
<1>14. CASE SkipFactory
  BY <1>0, <1>14, Successors DEF SkipFactory
<1>15. CASE DeleteOldFactory
  BY <1>0, <1>15, Successors DEF DeleteOldFactory
<1>16. CASE Snapshot
  BY <1>0, <1>16, Successors DEF Snapshot
<1>17. CASE Scrub
  BY <1>0, <1>17, Successors DEF Scrub
<1>18. CASE Seal
  BY <1>0, <1>18, Successors DEF Seal
<1>19. CASE PhaseFails
  BY <1>0, <1>19, Successors DEF PhaseFails
<1>20. CASE UNCHANGED vars
  BY <1>0, <1>20 DEF vars
<1> QED
  BY <1>1, <1>2, <1>3, <1>4, <1>5, <1>6, <1>7, <1>8, <1>9, <1>10, <1>11, <1>12, <1>13,
         <1>14, <1>15, <1>16, <1>17, <1>18, <1>19, <1>20 DEF Next

(* Every step keeps the image and the menu in agreement with the drop-ins. *)
LEMMA StepBooting == IInv /\ [Next]_vars => Booting'
<1> SUFFICES ASSUME IInv, [Next]_vars PROVE Booting'
  OBVIOUS
<1>0. TypeOK /\ Keyed /\ Peopled /\ Booting /\ Reached /\ Kept
  BY DEF IInv
<1> USE DEF Booting, Peopled, Cmdline, LimineDefaults, WithSdEncrypt, KernelParameters,
       Encrypted, Image, BootInputs, Keymap, MenuAccepted, Tailnet, Unlock, Armed,
       FromArchinstall, FromStage, FromFinalize, FromUser, FromLogin, FromSSH, FromDNS,
       FromFactory
<1>1. CASE Context
  BY <1>0, <1>1, Successors DEF Context, HandsOver
<1>2. CASE Refuse
  BY <1>0, <1>2, Successors DEF Refuse
<1>3. CASE Archinstall
  BY <1>0, <1>3, Successors DEF Archinstall
<1>4. CASE System
  <2>1. boot'.keymap = boot.keymap /\ pc' = "stage"
    BY <1>0, <1>4, Successors DEF System, TypeOK
  <2> QED
    BY <1>0, <1>4, <2>1 DEF System
<1>5. CASE StageProvisioning
  BY <1>0, <1>5, Successors DEF StageProvisioning
<1>6. CASE DeployPrebuilt
  <2>1. /\ menu' = Cmdline' /\ image'.cmdline = Cmdline' /\ image'.keymap = boot'.keymap
        /\ "provisioning.key" \notin root' /\ pc' = "user"
    BY <1>6, Successors DEF DeployPrebuilt, CanDeploy, BootInputsMatch
  <2> QED
    BY <1>0, <1>6, <2>1 DEF DeployPrebuilt
<1>7. CASE RebuildOnTarget
  <2>1. UNCHANGED <<input, root, boot>> /\ pc' = "user" /\ Cmdline' = Cmdline
    BY <1>7, Successors DEF RebuildOnTarget
  <2>2. menu' = Cmdline'
    BY <1>7, <2>1 DEF RebuildOnTarget
  <2>3. ASSUME image'.kind # "none"
        PROVE  /\ image'.cmdline = Cmdline /\ image'.keymap = boot.keymap
               /\ image'.kind = "rebuilt" /\ (image'.embedded <=> "files-dropin" \in root)
    <3>1. PICK opens \in BOOLEAN :
            image' = Image("rebuilt", Cmdline, opens, "files-dropin" \in root, boot.keymap)
      <4>1. image' # NoImage
        BY <2>3 DEF NoImage
      <4> QED
        BY <1>7, <4>1 DEF RebuildOnTarget
    <3>2. /\ image'.kind = "rebuilt" /\ image'.cmdline = Cmdline
          /\ image'.keymap = boot.keymap
      BY <3>1
    <3>3. image'.embedded <=> "files-dropin" \in root
      BY <3>1, Zenon
    <3> QED
      BY <3>2, <3>3
  <2> QED
    <3> HIDE DEF Cmdline, Image
    <3>1. pc' \in FromArchinstall => boot'.keymap = Keymap'
      BY <1>0, <1>7, <2>1 DEF RebuildOnTarget
    <3>2. image'.kind # "none" =>
            /\ image'.cmdline = Cmdline' /\ image'.keymap = boot'.keymap
            /\ "provisioning.key" \in root' =>
                  image'.kind = "rebuilt" /\ (image'.embedded <=> "files-dropin" \in root')
      BY <2>1, <2>3, Zenon
    <3>3. pc' \notin FromFactory
      BY <2>1
    <3> QED
      BY <2>2, <3>1, <3>2, <3>3, Zenon DEF Booting
<1>8. CASE FinalizeUser
  BY <1>0, <1>8, Successors DEF FinalizeUser
<1>9. CASE ConfigureLogin
  BY <1>0, <1>9, Successors DEF ConfigureLogin
<1>10. CASE ConfigureSSH
  BY <1>0, <1>10, Successors DEF ConfigureSSH
<1>11. CASE ConfigureTailscale
  BY <1>0, <1>11, Successors DEF ConfigureTailscale
<1>12. CASE ConfigureDNS
  BY <1>0, <1>12, Successors DEF ConfigureDNS
<1>13. CASE ValidateBoot
  BY <1>0, <1>13, Successors DEF ValidateBoot
<1>14. CASE SkipFactory
  BY <1>0, <1>14, Successors DEF SkipFactory
<1>15. CASE DeleteOldFactory
  BY <1>0, <1>15, Successors DEF DeleteOldFactory
<1>16. CASE Snapshot
  BY <1>0, <1>16, Successors DEF Snapshot
<1>17. CASE Scrub
  BY <1>0, <1>17, Successors DEF Scrub
<1>18. CASE Seal
  BY <1>0, <1>18, Successors DEF Seal
<1>19. CASE PhaseFails
  BY <1>0, <1>19, Successors DEF PhaseFails
<1>20. CASE UNCHANGED vars
  BY <1>0, <1>20 DEF vars
<1> QED
  BY <1>1, <1>2, <1>3, <1>4, <1>5, <1>6, <1>7, <1>8, <1>9, <1>10, <1>11, <1>12, <1>13,
         <1>14, <1>15, <1>16, <1>17, <1>18, <1>19, <1>20 DEF Next

(* Every step keeps the access that was asked for. *)
LEMMA StepReached == IInv /\ [Next]_vars => Reached'
<1> SUFFICES ASSUME IInv, [Next]_vars PROVE Reached'
  OBVIOUS
<1>0. TypeOK /\ Keyed /\ Peopled /\ Booting /\ Reached /\ Kept
  BY DEF IInv
<1> USE DEF Reached, Tailnet, Unlock, Armed, FromArchinstall, FromStage, FromFinalize,
       FromUser, FromLogin, FromSSH, FromDNS, FromFactory
<1>1. CASE Context
  BY <1>0, <1>1, Successors DEF Context, HandsOver
<1>2. CASE Refuse
  BY <1>0, <1>2, Successors DEF Refuse
<1>3. CASE Archinstall
  BY <1>0, <1>3, Successors DEF Archinstall
<1>4. CASE System
  BY <1>0, <1>4, Successors DEF System
<1>5. CASE StageProvisioning
  BY <1>0, <1>5, Successors DEF StageProvisioning
<1>6. CASE DeployPrebuilt
  BY <1>0, <1>6, Successors DEF DeployPrebuilt
<1>7. CASE RebuildOnTarget
  BY <1>0, <1>7, Successors DEF RebuildOnTarget
<1>8. CASE FinalizeUser
  BY <1>0, <1>8, Successors DEF FinalizeUser
<1>9. CASE ConfigureLogin
  BY <1>0, <1>9, Successors DEF ConfigureLogin
<1>10. CASE ConfigureSSH
  BY <1>0, <1>10, Successors DEF ConfigureSSH
<1>11. CASE ConfigureTailscale
  BY <1>0, <1>11, Successors DEF ConfigureTailscale
<1>12. CASE ConfigureDNS
  BY <1>0, <1>12, Successors DEF ConfigureDNS
<1>13. CASE ValidateBoot
  BY <1>0, <1>13, Successors DEF ValidateBoot
<1>14. CASE SkipFactory
  BY <1>0, <1>14, Successors DEF SkipFactory
<1>15. CASE DeleteOldFactory
  BY <1>0, <1>15, Successors DEF DeleteOldFactory
<1>16. CASE Snapshot
  BY <1>0, <1>16, Successors DEF Snapshot
<1>17. CASE Scrub
  BY <1>0, <1>17, Successors DEF Scrub
<1>18. CASE Seal
  BY <1>0, <1>18, Successors DEF Seal
<1>19. CASE PhaseFails
  BY <1>0, <1>19, Successors DEF PhaseFails
<1>20. CASE UNCHANGED vars
  BY <1>0, <1>20 DEF vars
<1> QED
  BY <1>1, <1>2, <1>3, <1>4, <1>5, <1>6, <1>7, <1>8, <1>9, <1>10, <1>11, <1>12, <1>13,
         <1>14, <1>15, <1>16, <1>17, <1>18, <1>19, <1>20 DEF Next

(* Every step keeps the factory image apart from the secrets. *)
LEMMA StepKept == IInv /\ [Next]_vars => Kept'
<1> SUFFICES ASSUME IInv, [Next]_vars PROVE Kept'
  OBVIOUS
<1>0. TypeOK /\ Keyed /\ Peopled /\ Booting /\ Reached /\ Kept
  BY DEF IInv
<1> USE DEF Kept, Peopled, Factory, NoFactory, Unscrubbed, FromArchinstall, FromStage,
       FromFinalize, FromUser, FromLogin, FromSSH, FromDNS, FromFactory
<1>1. CASE Context
  BY <1>0, <1>1, Successors DEF Context, HandsOver
<1>2. CASE Refuse
  BY <1>0, <1>2, Successors DEF Refuse
<1>3. CASE Archinstall
  BY <1>0, <1>3, Successors DEF Archinstall
<1>4. CASE System
  BY <1>0, <1>4, Successors DEF System
<1>5. CASE StageProvisioning
  BY <1>0, <1>5, Successors DEF StageProvisioning
<1>6. CASE DeployPrebuilt
  BY <1>0, <1>6, Successors DEF DeployPrebuilt
<1>7. CASE RebuildOnTarget
  BY <1>0, <1>7, Successors DEF RebuildOnTarget
<1>8. CASE FinalizeUser
  BY <1>0, <1>8, Successors DEF FinalizeUser
<1>9. CASE ConfigureLogin
  BY <1>0, <1>9, Successors DEF ConfigureLogin
<1>10. CASE ConfigureSSH
  BY <1>0, <1>10, Successors DEF ConfigureSSH
<1>11. CASE ConfigureTailscale
  BY <1>0, <1>11, Successors DEF ConfigureTailscale
<1>12. CASE ConfigureDNS
  BY <1>0, <1>12, Successors DEF ConfigureDNS
<1>13. CASE ValidateBoot
  BY <1>0, <1>13, Successors DEF ValidateBoot
<1>14. CASE SkipFactory
  BY <1>0, <1>14, Successors DEF SkipFactory
<1>15. CASE DeleteOldFactory
  BY <1>0, <1>15, Successors DEF DeleteOldFactory
<1>16. CASE Snapshot
  BY <1>0, <1>16, Successors DEF Snapshot
<1>17. CASE Scrub
  <2>1. CASE Unscrubbed = {} /\ pc' = After[pc] /\ factory' = factory
    <3>1. factory.files \cap Scrubbed = {}
      BY <2>1 DEF Scrubbed
    <3>2. pc' = "seal" /\ factory' = factory
      BY <1>17, <2>1, Successors DEF Scrub
    <3> QED
      BY <1>0, <1>17, <3>1, <3>2 DEF Scrub
  <2>2. ASSUME NEW i \in Unscrubbed, pc' = pc,
               factory' = [factory EXCEPT !.files = @ \ {FACTORY_SCRUB_PATHS[i]}]
        PROVE  Kept'
    <3>1. FACTORY_SCRUB_PATHS[i] # "node-tarball"
      BY ScrubTable
    <3>2. /\ factory'.of = factory.of /\ factory'.state = factory.state
          /\ factory'.files = factory.files \ {FACTORY_SCRUB_PATHS[i]}
      BY <1>0, <2>2 DEF TypeOK
    <3> QED
      BY <1>0, <1>17, <2>2, <3>1, <3>2 DEF Scrub
  <2> QED
    BY <1>17, <2>1, <2>2 DEF Scrub
<1>18. CASE Seal
  BY <1>0, <1>18, Successors DEF Seal
<1>19. CASE PhaseFails
  BY <1>0, <1>19, Successors DEF PhaseFails
<1>20. CASE UNCHANGED vars
  BY <1>0, <1>20 DEF vars
<1> QED
  BY <1>1, <1>2, <1>3, <1>4, <1>5, <1>6, <1>7, <1>8, <1>9, <1>10, <1>11, <1>12, <1>13,
         <1>14, <1>15, <1>16, <1>17, <1>18, <1>19, <1>20 DEF Next

(* What a fresh target and a rig's leave to start from. *)
LEMMA InitIInv == Init => IInv
<1> SUFFICES ASSUME Init PROVE IInv
  OBVIOUS
<1>1. TypeOK
  BY Successors DEF Init, TypeOK, Passphrases, RootFiles, BootInputs, NoImage, Image,
     NoFactory, Factory
<1>2. Keyed /\ Booting
  BY InputFields DEF Init, Keyed, Booting, Encrypted, FromArchinstall, FromStage,
         FromFinalize,
     FromUser, FromLogin, FromSSH, FromDNS, FromFactory
<1>3. Peopled /\ Reached
  BY DEF Init, Peopled, Reached, FromStage, FromFinalize, FromUser, FromLogin, FromSSH,
     FromDNS, FromFactory
<1>4. Kept
  BY DEF Init, Kept, NoFactory, Factory
<1> QED
  BY <1>1, <1>2, <1>3, <1>4 DEF IInv

(* The strengthening is an invariant. *)
THEOREM IInvInvariant == Spec => []IInv
<1>1. IInv /\ [Next]_vars => IInv'
  BY StepTypeOK, StepKeyed, StepPeopled, StepBooting, StepReached, StepKept DEF IInv
<1> QED
  BY InitIInv, <1>1, PTL DEF Spec

(* The variables keep their types, and a staged key file is never empty. *)
THEOREM TypeCorrect == Spec => []TypeOK
<1>1. IInv => TypeOK
  BY DEF IInv
<1> QED
  BY IInvInvariant, <1>1, PTL

(* A finished install has an account or an armed first boot, never both. *)
THEOREM Owned == Spec => []ReadyForItsOwner
<1>1. IInv => ReadyForItsOwner
  <2>1. pc = "done" => pc \in FromStage /\ pc \in FromUser /\ pc \in FromLogin
    BY DEF FromStage, FromFinalize, FromUser, FromLogin, FromSSH, FromDNS, FromFactory
  <2> QED
    BY <2>1 DEF IInv, ReadyForItsOwner, Peopled
<1> QED
  BY IInvInvariant, <1>1, PTL

(* A deferred encrypted install opens its root with the passphrase of the slot. *)
THEOREM Unattended == Spec => []OpensUnattended
<1>1. IInv => OpensUnattended
  <2> SUFFICES ASSUME IInv, pc = "done", input.deferred, Encrypted, input.uefi
               PROVE  /\ key = slot /\ slot # "none"
                      /\ Unlock \subseteq root
                      /\ image.kind = "rebuilt" /\ image.embedded
                      /\ "cryptkey=" \in image.cmdline \cap menu
    BY DEF OpensUnattended
  <2>0. TypeOK /\ Keyed /\ Peopled /\ Booting
    BY DEF IInv
  <2>1. pc \in FromArchinstall /\ pc \in FromStage /\ pc \in FromFinalize /\ pc \in
       FromFactory
    BY DEF FromArchinstall, FromStage, FromFinalize, FromUser, FromLogin, FromSSH, FromDNS,
       FromFactory
  <2>2. Unlock \subseteq root
    BY <2>0, <2>1 DEF Peopled
  <2>3. key = slot /\ key # "none"
    <3>1. key = Password /\ key # "none"
      BY <2>0, <2>1 DEF Keyed
    <3>2. CASE input.luks = "disk"
      BY <2>0, <2>1, <3>1, <3>2 DEF Keyed, Password, Injected
    <3>3. CASE input.luks = "mounted"
      <4>1. Password = input.credPass /\ slot = "rigB"
        BY <2>0, <2>1, <3>3 DEF Keyed, Password
      <4>2. input.credPass \in {"none", "rigB"}
        BY <2>0 DEF TypeOK, Inputs
      <4> QED
        BY <3>1, <4>1, <4>2
    <3> QED
      BY <2>0, <3>2, <3>3, InputFields DEF Encrypted, TypeOK
  <2>4. image.kind # "none" /\ "provisioning.key" \in root /\ "files-dropin" \in root
        /\ "cmdline-dropin" \in root
    BY <2>0, <2>1, <2>2 DEF Booting, Unlock
  <2>5. image.kind = "rebuilt" /\ image.embedded /\ image.cmdline = Cmdline /\ menu =
       Cmdline
    BY <2>0, <2>1, <2>4 DEF Booting
  <2>6. "cryptkey=" \in Cmdline
    BY <2>4 DEF Cmdline
  <2> QED
    BY <2>2, <2>3, <2>5, <2>6
<1> QED
  BY IInvInvariant, <1>1, PTL

(* What boots is what was configured. *)
THEOREM Configured == Spec => []BootsItsConfiguration
<1>1. IInv => BootsItsConfiguration
  <2> SUFFICES ASSUME IInv, pc = "done"
               PROVE  /\ menu = Cmdline
                      /\ input.uefi => /\ image.kind # "none" /\ image.cmdline = Cmdline
                                       /\ Encrypted => image.opens
                                       /\ image.keymap = "other" <=> input.keyboard =
                                            "other"
    BY DEF BootsItsConfiguration
  <2>1. pc \in FromArchinstall /\ pc \in FromFinalize /\ pc \in FromFactory
    BY DEF FromArchinstall, FromStage, FromFinalize, FromUser, FromLogin, FromSSH, FromDNS,
       FromFactory
  <2> QED
    BY <2>1 DEF IInv, Booting, Keymap
<1> QED
  BY IInvInvariant, <1>1, PTL

(* SSH and the tailnet are open with their keys, or closed without. *)
THEOREM Reachable == Spec => []ReachableAsAsked
<1>1. IInv => ReachableAsAsked
  BY DEF IInv, ReachableAsAsked, Reached, FromSSH, FromDNS, FromFactory
<1> QED
  BY IInvInvariant, <1>1, PTL

(* A sealed factory image holds no staged secret, wherever the run stopped. *)
THEOREM NoSecrets == Spec => []FactoryHoldsNoSecrets
<1>1. IInv => FactoryHoldsNoSecrets
  BY ScrubTable DEF IInv, FactoryHoldsNoSecrets, Kept, Secrets
<1> QED
  BY IInvInvariant, <1>1, PTL

(* The factory image is this install's and complete by itself. *)
THEOREM StandsAlone == Spec => []FactoryStandsAlone
<1>1. IInv => FactoryStandsAlone
  BY ScrubTable DEF IInv, FactoryStandsAlone, Kept, Secrets
<1> QED
  BY IInvInvariant, <1>1, PTL
=============================================================================
