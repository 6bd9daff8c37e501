--------------------------- MODULE FreeSpaceProofs ---------------------------
(***************************************************************************)
(* FreeSpace's safety properties for any number of slots and any number of  *)
(* changes by others, provided others do not both add and remove           *)
(* partitions: with both, create_partition can mistake a foreign partition  *)
(* for its own, as the run of FreeSpaceSwap.cfg shows.                      *)
(***************************************************************************)
EXTENDS FreeSpace, TLAPS

NoSwap == \A e \in External : ~({"add", "remove"} \subseteq e)

Formatting == {"flag", "wait", "wipeEfi", "wipeRoot", "luksFormat", "luksOpen",
               "mkfs", "mountTmp", "umountTmp", "mountTarget", "mkfat",
               "mountEsp", "check"}

(***************************************************************************)
(* What the run has made is what one of the two lists names.  Between       *)
(* mkpart and the second read there is one partition more, and nothing that *)
(* others may do hides it or passes for it.                                *)
(***************************************************************************)
ListInv ==
  /\ created \subseteq Ours
  /\ handoff \subseteq Ours
  /\ pc \in {"install", "installed", "clUmount", "clClose", "clRemove", "failed",
             "elsewhere"} => created = {}
  /\ pc \notin {"install", "installed", "clUmount", "clClose", "clRemove"}
       => handoff = {}
  /\ pc \in {"aborted", "failed"} => created = {} /\ handoff = {}
  /\ (pc # "after" /\ (~excused \/ pc \in Planning \cup Failing
                         \cup {"umountTmp", "install", "installed"}))
       => Ours = created \cup handoff

MkPartInv ==
  pc = "mkpart" =>
    /\ "remove" \notin others => before \subseteq Used
    /\ "add" \notin others => Used \subseteq before

AfterInv ==
  pc = "after" =>
    \E n \in Ours \ created :
      /\ Ours = created \cup {n}
      /\ "remove" \notin others => n \notin before
      /\ "add" \notin others => Used \ before \subseteq {n}

\* Which partitions the run has claimed, and by what names.
NameInv ==
  /\ pc \in Planning \cup {"recheck", "mklabel"} => part = "efi"
  /\ pc \in Planning \cup {"recheck", "mklabel", "before", "mkpart", "after"}
       => created = IF part = "efi" THEN {} ELSE {num["efi"]}
  /\ (pc = "size" /\ part = "efi") => created = {num["efi"]}
  /\ (pc = "size" /\ part = "root") \/ pc \in Formatting
       => num["efi"] # num["root"] /\ created = {num["efi"], num["root"]}
  /\ pc \in {"install", "installed"}
       => num["efi"] # num["root"] /\ handoff = {num["efi"], num["root"]}

\* What is still mounted or mapped when no command has failed unnoticed.
HeldInv ==
  /\ pc \in {"install", "installed"} => {"mnt", "esp"} \subseteq held
  /\ ~excused =>
       /\ pc \in {"mountTarget", "mkfat", "mountEsp", "check", "install",
                  "clUmount", "clClose", "clRemove", "rbClose", "rbRemove"}
            => "tmp" \notin held
       /\ pc \in {"rbTmp", "rbClose", "rbRemove", "clClose", "clRemove"}
            => "mnt" \notin held /\ "esp" \notin held
       /\ pc \in {"rbRemove", "clRemove"} => "luks" \notin held

LabelInv == pc = "mklabel" => table = "none"

IInv ==
  /\ TypeOK
  /\ ListInv
  /\ MkPartInv
  /\ AfterInv
  /\ NameInv
  /\ HeldInv
  /\ LabelInv
  /\ TheirsUntouched

\* Every step keeps the types.
LEMMA TypeOKStep ==
  TypeOK /\ NameInv /\ ListInv /\ [Next]_vars
    => TypeOK'
<1> SUFFICES ASSUME TypeOK /\ NameInv /\ ListInv,
                    [Next]_vars
             PROVE  TypeOK'
  OBVIOUS
<1> USE FreeSpaceAssumption DEF TypeOK, Pcs, Planning, Failing, Cleaning,
      Ended, vars, choices, claims, Slots, Used
<1>1. CASE ChooseMode
  BY <1>1 DEF ChooseMode, Goto
<1>2. CASE Decide
  BY <1>2 DEF Decide, Goto
<1>3. CASE Verify
  BY <1>3 DEF Verify, Goto
<1>4. CASE Recheck
  BY <1>4 DEF Recheck, Goto
<1>5. CASE MkLabel
  BY <1>5 DEF MkLabel, Goto
<1>6. CASE ReadBefore
  BY <1>6 DEF ReadBefore, Goto
<1>7. CASE MkPart
  BY <1>7 DEF MkPart, Goto
<1>8. CASE MkPartUnacknowledged
  BY <1>8 DEF MkPartUnacknowledged, Goto
<1>9. CASE Claim
  BY <1>9 DEF Claim, Goto
<1>10. CASE LeaveUnclaimed
  BY <1>10 DEF LeaveUnclaimed, Goto
<1>11. CASE CheckSize
  BY <1>11 DEF CheckSize, Goto
<1>12. CASE FlagEsp
  BY <1>12 DEF FlagEsp, Writes, Goto
<1>13. CASE WaitForDevices
  BY <1>13 DEF WaitForDevices, Goto
<1>14. CASE WipeEfi
  BY <1>14 DEF WipeEfi, Writes, Goto
<1>15. CASE WipeRoot
  BY <1>15 DEF WipeRoot, Writes, Goto
<1>16. CASE LuksFormat
  BY <1>16 DEF LuksFormat, Writes, Goto
<1>17. CASE LuksOpen
  BY <1>17 DEF LuksOpen, Acquires, Goto
<1>18. CASE MakeBtrfs
  BY <1>18 DEF MakeBtrfs, Writes, Goto
<1>19. CASE MountTmp
  BY <1>19 DEF MountTmp, Acquires, Goto
<1>20. CASE UmountTmp
  BY <1>20 DEF UmountTmp, Goto
<1>21. CASE MountTarget
  BY <1>21 DEF MountTarget, Acquires, Goto
<1>22. CASE MakeFat
  BY <1>22 DEF MakeFat, Writes, Goto
<1>23. CASE MountEsp
  BY <1>23 DEF MountEsp, Acquires, Goto
<1>24. CASE HandOff
  <2>1. handoff' = created
    BY <1>24 DEF HandOff, NameInv, Formatting
  <2>2. handoff' \subseteq Slots /\ created' \subseteq Slots
    BY <1>24, <2>1 DEF HandOff
  <2>3. pc' \in Pcs
    BY <1>24 DEF HandOff, Goto
  <2> QED
    BY <1>24, <2>2, <2>3 DEF HandOff, Goto
<1>25. CASE StepFails
  BY <1>25 DEF StepFails, Goto
<1>26. CASE RbUmount
  BY <1>26 DEF RbUmount, Umounts, Goto
<1>27. CASE RbTmp
  BY <1>27 DEF RbTmp, Umounts, Goto
<1>28. CASE RbClose
  BY <1>28 DEF RbClose, Closes, Goto
<1>29. CASE RbRemove
  <2>1. slot' \in [Slots -> {"free", "theirs", "ours"}]
    BY <1>29 DEF RbRemove, RemovesHighest
  <2>2. harm' \in BOOLEAN /\ excused' \in BOOLEAN
    BY <1>29 DEF RbRemove, RemovesHighest
  <2>3. created' \subseteq Slots
    BY <1>29 DEF RbRemove
  <2> QED
    BY <1>29, <2>1, <2>2, <2>3 DEF RbRemove
<1>30. CASE RbEnd
  BY <1>30 DEF RbEnd, Goto
<1>31. CASE InstallSucceeds
  BY <1>31 DEF InstallSucceeds, Goto
<1>32. CASE InstallFails
  BY <1>32 DEF InstallFails, Goto
<1>33. CASE ClUmount
  BY <1>33 DEF ClUmount, Umounts, Goto
<1>34. CASE ClClose
  BY <1>34 DEF ClClose, Closes, Goto
<1>35. CASE ClRemove
  <2>1. slot' \in [Slots -> {"free", "theirs", "ours"}]
    BY <1>35 DEF ClRemove, RemovesHighest
  <2>2. harm' \in BOOLEAN /\ excused' \in BOOLEAN
    BY <1>35 DEF ClRemove, RemovesHighest
  <2>3. handoff' \subseteq Slots
    BY <1>35 DEF ClRemove
  <2> QED
    BY <1>35, <2>1, <2>2, <2>3 DEF ClRemove
<1>36. CASE ClEnd
  BY <1>36 DEF ClEnd, Goto
<1>37. CASE ExternalAdd
  <2>1. meddled' \in 0..MaxExternal
    BY <1>37 DEF ExternalAdd, Meddle
  <2> QED
    BY <1>37, <2>1 DEF ExternalAdd, Meddle
<1>38. CASE ExternalRemove
  <2>1. meddled' \in 0..MaxExternal
    BY <1>38 DEF ExternalRemove, Meddle
  <2> QED
    BY <1>38, <2>1 DEF ExternalRemove, Meddle
<1>39. CASE ExternalRelabel
  <2>1. meddled' \in 0..MaxExternal
    BY <1>39 DEF ExternalRelabel, Meddle
  <2> QED
    BY <1>39, <2>1 DEF ExternalRelabel, Meddle
<1>40. CASE UNCHANGED vars
  BY <1>40
<1> QED
  BY <1>1, <1>2, <1>3, <1>4, <1>5, <1>6, <1>7, <1>8, <1>9, <1>10, <1>11,
     <1>12, <1>13, <1>14, <1>15, <1>16, <1>17, <1>18, <1>19, <1>20, <1>21,
     <1>22, <1>23, <1>24, <1>25, <1>26, <1>27, <1>28, <1>29, <1>30, <1>31,
     <1>32, <1>33, <1>34, <1>35, <1>36, <1>37, <1>38, <1>39, <1>40 DEF Next

\* Every step keeps the lists and the partitions of the run in agreement.
LEMMA ListInvStep ==
  NoSwap /\ TypeOK /\ ListInv /\ AfterInv /\ NameInv /\ HeldInv /\ [Next]_vars
    => ListInv'
<1> SUFFICES ASSUME NoSwap /\ TypeOK /\ ListInv /\ AfterInv /\ NameInv /\ HeldInv,
                    [Next]_vars
             PROVE  ListInv'
  OBVIOUS
<1> USE FreeSpaceAssumption DEF TypeOK, Pcs, Planning, Failing, Cleaning,
      Ended, vars, choices, claims, NoSwap, ListInv, NameInv, Ours, Used,
      Slots
<1>1. CASE ChooseMode
  BY <1>1 DEF ChooseMode, Goto
<1>2. CASE Decide
  BY <1>2 DEF Decide, Goto
<1>3. CASE Verify
  BY <1>3 DEF Verify, Goto
<1>4. CASE Recheck
  BY <1>4 DEF Recheck, Goto
<1>5. CASE MkLabel
  BY <1>5 DEF MkLabel, Goto
<1>6. CASE ReadBefore
  BY <1>6 DEF ReadBefore, Goto
<1>7. CASE MkPart
  BY <1>7 DEF MkPart, Goto
<1>8. CASE MkPartUnacknowledged
  BY <1>8 DEF MkPartUnacknowledged, Goto
<1>9. CASE Claim
  <2>1. PICK n \in Ours \ created :
          /\ Ours = created \cup {n}
          /\ "remove" \notin others => n \notin before
          /\ "add" \notin others => Used \ before \subseteq {n}
    BY <1>9 DEF Claim, AfterInv
  <2>2. PICK m \in Slots :
          /\ before \subseteq Used
          /\ Used \ before = {m}
          /\ created' = created \cup {m}
    BY <1>9 DEF Claim
  <2>3. m = n
    BY <2>1, <2>2
  <2>4. /\ pc = "after" /\ pc' = "size"
        /\ slot' = slot /\ handoff' = handoff
    BY <1>9 DEF Claim, Goto
  <2>5. created' = Ours /\ handoff' = {}
    <3> HIDE DEF Ours, Used
    <3> QED
      BY <2>1, <2>2, <2>3, <2>4
  <2>6. Ours' = Ours
    BY <2>4
  <2> HIDE DEF Ours, Used
  <2> QED
    BY <2>4, <2>5, <2>6
<1>10. CASE LeaveUnclaimed
  BY <1>10 DEF LeaveUnclaimed, Goto
<1>11. CASE CheckSize
  BY <1>11 DEF CheckSize, Goto
<1>12. CASE FlagEsp
  BY <1>12 DEF FlagEsp, Writes, Goto
<1>13. CASE WaitForDevices
  BY <1>13 DEF WaitForDevices, Goto
<1>14. CASE WipeEfi
  BY <1>14 DEF WipeEfi, Writes, Goto
<1>15. CASE WipeRoot
  BY <1>15 DEF WipeRoot, Writes, Goto
<1>16. CASE LuksFormat
  BY <1>16 DEF LuksFormat, Writes, Goto
<1>17. CASE LuksOpen
  BY <1>17 DEF LuksOpen, Acquires, Goto
<1>18. CASE MakeBtrfs
  BY <1>18 DEF MakeBtrfs, Writes, Goto
<1>19. CASE MountTmp
  BY <1>19 DEF MountTmp, Acquires, Goto
<1>20. CASE UmountTmp
  BY <1>20 DEF UmountTmp, Goto
<1>21. CASE MountTarget
  BY <1>21 DEF MountTarget, Acquires, Goto
<1>22. CASE MakeFat
  BY <1>22 DEF MakeFat, Writes, Goto
<1>23. CASE MountEsp
  BY <1>23 DEF MountEsp, Acquires, Goto
<1>24. CASE HandOff
  <2>1. handoff' = created /\ created' = {} /\ Ours = created
    BY <1>24 DEF HandOff, Formatting
  <2> QED
    BY <1>24, <2>1 DEF HandOff, Goto
<1>25. CASE StepFails
  BY <1>25 DEF StepFails, Goto
<1>26. CASE RbUmount
  BY <1>26 DEF RbUmount, Umounts, Goto
<1>27. CASE RbTmp
  BY <1>27 DEF RbTmp, Umounts, Goto
<1>28. CASE RbClose
  BY <1>28 DEF RbClose, Closes, Goto
<1>29. CASE RbRemove
  <2> PICK n \in created : RemovesHighest(created, n) /\ created' = created \ {n}
    BY <1>29 DEF RbRemove
  <2>1. CASE excused' = TRUE /\ UNCHANGED <<slot, harm>>
    BY <1>29, <2>1 DEF RbRemove
  <2>2. CASE Busy(n) /\ UNCHANGED <<slot, harm, excused>>
    BY <1>29, <2>2 DEF RbRemove, Busy, HeldInv
  <2>3. CASE slot' = [slot EXCEPT ![n] = "free"] /\ UNCHANGED excused
    <3>1. Ours' = Ours \ {n}
      BY <2>3
    <3> QED
      BY <1>29, <2>3, <3>1 DEF RbRemove
  <2> QED
    BY <2>1, <2>2, <2>3 DEF RemovesHighest
<1>30. CASE RbEnd
  BY <1>30 DEF RbEnd, Goto
<1>31. CASE InstallSucceeds
  BY <1>31 DEF InstallSucceeds, Goto
<1>32. CASE InstallFails
  BY <1>32 DEF InstallFails, Goto
<1>33. CASE ClUmount
  BY <1>33 DEF ClUmount, Umounts, Goto
<1>34. CASE ClClose
  BY <1>34 DEF ClClose, Closes, Goto
<1>35. CASE ClRemove
  <2> PICK n \in handoff : RemovesHighest(handoff, n) /\ handoff' = handoff \ {n}
    BY <1>35 DEF ClRemove
  <2>1. CASE excused' = TRUE /\ UNCHANGED <<slot, harm>>
    BY <1>35, <2>1 DEF ClRemove
  <2>2. CASE Busy(n) /\ UNCHANGED <<slot, harm, excused>>
    BY <1>35, <2>2 DEF ClRemove, Busy, HeldInv
  <2>3. CASE slot' = [slot EXCEPT ![n] = "free"] /\ UNCHANGED excused
    <3>1. Ours' = Ours \ {n}
      BY <2>3
    <3> QED
      BY <1>35, <2>3, <3>1 DEF ClRemove
  <2> QED
    BY <2>1, <2>2, <2>3 DEF RemovesHighest
<1>36. CASE ClEnd
  BY <1>36 DEF ClEnd, Goto
<1>37. CASE ExternalAdd
  BY <1>37 DEF ExternalAdd, Meddle
<1>38. CASE ExternalRemove
  BY <1>38 DEF ExternalRemove, Meddle
<1>39. CASE ExternalRelabel
  BY <1>39 DEF ExternalRelabel, Meddle
<1>40. CASE UNCHANGED vars
  BY <1>40
<1> QED
  BY <1>1, <1>2, <1>3, <1>4, <1>5, <1>6, <1>7, <1>8, <1>9, <1>10, <1>11,
     <1>12, <1>13, <1>14, <1>15, <1>16, <1>17, <1>18, <1>19, <1>20, <1>21,
     <1>22, <1>23, <1>24, <1>25, <1>26, <1>27, <1>28, <1>29, <1>30, <1>31,
     <1>32, <1>33, <1>34, <1>35, <1>36, <1>37, <1>38, <1>39, <1>40 DEF Next

\* What others do before mkpart moves the slots in use in one direction only.
LEMMA MkPartInvStep ==
  TypeOK /\ MkPartInv /\ [Next]_vars
    => MkPartInv'
<1> SUFFICES ASSUME TypeOK /\ MkPartInv,
                    [Next]_vars
             PROVE  MkPartInv'
  OBVIOUS
<1> USE FreeSpaceAssumption DEF TypeOK, Pcs, Planning, Failing, Cleaning,
      Ended, vars, choices, claims, MkPartInv, Ours, Used, Slots
<1>1. CASE ChooseMode
  BY <1>1 DEF ChooseMode, Goto
<1>2. CASE Decide
  BY <1>2 DEF Decide, Goto
<1>3. CASE Verify
  BY <1>3 DEF Verify, Goto
<1>4. CASE Recheck
  BY <1>4 DEF Recheck, Goto
<1>5. CASE MkLabel
  BY <1>5 DEF MkLabel, Goto
<1>6. CASE ReadBefore
  BY <1>6 DEF ReadBefore, Goto
<1>7. CASE MkPart
  BY <1>7 DEF MkPart, Goto
<1>8. CASE MkPartUnacknowledged
  BY <1>8 DEF MkPartUnacknowledged, Goto
<1>9. CASE Claim
  BY <1>9 DEF Claim, Goto
<1>10. CASE LeaveUnclaimed
  BY <1>10 DEF LeaveUnclaimed, Goto
<1>11. CASE CheckSize
  BY <1>11 DEF CheckSize, Goto
<1>12. CASE FlagEsp
  BY <1>12 DEF FlagEsp, Writes, Goto
<1>13. CASE WaitForDevices
  BY <1>13 DEF WaitForDevices, Goto
<1>14. CASE WipeEfi
  BY <1>14 DEF WipeEfi, Writes, Goto
<1>15. CASE WipeRoot
  BY <1>15 DEF WipeRoot, Writes, Goto
<1>16. CASE LuksFormat
  BY <1>16 DEF LuksFormat, Writes, Goto
<1>17. CASE LuksOpen
  BY <1>17 DEF LuksOpen, Acquires, Goto
<1>18. CASE MakeBtrfs
  BY <1>18 DEF MakeBtrfs, Writes, Goto
<1>19. CASE MountTmp
  BY <1>19 DEF MountTmp, Acquires, Goto
<1>20. CASE UmountTmp
  BY <1>20 DEF UmountTmp, Goto
<1>21. CASE MountTarget
  BY <1>21 DEF MountTarget, Acquires, Goto
<1>22. CASE MakeFat
  BY <1>22 DEF MakeFat, Writes, Goto
<1>23. CASE MountEsp
  BY <1>23 DEF MountEsp, Acquires, Goto
<1>24. CASE HandOff
  BY <1>24 DEF HandOff, Goto
<1>25. CASE StepFails
  BY <1>25 DEF StepFails, Goto
<1>26. CASE RbUmount
  BY <1>26 DEF RbUmount, Umounts, Goto
<1>27. CASE RbTmp
  BY <1>27 DEF RbTmp, Umounts, Goto
<1>28. CASE RbClose
  BY <1>28 DEF RbClose, Closes, Goto
<1>29. CASE RbRemove
  BY <1>29 DEF RbRemove, RemovesHighest, Busy
<1>30. CASE RbEnd
  BY <1>30 DEF RbEnd, Goto
<1>31. CASE InstallSucceeds
  BY <1>31 DEF InstallSucceeds, Goto
<1>32. CASE InstallFails
  BY <1>32 DEF InstallFails, Goto
<1>33. CASE ClUmount
  BY <1>33 DEF ClUmount, Umounts, Goto
<1>34. CASE ClClose
  BY <1>34 DEF ClClose, Closes, Goto
<1>35. CASE ClRemove
  BY <1>35 DEF ClRemove, RemovesHighest, Busy
<1>36. CASE ClEnd
  BY <1>36 DEF ClEnd, Goto
<1>37. CASE ExternalAdd
  BY <1>37 DEF ExternalAdd, Meddle
<1>38. CASE ExternalRemove
  BY <1>38 DEF ExternalRemove, Meddle
<1>39. CASE ExternalRelabel
  BY <1>39 DEF ExternalRelabel, Meddle
<1>40. CASE UNCHANGED vars
  BY <1>40
<1> QED
  BY <1>1, <1>2, <1>3, <1>4, <1>5, <1>6, <1>7, <1>8, <1>9, <1>10, <1>11,
     <1>12, <1>13, <1>14, <1>15, <1>16, <1>17, <1>18, <1>19, <1>20, <1>21,
     <1>22, <1>23, <1>24, <1>25, <1>26, <1>27, <1>28, <1>29, <1>30, <1>31,
     <1>32, <1>33, <1>34, <1>35, <1>36, <1>37, <1>38, <1>39, <1>40 DEF Next

\* After mkpart, exactly one partition of the run is in no list yet.
LEMMA AfterInvStep ==
  TypeOK /\ ListInv /\ MkPartInv /\ AfterInv /\ [Next]_vars
    => AfterInv'
<1> SUFFICES ASSUME TypeOK /\ ListInv /\ MkPartInv /\ AfterInv,
                    [Next]_vars
             PROVE  AfterInv'
  OBVIOUS
<1> USE FreeSpaceAssumption DEF TypeOK, Pcs, Planning, Failing, Cleaning,
      Ended, vars, choices, claims, AfterInv, ListInv, MkPartInv, Ours, Used,
      Slots
<1>1. CASE ChooseMode
  BY <1>1 DEF ChooseMode, Goto
<1>2. CASE Decide
  BY <1>2 DEF Decide, Goto
<1>3. CASE Verify
  BY <1>3 DEF Verify, Goto
<1>4. CASE Recheck
  BY <1>4 DEF Recheck, Goto
<1>5. CASE MkLabel
  BY <1>5 DEF MkLabel, Goto
<1>6. CASE ReadBefore
  BY <1>6 DEF ReadBefore, Goto
<1>7. CASE MkPart
  BY <1>7 DEF MkPart, Goto
<1>8. CASE MkPartUnacknowledged
  BY <1>8 DEF MkPartUnacknowledged, Goto
<1>9. CASE Claim
  BY <1>9 DEF Claim, Goto
<1>10. CASE LeaveUnclaimed
  BY <1>10 DEF LeaveUnclaimed, Goto
<1>11. CASE CheckSize
  BY <1>11 DEF CheckSize, Goto
<1>12. CASE FlagEsp
  BY <1>12 DEF FlagEsp, Writes, Goto
<1>13. CASE WaitForDevices
  BY <1>13 DEF WaitForDevices, Goto
<1>14. CASE WipeEfi
  BY <1>14 DEF WipeEfi, Writes, Goto
<1>15. CASE WipeRoot
  BY <1>15 DEF WipeRoot, Writes, Goto
<1>16. CASE LuksFormat
  BY <1>16 DEF LuksFormat, Writes, Goto
<1>17. CASE LuksOpen
  BY <1>17 DEF LuksOpen, Acquires, Goto
<1>18. CASE MakeBtrfs
  BY <1>18 DEF MakeBtrfs, Writes, Goto
<1>19. CASE MountTmp
  BY <1>19 DEF MountTmp, Acquires, Goto
<1>20. CASE UmountTmp
  BY <1>20 DEF UmountTmp, Goto
<1>21. CASE MountTarget
  BY <1>21 DEF MountTarget, Acquires, Goto
<1>22. CASE MakeFat
  BY <1>22 DEF MakeFat, Writes, Goto
<1>23. CASE MountEsp
  BY <1>23 DEF MountEsp, Acquires, Goto
<1>24. CASE HandOff
  BY <1>24 DEF HandOff, Goto
<1>25. CASE StepFails
  BY <1>25 DEF StepFails, Goto
<1>26. CASE RbUmount
  BY <1>26 DEF RbUmount, Umounts, Goto
<1>27. CASE RbTmp
  BY <1>27 DEF RbTmp, Umounts, Goto
<1>28. CASE RbClose
  BY <1>28 DEF RbClose, Closes, Goto
<1>29. CASE RbRemove
  BY <1>29 DEF RbRemove, RemovesHighest, Busy
<1>30. CASE RbEnd
  BY <1>30 DEF RbEnd, Goto
<1>31. CASE InstallSucceeds
  BY <1>31 DEF InstallSucceeds, Goto
<1>32. CASE InstallFails
  BY <1>32 DEF InstallFails, Goto
<1>33. CASE ClUmount
  BY <1>33 DEF ClUmount, Umounts, Goto
<1>34. CASE ClClose
  BY <1>34 DEF ClClose, Closes, Goto
<1>35. CASE ClRemove
  BY <1>35 DEF ClRemove, RemovesHighest, Busy
<1>36. CASE ClEnd
  BY <1>36 DEF ClEnd, Goto
<1>37. CASE ExternalAdd
  BY <1>37 DEF ExternalAdd, Meddle
<1>38. CASE ExternalRemove
  BY <1>38 DEF ExternalRemove, Meddle
<1>39. CASE ExternalRelabel
  BY <1>39 DEF ExternalRelabel, Meddle
<1>40. CASE UNCHANGED vars
  BY <1>40
<1> QED
  BY <1>1, <1>2, <1>3, <1>4, <1>5, <1>6, <1>7, <1>8, <1>9, <1>10, <1>11,
     <1>12, <1>13, <1>14, <1>15, <1>16, <1>17, <1>18, <1>19, <1>20, <1>21,
     <1>22, <1>23, <1>24, <1>25, <1>26, <1>27, <1>28, <1>29, <1>30, <1>31,
     <1>32, <1>33, <1>34, <1>35, <1>36, <1>37, <1>38, <1>39, <1>40 DEF Next

\* Every step keeps the names of the claimed partitions right.
LEMMA NameInvStep ==
  NoSwap /\ TypeOK /\ ListInv /\ AfterInv /\ NameInv /\ [Next]_vars
    => NameInv'
<1> SUFFICES ASSUME NoSwap /\ TypeOK /\ ListInv /\ AfterInv /\ NameInv,
                    [Next]_vars
             PROVE  NameInv'
  OBVIOUS
<1> USE FreeSpaceAssumption DEF TypeOK, Pcs, Planning, Failing, Cleaning,
      Ended, vars, choices, claims, Formatting, NoSwap, NameInv, ListInv
<1>1. CASE ChooseMode
  BY <1>1 DEF ChooseMode, Goto
<1>2. CASE Decide
  BY <1>2 DEF Decide, Goto
<1>3. CASE Verify
  BY <1>3 DEF Verify, Goto
<1>4. CASE Recheck
  BY <1>4 DEF Recheck, Goto
<1>5. CASE MkLabel
  BY <1>5 DEF MkLabel, Goto
<1>6. CASE ReadBefore
  BY <1>6 DEF ReadBefore, Goto
<1>7. CASE MkPart
  BY <1>7 DEF MkPart, Goto
<1>8. CASE MkPartUnacknowledged
  BY <1>8 DEF MkPartUnacknowledged, Goto
<1>9. CASE Claim
  BY <1>9 DEF Claim, Goto, AfterInv, Ours, Used, Slots
<1>10. CASE LeaveUnclaimed
  BY <1>10 DEF LeaveUnclaimed, Goto
<1>11. CASE CheckSize
  BY <1>11 DEF CheckSize, Goto
<1>12. CASE FlagEsp
  BY <1>12 DEF FlagEsp, Writes, Goto
<1>13. CASE WaitForDevices
  BY <1>13 DEF WaitForDevices, Goto
<1>14. CASE WipeEfi
  BY <1>14 DEF WipeEfi, Writes, Goto
<1>15. CASE WipeRoot
  BY <1>15 DEF WipeRoot, Writes, Goto
<1>16. CASE LuksFormat
  BY <1>16 DEF LuksFormat, Writes, Goto
<1>17. CASE LuksOpen
  BY <1>17 DEF LuksOpen, Acquires, Goto
<1>18. CASE MakeBtrfs
  BY <1>18 DEF MakeBtrfs, Writes, Goto
<1>19. CASE MountTmp
  BY <1>19 DEF MountTmp, Acquires, Goto
<1>20. CASE UmountTmp
  BY <1>20 DEF UmountTmp, Goto
<1>21. CASE MountTarget
  BY <1>21 DEF MountTarget, Acquires, Goto
<1>22. CASE MakeFat
  BY <1>22 DEF MakeFat, Writes, Goto
<1>23. CASE MountEsp
  BY <1>23 DEF MountEsp, Acquires, Goto
<1>24. CASE HandOff
  BY <1>24 DEF HandOff, Goto
<1>25. CASE StepFails
  BY <1>25 DEF StepFails, Goto
<1>26. CASE RbUmount
  BY <1>26 DEF RbUmount, Umounts, Goto
<1>27. CASE RbTmp
  BY <1>27 DEF RbTmp, Umounts, Goto
<1>28. CASE RbClose
  BY <1>28 DEF RbClose, Closes, Goto
<1>29. CASE RbRemove
  BY <1>29 DEF RbRemove, RemovesHighest, Busy
<1>30. CASE RbEnd
  BY <1>30 DEF RbEnd, Goto
<1>31. CASE InstallSucceeds
  BY <1>31 DEF InstallSucceeds, Goto
<1>32. CASE InstallFails
  BY <1>32 DEF InstallFails, Goto
<1>33. CASE ClUmount
  BY <1>33 DEF ClUmount, Umounts, Goto
<1>34. CASE ClClose
  BY <1>34 DEF ClClose, Closes, Goto
<1>35. CASE ClRemove
  BY <1>35 DEF ClRemove, RemovesHighest, Busy
<1>36. CASE ClEnd
  BY <1>36 DEF ClEnd, Goto
<1>37. CASE ExternalAdd
  BY <1>37 DEF ExternalAdd, Meddle
<1>38. CASE ExternalRemove
  BY <1>38 DEF ExternalRemove, Meddle
<1>39. CASE ExternalRelabel
  BY <1>39 DEF ExternalRelabel, Meddle
<1>40. CASE UNCHANGED vars
  BY <1>40
<1> QED
  BY <1>1, <1>2, <1>3, <1>4, <1>5, <1>6, <1>7, <1>8, <1>9, <1>10, <1>11,
     <1>12, <1>13, <1>14, <1>15, <1>16, <1>17, <1>18, <1>19, <1>20, <1>21,
     <1>22, <1>23, <1>24, <1>25, <1>26, <1>27, <1>28, <1>29, <1>30, <1>31,
     <1>32, <1>33, <1>34, <1>35, <1>36, <1>37, <1>38, <1>39, <1>40 DEF Next

\* A rollback command that worked released what it names.
LEMMA HeldInvStep ==
  TypeOK /\ HeldInv /\ [Next]_vars
    => HeldInv'
<1> SUFFICES ASSUME TypeOK /\ HeldInv,
                    [Next]_vars
             PROVE  HeldInv'
  OBVIOUS
<1> USE FreeSpaceAssumption DEF TypeOK, Pcs, Planning, Failing, Cleaning,
      Ended, vars, choices, claims, HeldInv
<1>1. CASE ChooseMode
  BY <1>1 DEF ChooseMode, Goto
<1>2. CASE Decide
  BY <1>2 DEF Decide, Goto
<1>3. CASE Verify
  BY <1>3 DEF Verify, Goto
<1>4. CASE Recheck
  BY <1>4 DEF Recheck, Goto
<1>5. CASE MkLabel
  BY <1>5 DEF MkLabel, Goto
<1>6. CASE ReadBefore
  BY <1>6 DEF ReadBefore, Goto
<1>7. CASE MkPart
  BY <1>7 DEF MkPart, Goto
<1>8. CASE MkPartUnacknowledged
  BY <1>8 DEF MkPartUnacknowledged, Goto
<1>9. CASE Claim
  BY <1>9 DEF Claim, Goto
<1>10. CASE LeaveUnclaimed
  BY <1>10 DEF LeaveUnclaimed, Goto
<1>11. CASE CheckSize
  BY <1>11 DEF CheckSize, Goto
<1>12. CASE FlagEsp
  BY <1>12 DEF FlagEsp, Writes, Goto
<1>13. CASE WaitForDevices
  BY <1>13 DEF WaitForDevices, Goto
<1>14. CASE WipeEfi
  BY <1>14 DEF WipeEfi, Writes, Goto
<1>15. CASE WipeRoot
  BY <1>15 DEF WipeRoot, Writes, Goto
<1>16. CASE LuksFormat
  BY <1>16 DEF LuksFormat, Writes, Goto
<1>17. CASE LuksOpen
  BY <1>17 DEF LuksOpen, Acquires, Goto
<1>18. CASE MakeBtrfs
  BY <1>18 DEF MakeBtrfs, Writes, Goto
<1>19. CASE MountTmp
  BY <1>19 DEF MountTmp, Acquires, Goto
<1>20. CASE UmountTmp
  BY <1>20 DEF UmountTmp, Goto
<1>21. CASE MountTarget
  BY <1>21 DEF MountTarget, Acquires, Goto
<1>22. CASE MakeFat
  BY <1>22 DEF MakeFat, Writes, Goto
<1>23. CASE MountEsp
  BY <1>23 DEF MountEsp, Acquires, Goto
<1>24. CASE HandOff
  BY <1>24 DEF HandOff, Goto
<1>25. CASE StepFails
  BY <1>25 DEF StepFails, Goto
<1>26. CASE RbUmount
  BY <1>26 DEF RbUmount, Umounts, Goto
<1>27. CASE RbTmp
  BY <1>27 DEF RbTmp, Umounts, Goto
<1>28. CASE RbClose
  BY <1>28 DEF RbClose, Closes, Goto
<1>29. CASE RbRemove
  BY <1>29 DEF RbRemove, RemovesHighest, Busy
<1>30. CASE RbEnd
  BY <1>30 DEF RbEnd, Goto
<1>31. CASE InstallSucceeds
  BY <1>31 DEF InstallSucceeds, Goto
<1>32. CASE InstallFails
  BY <1>32 DEF InstallFails, Goto
<1>33. CASE ClUmount
  BY <1>33 DEF ClUmount, Umounts, Goto
<1>34. CASE ClClose
  BY <1>34 DEF ClClose, Closes, Goto
<1>35. CASE ClRemove
  BY <1>35 DEF ClRemove, RemovesHighest, Busy
<1>36. CASE ClEnd
  BY <1>36 DEF ClEnd, Goto
<1>37. CASE ExternalAdd
  BY <1>37 DEF ExternalAdd, Meddle
<1>38. CASE ExternalRemove
  BY <1>38 DEF ExternalRemove, Meddle
<1>39. CASE ExternalRelabel
  BY <1>39 DEF ExternalRelabel, Meddle
<1>40. CASE UNCHANGED vars
  BY <1>40
<1> QED
  BY <1>1, <1>2, <1>3, <1>4, <1>5, <1>6, <1>7, <1>8, <1>9, <1>10, <1>11,
     <1>12, <1>13, <1>14, <1>15, <1>16, <1>17, <1>18, <1>19, <1>20, <1>21,
     <1>22, <1>23, <1>24, <1>25, <1>26, <1>27, <1>28, <1>29, <1>30, <1>31,
     <1>32, <1>33, <1>34, <1>35, <1>36, <1>37, <1>38, <1>39, <1>40 DEF Next

\* A blank verdict is right when it is given, and nothing labels the disk after.
LEMMA LabelInvStep ==
  LabelInv /\ [Next]_vars
    => LabelInv'
<1> SUFFICES ASSUME LabelInv,
                    [Next]_vars
             PROVE  LabelInv'
  OBVIOUS
<1> USE FreeSpaceAssumption DEF vars, choices, claims, LabelInv, Planning,
      Verdicts, Verdict, Parted, Blkid, Lsblk
<1>1. CASE ChooseMode
  BY <1>1 DEF ChooseMode, Goto
<1>2. CASE Decide
  BY <1>2 DEF Decide, Goto
<1>3. CASE Verify
  BY <1>3 DEF Verify, Goto
<1>4. CASE Recheck
  BY <1>4 DEF Recheck, Goto
<1>5. CASE MkLabel
  BY <1>5 DEF MkLabel, Goto
<1>6. CASE ReadBefore
  BY <1>6 DEF ReadBefore, Goto
<1>7. CASE MkPart
  BY <1>7 DEF MkPart, Goto
<1>8. CASE MkPartUnacknowledged
  BY <1>8 DEF MkPartUnacknowledged, Goto
<1>9. CASE Claim
  BY <1>9 DEF Claim, Goto
<1>10. CASE LeaveUnclaimed
  BY <1>10 DEF LeaveUnclaimed, Goto
<1>11. CASE CheckSize
  BY <1>11 DEF CheckSize, Goto
<1>12. CASE FlagEsp
  BY <1>12 DEF FlagEsp, Writes, Goto
<1>13. CASE WaitForDevices
  BY <1>13 DEF WaitForDevices, Goto
<1>14. CASE WipeEfi
  BY <1>14 DEF WipeEfi, Writes, Goto
<1>15. CASE WipeRoot
  BY <1>15 DEF WipeRoot, Writes, Goto
<1>16. CASE LuksFormat
  BY <1>16 DEF LuksFormat, Writes, Goto
<1>17. CASE LuksOpen
  BY <1>17 DEF LuksOpen, Acquires, Goto
<1>18. CASE MakeBtrfs
  BY <1>18 DEF MakeBtrfs, Writes, Goto
<1>19. CASE MountTmp
  BY <1>19 DEF MountTmp, Acquires, Goto
<1>20. CASE UmountTmp
  BY <1>20 DEF UmountTmp, Goto
<1>21. CASE MountTarget
  BY <1>21 DEF MountTarget, Acquires, Goto
<1>22. CASE MakeFat
  BY <1>22 DEF MakeFat, Writes, Goto
<1>23. CASE MountEsp
  BY <1>23 DEF MountEsp, Acquires, Goto
<1>24. CASE HandOff
  BY <1>24 DEF HandOff, Goto
<1>25. CASE StepFails
  BY <1>25 DEF StepFails, Goto
<1>26. CASE RbUmount
  BY <1>26 DEF RbUmount, Umounts, Goto
<1>27. CASE RbTmp
  BY <1>27 DEF RbTmp, Umounts, Goto
<1>28. CASE RbClose
  BY <1>28 DEF RbClose, Closes, Goto
<1>29. CASE RbRemove
  BY <1>29 DEF RbRemove, RemovesHighest, Busy
<1>30. CASE RbEnd
  BY <1>30 DEF RbEnd, Goto
<1>31. CASE InstallSucceeds
  BY <1>31 DEF InstallSucceeds, Goto
<1>32. CASE InstallFails
  BY <1>32 DEF InstallFails, Goto
<1>33. CASE ClUmount
  BY <1>33 DEF ClUmount, Umounts, Goto
<1>34. CASE ClClose
  BY <1>34 DEF ClClose, Closes, Goto
<1>35. CASE ClRemove
  BY <1>35 DEF ClRemove, RemovesHighest, Busy
<1>36. CASE ClEnd
  BY <1>36 DEF ClEnd, Goto
<1>37. CASE ExternalAdd
  BY <1>37 DEF ExternalAdd, Meddle
<1>38. CASE ExternalRemove
  BY <1>38 DEF ExternalRemove, Meddle
<1>39. CASE ExternalRelabel
  BY <1>39 DEF ExternalRelabel, Meddle
<1>40. CASE UNCHANGED vars
  BY <1>40
<1> QED
  BY <1>1, <1>2, <1>3, <1>4, <1>5, <1>6, <1>7, <1>8, <1>9, <1>10, <1>11,
     <1>12, <1>13, <1>14, <1>15, <1>16, <1>17, <1>18, <1>19, <1>20, <1>21,
     <1>22, <1>23, <1>24, <1>25, <1>26, <1>27, <1>28, <1>29, <1>30, <1>31,
     <1>32, <1>33, <1>34, <1>35, <1>36, <1>37, <1>38, <1>39, <1>40 DEF Next

\* No step writes to or removes what is not the run's.
LEMMA UntouchedStep ==
  TypeOK /\ ListInv /\ NameInv /\ LabelInv /\ TheirsUntouched /\ [Next]_vars
    => TheirsUntouched'
<1> SUFFICES ASSUME TypeOK /\ ListInv /\ NameInv /\ LabelInv /\ TheirsUntouched,
                    [Next]_vars
             PROVE  TheirsUntouched'
  OBVIOUS
<1> USE FreeSpaceAssumption DEF vars, choices, claims, TypeOK, ListInv,
      NameInv, LabelInv, TheirsUntouched, Formatting, Ours
<1>1. CASE ChooseMode
  BY <1>1 DEF ChooseMode, Goto
<1>2. CASE Decide
  BY <1>2 DEF Decide, Goto
<1>3. CASE Verify
  BY <1>3 DEF Verify, Goto
<1>4. CASE Recheck
  BY <1>4 DEF Recheck, Goto
<1>5. CASE MkLabel
  BY <1>5 DEF MkLabel, Goto
<1>6. CASE ReadBefore
  BY <1>6 DEF ReadBefore, Goto
<1>7. CASE MkPart
  BY <1>7 DEF MkPart, Goto
<1>8. CASE MkPartUnacknowledged
  BY <1>8 DEF MkPartUnacknowledged, Goto
<1>9. CASE Claim
  BY <1>9 DEF Claim, Goto
<1>10. CASE LeaveUnclaimed
  BY <1>10 DEF LeaveUnclaimed, Goto
<1>11. CASE CheckSize
  BY <1>11 DEF CheckSize, Goto
<1>12. CASE FlagEsp
  BY <1>12 DEF FlagEsp, Writes, Goto
<1>13. CASE WaitForDevices
  BY <1>13 DEF WaitForDevices, Goto
<1>14. CASE WipeEfi
  BY <1>14 DEF WipeEfi, Writes, Goto
<1>15. CASE WipeRoot
  BY <1>15 DEF WipeRoot, Writes, Goto
<1>16. CASE LuksFormat
  BY <1>16 DEF LuksFormat, Writes, Goto
<1>17. CASE LuksOpen
  BY <1>17 DEF LuksOpen, Acquires, Goto
<1>18. CASE MakeBtrfs
  BY <1>18 DEF MakeBtrfs, Writes, Goto
<1>19. CASE MountTmp
  BY <1>19 DEF MountTmp, Acquires, Goto
<1>20. CASE UmountTmp
  BY <1>20 DEF UmountTmp, Goto
<1>21. CASE MountTarget
  BY <1>21 DEF MountTarget, Acquires, Goto
<1>22. CASE MakeFat
  BY <1>22 DEF MakeFat, Writes, Goto
<1>23. CASE MountEsp
  BY <1>23 DEF MountEsp, Acquires, Goto
<1>24. CASE HandOff
  BY <1>24 DEF HandOff, Goto
<1>25. CASE StepFails
  BY <1>25 DEF StepFails, Goto
<1>26. CASE RbUmount
  BY <1>26 DEF RbUmount, Umounts, Goto
<1>27. CASE RbTmp
  BY <1>27 DEF RbTmp, Umounts, Goto
<1>28. CASE RbClose
  BY <1>28 DEF RbClose, Closes, Goto
<1>29. CASE RbRemove
  BY <1>29 DEF RbRemove, RemovesHighest, Busy
<1>30. CASE RbEnd
  BY <1>30 DEF RbEnd, Goto
<1>31. CASE InstallSucceeds
  BY <1>31 DEF InstallSucceeds, Goto
<1>32. CASE InstallFails
  BY <1>32 DEF InstallFails, Goto
<1>33. CASE ClUmount
  BY <1>33 DEF ClUmount, Umounts, Goto
<1>34. CASE ClClose
  BY <1>34 DEF ClClose, Closes, Goto
<1>35. CASE ClRemove
  BY <1>35 DEF ClRemove, RemovesHighest, Busy
<1>36. CASE ClEnd
  BY <1>36 DEF ClEnd, Goto
<1>37. CASE ExternalAdd
  BY <1>37 DEF ExternalAdd, Meddle
<1>38. CASE ExternalRemove
  BY <1>38 DEF ExternalRemove, Meddle
<1>39. CASE ExternalRelabel
  BY <1>39 DEF ExternalRelabel, Meddle
<1>40. CASE UNCHANGED vars
  BY <1>40
<1> QED
  BY <1>1, <1>2, <1>3, <1>4, <1>5, <1>6, <1>7, <1>8, <1>9, <1>10, <1>11,
     <1>12, <1>13, <1>14, <1>15, <1>16, <1>17, <1>18, <1>19, <1>20, <1>21,
     <1>22, <1>23, <1>24, <1>25, <1>26, <1>27, <1>28, <1>29, <1>30, <1>31,
     <1>32, <1>33, <1>34, <1>35, <1>36, <1>37, <1>38, <1>39, <1>40 DEF Next


\* The inductive invariant holds of every behaviour.
THEOREM IInvInvariant == NoSwap /\ Spec => []IInv
<1> SUFFICES ASSUME NoSwap PROVE Spec => []IInv
  OBVIOUS
<1>1. Init => IInv
  <2> SUFFICES ASSUME Init PROVE IInv
    OBVIOUS
  <2>1. slot \in [Slots -> {"free", "theirs", "ours"}] /\ Ours = {}
    BY DEF Init, Ours
  <2>2. TypeOK
    <3>1. meddled \in 0..MaxExternal
      BY FreeSpaceAssumption DEF Init
    <3>2. pc \in Pcs /\ part \in {"efi", "root"}
      BY DEF Init, Pcs, Planning
    <3>3. num \in [{"efi", "root"} -> Slots \cup {0}]
      BY DEF Init
    <3>4. before \subseteq Slots /\ created \subseteq Slots /\ handoff \subseteq Slots
            /\ held \subseteq {"luks", "tmp", "mnt", "esp"}
      BY DEF Init
    <3>5. needsLabel \in BOOLEAN /\ encrypted \in BOOLEAN /\ harm \in BOOLEAN
            /\ excused \in BOOLEAN
      BY Zenon DEF Init
    <3> QED
      BY <2>1, <3>1, <3>2, <3>3, <3>4, <3>5 DEF Init, TypeOK
  <2>3. ListInv /\ MkPartInv /\ AfterInv
    BY <2>1 DEF Init, ListInv, MkPartInv, AfterInv
  <2>4. NameInv /\ HeldInv /\ LabelInv /\ TheirsUntouched
    BY DEF Init, NameInv, HeldInv, LabelInv, TheirsUntouched, Planning, Formatting
  <2> QED
    BY <2>2, <2>3, <2>4 DEF IInv
<1>2. IInv /\ [Next]_vars => IInv'
  BY TypeOKStep, ListInvStep, MkPartInvStep, AfterInvStep, NameInvStep,
     HeldInvStep, LabelInvStep, UntouchedStep DEF IInv
<1> QED
  BY <1>1, <1>2, PTL DEF Spec

\* The variables keep their types.
THEOREM TypeCorrect == NoSwap /\ Spec => []TypeOK
BY IInvInvariant, PTL DEF IInv

\* Nothing that is not this run's is written to or removed.
THEOREM Untouched == NoSwap /\ Spec => []TheirsUntouched
BY IInvInvariant, PTL DEF IInv

\* The list of claimed numbers names partitions of this run only.
THEOREM OnlyOurs == NoSwap /\ Spec => []ClaimsOnlyOurs
<1>1. IInv => ClaimsOnlyOurs
  BY DEF IInv, ListInv, ClaimsOnlyOurs
<1> QED
  BY <1>1, IInvInvariant, PTL

\* A failed run whose commands worked leaves no partition behind.
THEOREM Orphans == NoSwap /\ Spec => []NoOrphans
<1>1. IInv => NoOrphans
  BY DEF IInv, ListInv, NoOrphans
<1> QED
  BY <1>1, IInvInvariant, PTL

\* The hand-over names exactly the two partitions of the run.
THEOREM HandedOff == NoSwap /\ Spec => []HandOffComplete
<1>1. IInv => HandOffComplete
  BY DEF IInv, ListInv, NameInv, HeldInv, HandOffComplete, Failing, Planning
<1> QED
  BY <1>1, IInvInvariant, PTL

=============================================================================
