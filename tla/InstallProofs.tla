---------------------------- MODULE InstallProofs ----------------------------
(***************************************************************************)
(* Install, for either kind of install, any number of failed calls and an  *)
(* interrupt or none, and any packages and dependencies: the type, the     *)
(* clean fstab, the truth of the exit status, the archives at hand, the    *)
(* chosen system and the released mounts, and that every step is a step or *)
(* a stutter of InstallContract.                                           *)
(***************************************************************************)
EXTENDS Install, TLAPS

USE InstallAssumption DEF Last

-----------------------------------------------------------------------------
(* Packages                                                                 *)

(* What pacman resolves a list to holds the list, and nothing more is       *)
(* needed for it.                                                           *)
LEMMA ClosureFacts ==
  ASSUME NEW S \in SUBSET Package
  PROVE  /\ S \subseteq Closure(S) /\ Closure(S) \subseteq Package
         /\ Closure(Closure(S)) \subseteq Closure(S)
<1>1. S \subseteq Closure(S) /\ Closure(S) \subseteq Package
  BY PackagesAssumption DEF Closure
<1>2. ASSUME NEW q \in Closure(Closure(S)) PROVE q \in Closure(S)
  <2>1. PICK r \in Closure(S) : q \in Needs[r]
    BY <1>2 DEF Closure
  <2>2. PICK p \in S : r \in Needs[p]
    BY <2>1 DEF Closure
  <2>3. Needs[r] \subseteq Needs[p]
    BY <2>2, PackagesAssumption
  <2> QED
    BY <2>1, <2>2, <2>3 DEF Closure
<1> QED
  BY <1>1, <1>2

(* A larger list resolves to more. *)
LEMMA ClosureMonotone ==
  ASSUME NEW S, NEW T, S \subseteq T
  PROVE  Closure(S) \subseteq Closure(T)
  BY DEF Closure

(* A union resolves part by part. *)
LEMMA ClosureUnion ==
  ASSUME NEW S, NEW T
  PROVE  Closure(S \cup T) = Closure(S) \cup Closure(T)
  BY DEF Closure

(* The lists are lists of packages. *)
LEMMA ListsAreLists ==
  ASSUME NEW c \in Choice
  PROVE  /\ Target \subseteq Package /\ Target \cup Other \subseteq Package
         /\ Chosen(c) \subseteq Package /\ Chosen(c) \subseteq Target \cup Other
<1>1. \A g \in Groups : Bootstrap[g] \subseteq Package /\ Bootstrap[g] \subseteq Target
  BY PackagesAssumption DEF Target
<1>2. Target \subseteq Package
  BY <1>1, PackagesAssumption DEF Target
<1>3. c.apps \subseteq Target \cup Other
  BY <1>1 DEF Choice, Groups
<1>4. Baseline \subseteq Target
  BY DEF Target
<1> QED
  BY <1>2, <1>3, <1>4, PackagesAssumption DEF Chosen

(* Whatever the installer asks for was chosen.                              *)
LEMMA RequestedChosen ==
  ASSUME NEW c \in Choice, NEW n \in 1..6
  PROVE  Requested(c, Transactions[n]) \subseteq Chosen(c)
<1>1. \A g \in Groups : Bootstrap[g] \subseteq Target \ Preinstalls
  BY ListsAssumption DEF Target
<1>2. Runtime(c) \subseteq Chosen(c)
  BY DEF Runtime, Chosen, Target
<1>3. /\ BaseDelta \subseteq Chosen(c) /\ EarlyBootstrap \subseteq Chosen(c)
      /\ LuaRocks \subseteq Chosen(c)
  BY <1>1 DEF Groups, Chosen, BaseDelta, EarlyBootstrap, LuaRocks
<1>4. /\ (IF c.tailscale THEN {Tailscale} ELSE {}) \subseteq Chosen(c)
      /\ c.apps \subseteq Chosen(c)
  BY DEF Chosen
<1> QED
  BY <1>2, <1>3, <1>4 DEF Requested, Transactions, Applications

(* The image and the six lists make up what was chosen.                     *)
LEMMA ChosenRequested ==
  ASSUME NEW c \in Choice, NEW S, Image \subseteq S,
         \A n \in 1..6 : Requested(c, Transactions[n]) \subseteq S
  PROVE  Chosen(c) \subseteq S
<1>1. Target \ Preinstalls \subseteq S
  BY ClosureFacts, ListsAreLists DEF Image
<1>2. /\ Requested(c, "early") \subseteq S /\ Requested(c, "luarocks") \subseteq S
      /\ Requested(c, "runtime") \subseteq S /\ Requested(c, "tailscale") \subseteq S
      /\ Requested(c, "apps") \subseteq S
  BY DEF Transactions
<1>3. c.preinstalls => Baseline \subseteq S
  BY <1>2 DEF Requested, Runtime, Early
<1>4. /\ (IF c.tailscale THEN {Tailscale} ELSE {}) \subseteq S
      /\ c.apps \subseteq S
  BY <1>2 DEF Requested, Applications
<1> QED
  BY <1>1, <1>3, <1>4 DEF Chosen

(* A transaction installs what was asked for and all it needs, from what    *)
(* was chosen; with the image deployed, from archives that were shipped.    *)
LEMMA FetchedFacts ==
  ASSUME NEW c \in Choice, NEW n \in 1..6, NEW S \in SUBSET Package,
         Closure(S) \subseteq S, S \subseteq Closure(Chosen(c)), Image \subseteq S
  PROVE  LET F == Fetched(c, S, Transactions[n])
         IN /\ F \subseteq Shipped /\ F \subseteq Package
            /\ Closure(S \cup F) \subseteq S \cup F
            /\ F \subseteq Closure(Chosen(c))
            /\ Requested(c, Transactions[n]) \subseteq S \cup F
<1> DEFINE F == Fetched(c, S, Transactions[n])
           asked == Requested(c, Transactions[n])
           names == IF Transactions[n] = "tailscale" THEN asked ELSE Missing(asked, S)
<1>1. F = names \cup (Closure(names) \ S)
  BY DEF Fetched
<1>2. names \subseteq asked /\ asked \subseteq Chosen(c) /\ asked \subseteq S \cup names
  BY RequestedChosen DEF Missing
<1>3. names \in SUBSET Package /\ Chosen(c) \in SUBSET Package
  BY <1>2, ListsAreLists
<1>4. /\ names \subseteq Closure(names) /\ Closure(names) \subseteq Package
      /\ Closure(names) \subseteq Closure(Chosen(c))
      /\ Closure(Closure(names)) \subseteq Closure(names)
  BY <1>2, <1>3, ClosureFacts, ClosureMonotone
<1>5. names \cap Image = {}
  <2>1. CASE Transactions[n] = "tailscale"
    BY <2>1, ListsAssumption DEF Requested
  <2>2. CASE Transactions[n] # "tailscale"
    BY <2>2 DEF Missing
  <2> QED
    BY <2>1, <2>2
<1>6. Closure(names) \subseteq Installable
  BY <1>2, ListsAreLists, ClosureMonotone DEF Installable
<1>7. Closure(S \cup F) \subseteq S \cup F
  <2>1. F \subseteq Closure(names) /\ Closure(names) \subseteq S \cup F
    BY <1>1, <1>4
  <2>2. Closure(F) \subseteq Closure(names)
    BY <2>1, <1>4, ClosureMonotone
  <2> QED
    BY <2>1, <2>2, ClosureUnion
<1> HIDE DEF names, asked, F
<1>8. F \subseteq Shipped
  BY <1>1, <1>4, <1>5, <1>6 DEF Shipped, Select
<1>9. F \subseteq Package /\ F \subseteq Closure(Chosen(c)) /\ asked \subseteq S \cup F
  BY <1>1, <1>2, <1>4
<1> QED
  BY <1>7, <1>8, <1>9 DEF asked, F

(* The image is a complete set of packages, all of them chosen. *)
LEMMA ImageFacts ==
  /\ Image \subseteq Package /\ Closure(Image) \subseteq Image
  /\ \A c \in Choice : Image \subseteq Closure(Chosen(c))
<1>1. Target \ Preinstalls \in SUBSET Package
  BY PackagesAssumption DEF Target
<1>2. \A c \in Choice : Target \ Preinstalls \subseteq Chosen(c)
  BY DEF Chosen
<1> QED
  BY <1>1, <1>2, ClosureFacts, ClosureMonotone DEF Image

(* A transaction installs packages. *)
LEMMA FetchedTyped ==
  ASSUME NEW c \in Choice, NEW n \in 1..6, NEW S
  PROVE  Fetched(c, S, Transactions[n]) \subseteq Package
<1>1. Requested(c, Transactions[n]) \subseteq Package
  BY RequestedChosen, ListsAreLists
<1> DEFINE names == IF Transactions[n] = "tailscale" THEN Requested(c, Transactions[n])
                    ELSE Missing(Requested(c, Transactions[n]), S)
<1>2. names \in SUBSET Package
  BY <1>1 DEF Missing
<1>3. Closure(names) \subseteq Package
  BY <1>2, ClosureFacts
<1> QED
  BY <1>2, <1>3 DEF Fetched

-----------------------------------------------------------------------------
(* Where the phases start. *)
LEMMA Entries ==
  /\ \A n \in 1..Last : /\ Entry(n) \in Pcs
                        /\ Entry(n) \in {"partition", "layout"} => n = 4
                        /\ Entry(n) \in {"mirror", "top"} => n > 4
                        /\ Entry(n) \in {"verify", "cleanup"} => n < 4
                        /\ Entry(n) = "body" => n # 4
                        /\ Entry(n) \in {"verify", "cleanup", "partition",
                                        "layout", "mirror", "top", "body"}
  /\ Entry(1) = "verify" /\ Entry(2) = "cleanup"
  BY DEF Entry, Phases, Pcs, Fallible

(* The strengthening holds at the start. *)
LEMMA InitIInv == Init => IInv
<1> SUFFICES ASSUME Init PROVE IInv
  OBVIOUS
<1>1. /\ protected \in Modes /\ cut \in BOOLEAN
      /\ verified \in BOOLEAN /\ boosted \in BOOLEAN /\ prepared \in BOOLEAN
      /\ disk \in {"before", "partial"} /\ (disk = "before" => ~protected)
  BY Zenon DEF Init
<1>2. /\ phase = 0 /\ pc = "boost" /\ exc = "none" /\ attempts = 0
      /\ mounted = {} /\ tracked = {} /\ fstab = {} /\ stuck = {}
      /\ report = "none" /\ verdict = "none" /\ code = 0 /\ faults = 0
      /\ choice \in Choices /\ installed = {} /\ txn = 1 /\ ~boosted
  BY Zenon DEF Init
<1>3. TypeOK /\ BindsInPlace /\ VerdictFollowsDisk
  BY <1>1, <1>2 DEF TypeOK, BindsInPlace, VerdictFollowsDisk,
     FstabClean, Pcs, FinallyPcs, SystemPcs, SetupPcs
<1>4. MountsAccounted
  BY <1>1, <1>2 DEF MountsAccounted, InFlight, FinallyPcs
<1>5. PackagesInPlace
  BY <1>1, <1>2 DEF PackagesInPlace, FinallyPcs, Closure
<1> QED
  BY <1>3, <1>4, <1>5 DEF IInv

(* Every step keeps the type.                                               *)
LEMMA StepType ==
  TypeOK /\ [Next]_vars => TypeOK'
<1> SUFFICES ASSUME TypeOK, [Next]_vars PROVE TypeOK'
  OBVIOUS
<1> USE DEF TypeOK, Pcs, Fallible, Mounts, UnderTarget, resources, mode, packages, outcome,
      Goto
<1>1. CASE ConfigError
  BY <1>1 DEF ConfigError, Fault
<1>2. CASE Boost
  BY <1>2 DEF Boost
<1>3. CASE Enter
  <2>1. /\ phase + 1 \in 1..Last /\ phase' = phase + 1
        /\ pc' = Entry(phase + 1)
    BY <1>3 DEF Enter, TypeOK
  <2> QED
    BY <1>3, <2>1, Entries DEF Enter
<1>4. CASE Body
  BY <1>4 DEF Body, Step
<1>5. CASE Verify
  BY <1>5 DEF Verify
<1>6. CASE Cleanup
  BY <1>6 DEF Cleanup, Touch
<1>7. CASE Partition
  BY <1>7 DEF Partition, Touch
<1>8. CASE PartitionRace
  BY <1>8 DEF PartitionRace, Touch
<1>9. CASE Layout
  BY <1>9, ImageFacts DEF Layout
<1>10. CASE MountCache
  BY <1>10 DEF MountCache, Mount
<1>11. CASE TrackCache
  BY <1>11 DEF TrackCache, Track
<1>12. CASE Mask
  BY <1>12 DEF Mask, Step
<1>13. CASE Base
  BY <1>13 DEF Base, Step
<1>14. CASE ReleaseCache
  BY <1>14 DEF ReleaseCache
<1>15. CASE ReleaseCacheFails
  BY <1>15 DEF ReleaseCacheFails, Fault
<1>16. CASE WriteFstab
  BY <1>16 DEF WriteFstab
<1>17. CASE SkipPrepare
  BY <1>17 DEF SkipPrepare, Step
<1>18. CASE MountMirror
  BY <1>18 DEF MountMirror, Mount
<1>19. CASE TrackMirror
  BY <1>19 DEF TrackMirror, Track
<1>20. CASE MountPackages
  BY <1>20 DEF MountPackages, Mount
<1>21. CASE TrackPackages
  BY <1>21 DEF TrackPackages, Track
<1>22. CASE MountLog
  BY <1>22 DEF MountLog, Mount
<1>23. CASE MountLogFails
  BY <1>23 DEF MountLogFails, Fault
<1>24. CASE LogEnv
  BY <1>24 DEF LogEnv, Step
<1>25. CASE Chroot
  BY <1>25 DEF Chroot, Step
<1>26. CASE UnmountLog
  BY <1>26 DEF UnmountLog
<1>27. CASE UnmountLogFails
  BY <1>27 DEF UnmountLogFails, Fault
<1>28. CASE SkipSnapshot
  BY <1>28 DEF SkipSnapshot, Step
<1>29. CASE MountTop
  BY <1>29 DEF MountTop, Mount
<1>30. CASE Snapshot
  BY <1>30 DEF Snapshot, Step
<1>31. CASE UnmountTop
  BY <1>31 DEF UnmountTop
<1>32. CASE UnmountTopFails
  BY <1>32 DEF UnmountTopFails, Fault
<1>33. CASE PhaseRaises
  BY <1>33 DEF PhaseRaises, Fault, Touch, Fallible, Handler
<1>34. CASE Handle
  BY <1>34 DEF Handle
<1>35. CASE Report
  BY <1>35 DEF Report
<1>36. CASE WriteTiming
  BY <1>36 DEF WriteTiming
<1>37. CASE WriteStateFails
  BY <1>37 DEF WriteStateFails, Fault
<1>38. CASE RestoreGovernors
  <2>1. boosted' \in BOOLEAN /\ verified' \in BOOLEAN /\ prepared' \in BOOLEAN
    BY <1>38, Zenon DEF RestoreGovernors
  <2>2. pc' \in Pcs
    BY <1>38, Zenon DEF RestoreGovernors
  <2>3. UNCHANGED <<mode, phase, exc, attempts, mounted, tracked, fstab, stuck,
                    outcome, faults>>
    BY <1>38, Zenon DEF RestoreGovernors
  <2> QED
    BY <2>1, <2>2, <2>3
<1>39. CASE CleanupBinds
  BY <1>39 DEF CleanupBinds
<1>40. CASE CleanupBindsFails
  BY <1>40 DEF CleanupBindsFails, Fault
<1>41. CASE Rollback
  <2>1. mounted' \subseteq mounted /\ disk' \in {disk, "reverted"}
    BY <1>41, Zenon DEF Rollback
  <2> QED
    BY <1>41, <2>1 DEF Rollback
<1>42. CASE RollbackFails
  <2>1. /\ protected' \in Modes /\ cut' \in BOOLEAN /\ verified' \in BOOLEAN
        /\ boosted' \in BOOLEAN /\ prepared' \in BOOLEAN
    BY <1>42, Zenon DEF RollbackFails
  <2>2. /\ stuck' = stuck \cup {"target"} /\ pc' = "exit"
        /\ faults < MaxFaults /\ faults' = faults + 1
        /\ UNCHANGED <<packages, phase, exc, attempts, mounted, tracked, fstab,
                       outcome>>
    BY <1>42, Zenon DEF RollbackFails, Fault
  <2> QED
    BY <2>1, <2>2
<1>43. CASE Interrupt
  BY <1>43 DEF Interrupt, Fallible, Handler
<1>47. CASE InterruptEarly
  BY <1>47 DEF InterruptEarly
<1>44. CASE Kill
  BY <1>44 DEF Kill
<1>46. CASE Strap
  <2>1. txn \in 1..6 /\ choice \in Choice
    BY <1>46 DEF Strap, Transactions
  <2>2. Fetched(choice, installed, Transactions[txn]) \subseteq Package
    BY <2>1, FetchedTyped
  <2>3. installed' \subseteq Package /\ txn' \in 1..7
    BY <1>46, <2>1, <2>2 DEF Strap
  <2>4. /\ protected' \in Modes /\ cut' \in BOOLEAN /\ verified' \in BOOLEAN
        /\ boosted' \in BOOLEAN /\ prepared' \in BOOLEAN
    BY <1>46, Zenon DEF Strap
  <2>5. UNCHANGED <<choice, phase, pc, exc, attempts, mounted, tracked, fstab,
                    stuck, outcome, faults>>
    BY <1>46, Zenon DEF Strap
  <2> QED
    BY <2>3, <2>4, <2>5
<1>45. CASE UNCHANGED vars
  BY <1>45 DEF vars
<1> QED
  BY <1>1, <1>2, <1>3, <1>4, <1>5, <1>6, <1>7, <1>8, <1>9, <1>10, <1>11,
     <1>12, <1>13, <1>14, <1>15, <1>16, <1>17, <1>18, <1>19, <1>20, <1>21,
     <1>22, <1>23, <1>24, <1>25, <1>26, <1>27, <1>28, <1>29, <1>30, <1>31,
     <1>32, <1>33, <1>34, <1>35, <1>36, <1>37, <1>38, <1>39, <1>40, <1>41,
     <1>42, <1>43, <1>44, <1>45, <1>46, <1>47 DEF Next, Run, System, Setup, Factory,
     Finally

(* Every step keeps the binds where they belong.                            *)
LEMMA StepBinds ==
  TypeOK /\ BindsInPlace /\ [Next]_vars => BindsInPlace'
<1> SUFFICES ASSUME TypeOK /\ BindsInPlace, [Next]_vars PROVE BindsInPlace'
  OBVIOUS
<1> USE DEF TypeOK, Pcs, Fallible, BindsInPlace, FstabClean, SystemPcs,
      SetupPcs, FinallyPcs, Mounts, UnderTarget, resources, mode, packages, outcome, Goto
<1>1. CASE ConfigError
  BY <1>1 DEF ConfigError, Fault
<1>2. CASE Boost
  BY <1>2 DEF Boost
<1>3. CASE Enter
  <2>1. /\ phase + 1 \in 1..Last /\ phase' = phase + 1
        /\ pc' = Entry(phase + 1)
    BY <1>3 DEF Enter, TypeOK
  <2> QED
    BY <1>3, <2>1, Entries DEF Enter
<1>4. CASE Body
  BY <1>4 DEF Body, Step
<1>5. CASE Verify
  BY <1>5 DEF Verify
<1>6. CASE Cleanup
  BY <1>6 DEF Cleanup, Touch
<1>7. CASE Partition
  BY <1>7 DEF Partition, Touch
<1>8. CASE PartitionRace
  BY <1>8 DEF PartitionRace, Touch
<1>9. CASE Layout
  BY <1>9 DEF Layout
<1>10. CASE MountCache
  BY <1>10 DEF MountCache, Mount
<1>11. CASE TrackCache
  BY <1>11 DEF TrackCache, Track
<1>12. CASE Mask
  BY <1>12 DEF Mask, Step
<1>13. CASE Base
  BY <1>13 DEF Base, Step
<1>14. CASE ReleaseCache
  BY <1>14 DEF ReleaseCache
<1>15. CASE ReleaseCacheFails
  BY <1>15 DEF ReleaseCacheFails, Fault
<1>16. CASE WriteFstab
  BY <1>16 DEF WriteFstab
<1>17. CASE SkipPrepare
  BY <1>17 DEF SkipPrepare, Step
<1>18. CASE MountMirror
  BY <1>18 DEF MountMirror, Mount
<1>19. CASE TrackMirror
  BY <1>19 DEF TrackMirror, Track
<1>20. CASE MountPackages
  BY <1>20 DEF MountPackages, Mount
<1>21. CASE TrackPackages
  BY <1>21 DEF TrackPackages, Track
<1>22. CASE MountLog
  BY <1>22 DEF MountLog, Mount
<1>23. CASE MountLogFails
  BY <1>23 DEF MountLogFails, Fault
<1>24. CASE LogEnv
  BY <1>24 DEF LogEnv, Step
<1>25. CASE Chroot
  BY <1>25 DEF Chroot, Step
<1>26. CASE UnmountLog
  BY <1>26 DEF UnmountLog
<1>27. CASE UnmountLogFails
  BY <1>27 DEF UnmountLogFails, Fault
<1>28. CASE SkipSnapshot
  BY <1>28 DEF SkipSnapshot, Step
<1>29. CASE MountTop
  BY <1>29 DEF MountTop, Mount
<1>30. CASE Snapshot
  BY <1>30 DEF Snapshot, Step
<1>31. CASE UnmountTop
  BY <1>31 DEF UnmountTop
<1>32. CASE UnmountTopFails
  BY <1>32 DEF UnmountTopFails, Fault
<1>33. CASE PhaseRaises
  BY <1>33 DEF PhaseRaises, Fault, Touch, Fallible, Handler
<1>34. CASE Handle
  BY <1>34 DEF Handle
<1>35. CASE Report
  BY <1>35 DEF Report
<1>36. CASE WriteTiming
  BY <1>36 DEF WriteTiming
<1>37. CASE WriteStateFails
  BY <1>37 DEF WriteStateFails, Fault
<1>38. CASE RestoreGovernors
  BY <1>38 DEF RestoreGovernors
<1>39. CASE CleanupBinds
  BY <1>39 DEF CleanupBinds
<1>40. CASE CleanupBindsFails
  BY <1>40 DEF CleanupBindsFails, Fault
<1>41. CASE Rollback
  BY <1>41 DEF Rollback
<1>42. CASE RollbackFails
  BY <1>42 DEF RollbackFails, Fault
<1>43. CASE Interrupt
  BY <1>43 DEF Interrupt, Fallible, Handler
<1>47. CASE InterruptEarly
  BY <1>47 DEF InterruptEarly
<1>44. CASE Kill
  BY <1>44 DEF Kill
<1>46. CASE Strap
  BY <1>46 DEF Strap
<1>45. CASE UNCHANGED vars
  BY <1>45 DEF vars
<1> QED
  BY <1>1, <1>2, <1>3, <1>4, <1>5, <1>6, <1>7, <1>8, <1>9, <1>10, <1>11,
     <1>12, <1>13, <1>14, <1>15, <1>16, <1>17, <1>18, <1>19, <1>20, <1>21,
     <1>22, <1>23, <1>24, <1>25, <1>26, <1>27, <1>28, <1>29, <1>30, <1>31,
     <1>32, <1>33, <1>34, <1>35, <1>36, <1>37, <1>38, <1>39, <1>40, <1>41,
     <1>42, <1>43, <1>44, <1>45, <1>46, <1>47 DEF Next, Run, System, Setup, Factory,
     Finally

(* Every step keeps the mounts accounted for.                               *)
LEMMA StepMounts ==
  TypeOK /\ BindsInPlace /\ MountsAccounted /\ [Next]_vars => MountsAccounted'
<1> SUFFICES ASSUME TypeOK /\ BindsInPlace /\ MountsAccounted, [Next]_vars PROVE MountsAccounted'
  OBVIOUS
<1> USE DEF TypeOK, Pcs, Fallible, BindsInPlace, MountsAccounted, InFlight, FstabClean, SystemPcs,
      SetupPcs, FinallyPcs, Mounts, UnderTarget, resources, mode, packages, outcome, Goto
<1>1. CASE ConfigError
  BY <1>1 DEF ConfigError, Fault
<1>2. CASE Boost
  BY <1>2 DEF Boost
<1>3. CASE Enter
  <2>1. /\ phase + 1 \in 1..Last /\ phase' = phase + 1
        /\ pc' = Entry(phase + 1)
    BY <1>3 DEF Enter, TypeOK
  <2> QED
    BY <1>3, <2>1, Entries DEF Enter
<1>4. CASE Body
  BY <1>4 DEF Body, Step
<1>5. CASE Verify
  BY <1>5 DEF Verify
<1>6. CASE Cleanup
  BY <1>6 DEF Cleanup, Touch
<1>7. CASE Partition
  BY <1>7 DEF Partition, Touch
<1>8. CASE PartitionRace
  BY <1>8 DEF PartitionRace, Touch
<1>9. CASE Layout
  BY <1>9 DEF Layout
<1>10. CASE MountCache
  BY <1>10 DEF MountCache, Mount
<1>11. CASE TrackCache
  BY <1>11 DEF TrackCache, Track
<1>12. CASE Mask
  BY <1>12 DEF Mask, Step
<1>13. CASE Base
  BY <1>13 DEF Base, Step
<1>14. CASE ReleaseCache
  BY <1>14 DEF ReleaseCache
<1>15. CASE ReleaseCacheFails
  BY <1>15 DEF ReleaseCacheFails, Fault
<1>16. CASE WriteFstab
  BY <1>16 DEF WriteFstab
<1>17. CASE SkipPrepare
  BY <1>17 DEF SkipPrepare, Step
<1>18. CASE MountMirror
  BY <1>18 DEF MountMirror, Mount
<1>19. CASE TrackMirror
  BY <1>19 DEF TrackMirror, Track
<1>20. CASE MountPackages
  BY <1>20 DEF MountPackages, Mount
<1>21. CASE TrackPackages
  BY <1>21 DEF TrackPackages, Track
<1>22. CASE MountLog
  BY <1>22 DEF MountLog, Mount
<1>23. CASE MountLogFails
  BY <1>23 DEF MountLogFails, Fault
<1>24. CASE LogEnv
  BY <1>24 DEF LogEnv, Step
<1>25. CASE Chroot
  BY <1>25 DEF Chroot, Step
<1>26. CASE UnmountLog
  BY <1>26 DEF UnmountLog
<1>27. CASE UnmountLogFails
  BY <1>27 DEF UnmountLogFails, Fault
<1>28. CASE SkipSnapshot
  BY <1>28 DEF SkipSnapshot, Step
<1>29. CASE MountTop
  BY <1>29 DEF MountTop, Mount
<1>30. CASE Snapshot
  BY <1>30 DEF Snapshot, Step
<1>31. CASE UnmountTop
  BY <1>31 DEF UnmountTop
<1>32. CASE UnmountTopFails
  BY <1>32 DEF UnmountTopFails, Fault
<1>33. CASE PhaseRaises
  BY <1>33 DEF PhaseRaises, Fault, Touch, Fallible, Handler, Forgotten
<1>34. CASE Handle
  BY <1>34 DEF Handle
<1>35. CASE Report
  BY <1>35 DEF Report
<1>36. CASE WriteTiming
  BY <1>36 DEF WriteTiming
<1>37. CASE WriteStateFails
  BY <1>37 DEF WriteStateFails, Fault
<1>38. CASE RestoreGovernors
  BY <1>38 DEF RestoreGovernors
<1>39. CASE CleanupBinds
  BY <1>39 DEF CleanupBinds
<1>40. CASE CleanupBindsFails
  BY <1>40 DEF CleanupBindsFails, Fault
<1>41. CASE Rollback
  BY <1>41 DEF Rollback
<1>42. CASE RollbackFails
  BY <1>42 DEF RollbackFails, Fault
<1>43. CASE Interrupt
  BY <1>43 DEF Interrupt, Fallible, Handler
<1>47. CASE InterruptEarly
  BY <1>47 DEF InterruptEarly
<1>44. CASE Kill
  BY <1>44 DEF Kill
<1>46. CASE Strap
  BY <1>46 DEF Strap
<1>45. CASE UNCHANGED vars
  BY <1>45 DEF vars
<1> QED
  BY <1>1, <1>2, <1>3, <1>4, <1>5, <1>6, <1>7, <1>8, <1>9, <1>10, <1>11,
     <1>12, <1>13, <1>14, <1>15, <1>16, <1>17, <1>18, <1>19, <1>20, <1>21,
     <1>22, <1>23, <1>24, <1>25, <1>26, <1>27, <1>28, <1>29, <1>30, <1>31,
     <1>32, <1>33, <1>34, <1>35, <1>36, <1>37, <1>38, <1>39, <1>40, <1>41,
     <1>42, <1>43, <1>44, <1>45, <1>46, <1>47 DEF Next, Run, System, Setup, Factory,
     Finally

(* Every step keeps what is installed between the image and the choice.     *)
LEMMA StepPackages ==
  TypeOK /\ BindsInPlace /\ PackagesInPlace /\ [Next]_vars => PackagesInPlace'
<1> SUFFICES ASSUME TypeOK /\ BindsInPlace /\ PackagesInPlace, [Next]_vars PROVE PackagesInPlace'
  OBVIOUS
<1> USE DEF TypeOK, Pcs, Fallible, BindsInPlace, PackagesInPlace, FstabClean, SystemPcs,
      SetupPcs, FinallyPcs, Mounts, UnderTarget, resources, mode, packages, outcome, Goto
<1>1. CASE ConfigError
  BY <1>1 DEF ConfigError, Fault
<1>2. CASE Boost
  BY <1>2 DEF Boost
<1>3. CASE Enter
  <2>1. /\ phase + 1 \in 1..Last /\ phase' = phase + 1
        /\ pc' = Entry(phase + 1)
    BY <1>3 DEF Enter, TypeOK
  <2> QED
    BY <1>3, <2>1, Entries DEF Enter
<1>4. CASE Body
  BY <1>4 DEF Body, Step
<1>5. CASE Verify
  BY <1>5 DEF Verify
<1>6. CASE Cleanup
  BY <1>6 DEF Cleanup, Touch
<1>7. CASE Partition
  BY <1>7 DEF Partition, Touch
<1>8. CASE PartitionRace
  BY <1>8 DEF PartitionRace, Touch
<1>9. CASE Layout
  BY <1>9, ImageFacts DEF Layout
<1>10. CASE MountCache
  BY <1>10 DEF MountCache, Mount
<1>11. CASE TrackCache
  BY <1>11 DEF TrackCache, Track
<1>12. CASE Mask
  BY <1>12 DEF Mask, Step
<1>13. CASE Base
  <2>1. /\ \A n \in 1..6 : Requested(choice, Transactions[n]) \subseteq installed
        /\ Image \subseteq installed /\ Closure(installed) \subseteq installed
        /\ choice \in Choice
    BY <1>13 DEF Base, Step, Transactions
  <2>2. Chosen(choice) \subseteq installed
    BY <2>1, ChosenRequested
  <2>3. Closure(Chosen(choice)) \subseteq installed
    BY <2>1, <2>2, ClosureMonotone
  <2> QED
    BY <1>13, <2>3 DEF Base, Step
<1>14. CASE ReleaseCache
  BY <1>14 DEF ReleaseCache
<1>15. CASE ReleaseCacheFails
  BY <1>15 DEF ReleaseCacheFails, Fault
<1>16. CASE WriteFstab
  BY <1>16 DEF WriteFstab
<1>17. CASE SkipPrepare
  BY <1>17 DEF SkipPrepare, Step
<1>18. CASE MountMirror
  BY <1>18 DEF MountMirror, Mount
<1>19. CASE TrackMirror
  BY <1>19 DEF TrackMirror, Track
<1>20. CASE MountPackages
  BY <1>20 DEF MountPackages, Mount
<1>21. CASE TrackPackages
  BY <1>21 DEF TrackPackages, Track
<1>22. CASE MountLog
  BY <1>22 DEF MountLog, Mount
<1>23. CASE MountLogFails
  BY <1>23 DEF MountLogFails, Fault
<1>24. CASE LogEnv
  BY <1>24 DEF LogEnv, Step
<1>25. CASE Chroot
  BY <1>25 DEF Chroot, Step
<1>26. CASE UnmountLog
  BY <1>26 DEF UnmountLog
<1>27. CASE UnmountLogFails
  BY <1>27 DEF UnmountLogFails, Fault
<1>28. CASE SkipSnapshot
  BY <1>28 DEF SkipSnapshot, Step
<1>29. CASE MountTop
  BY <1>29 DEF MountTop, Mount
<1>30. CASE Snapshot
  BY <1>30 DEF Snapshot, Step
<1>31. CASE UnmountTop
  BY <1>31 DEF UnmountTop
<1>32. CASE UnmountTopFails
  BY <1>32 DEF UnmountTopFails, Fault
<1>33. CASE PhaseRaises
  BY <1>33 DEF PhaseRaises, Fault, Touch, Fallible, Handler
<1>34. CASE Handle
  BY <1>34 DEF Handle
<1>35. CASE Report
  BY <1>35 DEF Report
<1>36. CASE WriteTiming
  BY <1>36 DEF WriteTiming
<1>37. CASE WriteStateFails
  BY <1>37 DEF WriteStateFails, Fault
<1>38. CASE RestoreGovernors
  BY <1>38 DEF RestoreGovernors
<1>39. CASE CleanupBinds
  BY <1>39 DEF CleanupBinds
<1>40. CASE CleanupBindsFails
  BY <1>40 DEF CleanupBindsFails, Fault
<1>41. CASE Rollback
  BY <1>41 DEF Rollback
<1>42. CASE RollbackFails
  BY <1>42 DEF RollbackFails, Fault
<1>43. CASE Interrupt
  BY <1>43 DEF Interrupt, Fallible, Handler
<1>47. CASE InterruptEarly
  BY <1>47 DEF InterruptEarly
<1>44. CASE Kill
  BY <1>44 DEF Kill
<1>46. CASE Strap
  <2> DEFINE F == Fetched(choice, installed, Transactions[txn])
  <2>1. /\ txn \in 1..6 /\ choice \in Choice /\ txn' = txn + 1 /\ pc = "base"
        /\ Closure(installed) \subseteq installed
        /\ installed \subseteq Closure(Chosen(choice)) /\ Image \subseteq installed
        /\ installed' = installed \cup F /\ exc = "none"
        /\ UNCHANGED <<choice, pc, phase, exc>>
    BY <1>46 DEF Strap, Transactions
  <2>2. /\ F \subseteq Closure(Chosen(choice)) /\ Closure(installed \cup F) \subseteq installed \cup F
        /\ Requested(choice, Transactions[txn]) \subseteq installed \cup F
    BY <2>1, FetchedFacts
  <2> HIDE DEF F
  <2>3. \A n \in 1..6 : n < txn' => Requested(choice, Transactions[n]) \subseteq installed'
    BY <2>1, <2>2
  <2> QED
    BY <2>1, <2>2, <2>3
<1>45. CASE UNCHANGED vars
  BY <1>45 DEF vars
<1> QED
  BY <1>1, <1>2, <1>3, <1>4, <1>5, <1>6, <1>7, <1>8, <1>9, <1>10, <1>11,
     <1>12, <1>13, <1>14, <1>15, <1>16, <1>17, <1>18, <1>19, <1>20, <1>21,
     <1>22, <1>23, <1>24, <1>25, <1>26, <1>27, <1>28, <1>29, <1>30, <1>31,
     <1>32, <1>33, <1>34, <1>35, <1>36, <1>37, <1>38, <1>39, <1>40, <1>41,
     <1>42, <1>43, <1>44, <1>45, <1>46, <1>47 DEF Next, Run, System, Setup, Factory,
     Finally

(* Every step keeps the verdict in line with the target.                    *)
LEMMA StepVerdict ==
  TypeOK /\ VerdictFollowsDisk /\ [Next]_vars => VerdictFollowsDisk'
<1> SUFFICES ASSUME TypeOK /\ VerdictFollowsDisk, [Next]_vars PROVE VerdictFollowsDisk'
  OBVIOUS
<1> USE DEF TypeOK, Pcs, Fallible, VerdictFollowsDisk, FinallyPcs,
      resources, mode, packages, outcome, Goto
<1>1. CASE ConfigError
  BY <1>1 DEF ConfigError, Fault
<1>2. CASE Boost
  BY <1>2 DEF Boost
<1>3. CASE Enter
  <2>1. /\ phase + 1 \in 1..Last /\ phase' = phase + 1
        /\ pc' = Entry(phase + 1)
    BY <1>3 DEF Enter, TypeOK
  <2> QED
    BY <1>3, <2>1, Entries DEF Enter
<1>4. CASE Body
  BY <1>4 DEF Body, Step
<1>5. CASE Verify
  BY <1>5 DEF Verify
<1>6. CASE Cleanup
  BY <1>6 DEF Cleanup, Touch
<1>7. CASE Partition
  BY <1>7 DEF Partition, Touch
<1>8. CASE PartitionRace
  BY <1>8 DEF PartitionRace, Touch
<1>9. CASE Layout
  BY <1>9 DEF Layout
<1>10. CASE MountCache
  BY <1>10 DEF MountCache, Mount
<1>11. CASE TrackCache
  BY <1>11 DEF TrackCache, Track
<1>12. CASE Mask
  BY <1>12 DEF Mask, Step
<1>13. CASE Base
  BY <1>13 DEF Base, Step
<1>14. CASE ReleaseCache
  BY <1>14 DEF ReleaseCache
<1>15. CASE ReleaseCacheFails
  BY <1>15 DEF ReleaseCacheFails, Fault
<1>16. CASE WriteFstab
  BY <1>16 DEF WriteFstab
<1>17. CASE SkipPrepare
  BY <1>17 DEF SkipPrepare, Step
<1>18. CASE MountMirror
  BY <1>18 DEF MountMirror, Mount
<1>19. CASE TrackMirror
  BY <1>19 DEF TrackMirror, Track
<1>20. CASE MountPackages
  BY <1>20 DEF MountPackages, Mount
<1>21. CASE TrackPackages
  BY <1>21 DEF TrackPackages, Track
<1>22. CASE MountLog
  BY <1>22 DEF MountLog, Mount
<1>23. CASE MountLogFails
  BY <1>23 DEF MountLogFails, Fault
<1>24. CASE LogEnv
  BY <1>24 DEF LogEnv, Step
<1>25. CASE Chroot
  BY <1>25 DEF Chroot, Step
<1>26. CASE UnmountLog
  BY <1>26 DEF UnmountLog
<1>27. CASE UnmountLogFails
  BY <1>27 DEF UnmountLogFails, Fault
<1>28. CASE SkipSnapshot
  BY <1>28 DEF SkipSnapshot, Step
<1>29. CASE MountTop
  BY <1>29 DEF MountTop, Mount
<1>30. CASE Snapshot
  BY <1>30 DEF Snapshot, Step
<1>31. CASE UnmountTop
  BY <1>31 DEF UnmountTop
<1>32. CASE UnmountTopFails
  BY <1>32 DEF UnmountTopFails, Fault
<1>33. CASE PhaseRaises
  BY <1>33 DEF PhaseRaises, Fault, Touch, Fallible, Handler
<1>34. CASE Handle
  BY <1>34 DEF Handle
<1>35. CASE Report
  BY <1>35 DEF Report
<1>36. CASE WriteTiming
  BY <1>36 DEF WriteTiming
<1>37. CASE WriteStateFails
  BY <1>37 DEF WriteStateFails, Fault
<1>38. CASE RestoreGovernors
  BY <1>38 DEF RestoreGovernors
<1>39. CASE CleanupBinds
  BY <1>39 DEF CleanupBinds
<1>40. CASE CleanupBindsFails
  BY <1>40 DEF CleanupBindsFails, Fault
<1>41. CASE Rollback
  BY <1>41 DEF Rollback
<1>42. CASE RollbackFails
  BY <1>42 DEF RollbackFails, Fault
<1>43. CASE Interrupt
  BY <1>43 DEF Interrupt, Fallible, Handler
<1>47. CASE InterruptEarly
  BY <1>47 DEF InterruptEarly
<1>44. CASE Kill
  BY <1>44 DEF Kill
<1>46. CASE Strap
  BY <1>46 DEF Strap
<1>45. CASE UNCHANGED vars
  BY <1>45 DEF vars
<1> QED
  BY <1>1, <1>2, <1>3, <1>4, <1>5, <1>6, <1>7, <1>8, <1>9, <1>10, <1>11,
     <1>12, <1>13, <1>14, <1>15, <1>16, <1>17, <1>18, <1>19, <1>20, <1>21,
     <1>22, <1>23, <1>24, <1>25, <1>26, <1>27, <1>28, <1>29, <1>30, <1>31,
     <1>32, <1>33, <1>34, <1>35, <1>36, <1>37, <1>38, <1>39, <1>40, <1>41,
     <1>42, <1>43, <1>44, <1>45, <1>46, <1>47 DEF Next, Run, System, Setup, Factory,
     Finally

(* The strengthening is an invariant. *)
THEOREM IInvInvariant == Spec => []IInv
<1>1. IInv /\ [Next]_vars => IInv'
  BY StepType, StepBinds, StepVerdict, StepPackages, StepMounts DEF IInv
<1> QED
  BY InitIInv, <1>1, PTL DEF Spec

(* The variables keep their types. *)
THEOREM TypeCorrect == Spec => []TypeOK
<1>1. IInv => TypeOK
  BY DEF IInv
<1> QED
  BY IInvInvariant, <1>1, PTL

(* No live-only bind reaches the installed system's fstab. *)
THEOREM CleanFstab == Spec => []FstabClean
<1>1. IInv => FstabClean
  BY DEF IInv, BindsInPlace
<1> QED
  BY IInvInvariant, <1>1, PTL

(* The exit status tells the truth about the disk. *)
THEOREM TruthfulExit == Spec => []ExitTellsTruth
<1>1. IInv => ExitTellsTruth
  BY DEF IInv, TypeOK, VerdictFollowsDisk, ExitTellsTruth, FinallyPcs
<1> QED
  BY IInvInvariant, <1>1, PTL

(* No transaction needs an archive that the reduced mirror lacks, whatever  *)
(* the lists, the dependencies and the choice.                              *)
THEOREM NothingMissing == Spec => []ArchivesAtHand
<1>1. IInv => ArchivesAtHand
  <2> SUFFICES ASSUME IInv, pc = "base", txn <= Len(Transactions)
               PROVE  Fetched(choice, installed, Transactions[txn]) \subseteq Shipped
    BY DEF ArchivesAtHand
  <2>1. /\ txn \in 1..6 /\ choice \in Choice /\ installed \in SUBSET Package
        /\ Closure(installed) \subseteq installed
        /\ installed \subseteq Closure(Chosen(choice)) /\ Image \subseteq installed
    BY DEF IInv, TypeOK, PackagesInPlace, Transactions
  <2> QED
    BY <2>1, FetchedFacts
<1> QED
  BY IInvInvariant, <1>1, PTL

(* A finished install holds what was chosen, with its dependencies.         *)
THEOREM ChosenInstalled == Spec => []AsChosen
<1>1. IInv => AsChosen
  BY DEF IInv, TypeOK, PackagesInPlace, VerdictFollowsDisk, AsChosen
<1> QED
  BY IInvInvariant, <1>1, PTL

(* Nothing temporary stays mounted and no governor boosted, but for mounts  *)
(* whose own umount failed, unless the debugging log or a signal gets in    *)
(* between.                                                                 *)
THEOREM Released ==
  ASSUME ~Debug
  PROVE  Spec => []NothingLeftMounted
<1>1. IInv => NothingLeftMounted
  BY DEF IInv, MountsAccounted, NothingLeftMounted, Forgotten
<1> QED
  BY IInvInvariant, <1>1, PTL

(* With it too, every mount but that of the log is released, and the        *)
(* governors are back: a debug line that cannot be written costs no other   *)
(* cleanup.                                                                 *)
THEOREM ReleasedButTheLog ==
  Spec => [](pc = "exit" /\ ~cut => mounted \subseteq stuck \cup {"log"} /\ ~boosted)
<1>1. IInv => (pc = "exit" /\ ~cut => mounted \subseteq stuck \cup {"log"} /\ ~boosted)
  BY DEF IInv, MountsAccounted, Forgotten
<1> QED
  BY IInvInvariant, <1>1, PTL

(* Every step is a step or a stutter of the contract.                       *)
LEMMA StepContract ==
  IInv /\ [Next]_vars => [Contract!Next]_Contract!vars
<1> SUFFICES ASSUME IInv, [Next]_vars PROVE [Contract!Next]_Contract!vars
  OBVIOUS
<1> USE DEF IInv, TypeOK, VerdictFollowsDisk, FinallyPcs, resources,
      mode, packages, outcome, Goto, Contract!Next, Contract!vars, Contract!Change,
      Contract!Complete, Contract!Succeed, Contract!Fail, Contract!Revert
<1>1. CASE ConfigError
  BY <1>1 DEF ConfigError, Fault
<1>2. CASE Boost
  BY <1>2 DEF Boost
<1>3. CASE Enter
  BY <1>3 DEF Enter
<1>4. CASE Body
  BY <1>4 DEF Body, Step
<1>5. CASE Verify
  BY <1>5 DEF Verify
<1>6. CASE Cleanup
  BY <1>6 DEF Cleanup, Touch
<1>7. CASE Partition
  BY <1>7 DEF Partition, Touch
<1>8. CASE PartitionRace
  BY <1>8 DEF PartitionRace, Touch
<1>9. CASE Layout
  BY <1>9 DEF Layout
<1>10. CASE MountCache
  BY <1>10 DEF MountCache, Mount
<1>11. CASE TrackCache
  BY <1>11 DEF TrackCache, Track
<1>12. CASE Mask
  BY <1>12 DEF Mask, Step
<1>13. CASE Base
  BY <1>13 DEF Base, Step
<1>14. CASE ReleaseCache
  BY <1>14 DEF ReleaseCache
<1>15. CASE ReleaseCacheFails
  BY <1>15 DEF ReleaseCacheFails, Fault
<1>16. CASE WriteFstab
  BY <1>16 DEF WriteFstab
<1>17. CASE SkipPrepare
  BY <1>17 DEF SkipPrepare, Step
<1>18. CASE MountMirror
  BY <1>18 DEF MountMirror, Mount
<1>19. CASE TrackMirror
  BY <1>19 DEF TrackMirror, Track
<1>20. CASE MountPackages
  BY <1>20 DEF MountPackages, Mount
<1>21. CASE TrackPackages
  BY <1>21 DEF TrackPackages, Track
<1>22. CASE MountLog
  BY <1>22 DEF MountLog, Mount
<1>23. CASE MountLogFails
  BY <1>23 DEF MountLogFails, Fault
<1>24. CASE LogEnv
  BY <1>24 DEF LogEnv, Step
<1>25. CASE Chroot
  BY <1>25 DEF Chroot, Step
<1>26. CASE UnmountLog
  BY <1>26 DEF UnmountLog
<1>27. CASE UnmountLogFails
  BY <1>27 DEF UnmountLogFails, Fault
<1>28. CASE SkipSnapshot
  BY <1>28 DEF SkipSnapshot, Step
<1>29. CASE MountTop
  BY <1>29 DEF MountTop, Mount
<1>30. CASE Snapshot
  BY <1>30 DEF Snapshot, Step
<1>31. CASE UnmountTop
  BY <1>31 DEF UnmountTop
<1>32. CASE UnmountTopFails
  BY <1>32 DEF UnmountTopFails, Fault
<1>33. CASE PhaseRaises
  <2>1. verdict' = verdict /\ verdict = "none"
    BY <1>33 DEF PhaseRaises, Fallible
  <2>2. CASE pc = "partition"
    BY <1>33, <2>1, <2>2 DEF PhaseRaises, Touch
  <2>3. CASE pc # "partition"
    BY <1>33, <2>1, <2>3 DEF PhaseRaises
  <2> QED
    BY <2>2, <2>3
<1>34. CASE Handle
  BY <1>34 DEF Handle
<1>35. CASE Report
  BY <1>35 DEF Report
<1>36. CASE WriteTiming
  BY <1>36 DEF WriteTiming
<1>37. CASE WriteStateFails
  BY <1>37 DEF WriteStateFails, Fault
<1>38. CASE RestoreGovernors
  BY <1>38 DEF RestoreGovernors
<1>39. CASE CleanupBinds
  BY <1>39 DEF CleanupBinds
<1>40. CASE CleanupBindsFails
  BY <1>40 DEF CleanupBindsFails, Fault
<1>41. CASE Rollback
  BY <1>41 DEF Rollback
<1>42. CASE RollbackFails
  BY <1>42 DEF RollbackFails, Fault
<1>43. CASE Interrupt
  BY <1>43 DEF Interrupt
<1>47. CASE InterruptEarly
  BY <1>47 DEF InterruptEarly
<1>44. CASE Kill
  <2>1. CASE verdict = "none"
    BY <1>44, <2>1 DEF Kill
  <2>2. CASE verdict # "none"
    BY <1>44, <2>2 DEF Kill
  <2> QED
    BY <2>1, <2>2
<1>46. CASE Strap
  BY <1>46 DEF Strap
<1>45. CASE UNCHANGED vars
  BY <1>45 DEF vars
<1> QED
  BY <1>1, <1>2, <1>3, <1>4, <1>5, <1>6, <1>7, <1>8, <1>9, <1>10, <1>11,
     <1>12, <1>13, <1>14, <1>15, <1>16, <1>17, <1>18, <1>19, <1>20, <1>21,
     <1>22, <1>23, <1>24, <1>25, <1>26, <1>27, <1>28, <1>29, <1>30, <1>31,
     <1>32, <1>33, <1>34, <1>35, <1>36, <1>37, <1>38, <1>39, <1>40, <1>41,
     <1>42, <1>43, <1>44, <1>45, <1>46, <1>47 DEF Next, Run, System, Setup, Factory,
     Finally

(* Safety of the refinement: the orchestrator's runs are runs of the        *)
(* contract, but for the contract's fairness.                               *)
THEOREM KeepsContractSteps ==
  Spec => Contract!Init /\ [][Contract!Next]_Contract!vars
<1>1. Init => Contract!Init
  BY DEF Init, Contract!Init
<1> QED
  BY IInvInvariant, StepContract, <1>1, PTL DEF Spec
=============================================================================
