-------------------------------- MODULE Layout --------------------------------
(***************************************************************************)
(* Where Monarch's partitions go: the arithmetic of run_partition_decide    *)
(* (configurator) for an install in free space, of                          *)
(* write_full_disk_install_config for one that takes the disk, and what     *)
(* parted makes of the bounds it is given.                                 *)
(*                                                                         *)
(* The unit is the sector.  The code computes in bytes; a byte offset given *)
(* to parted means the sector it lies in, and every size here is a multiple *)
(* of the sector size, so the arithmetic is the same.  Ends are inclusive,  *)
(* as parted prints and takes them.                                        *)
(***************************************************************************)
EXTENDS Integers

CONSTANTS
  Mib,         \* ALIGN, gpt_backup_reserve and the size tolerance, in sectors
  EfiSize,     \* EFI_SIZE_B: 2 GiB
  MinInstall,  \* MIN_INSTALL_B: 32 GiB
  Reserve,     \* sectors the GPT keeps at either end of the disk
  DiskSizes,   \* the disks considered, by size
  Lengths,     \* lengths of partitions that are not Monarch's
  MaxExternal  \* bound on the partitions added by others meanwhile

ASSUME LayoutAssumption ==
  /\ Mib \in Nat \ {0}
  /\ EfiSize \in Nat \ {0}
  /\ MinInstall \in Nat
  /\ EfiSize % Mib = 0
  /\ MinInstall >= EfiSize + 2 * Mib
  /\ Reserve \in Nat /\ Reserve < Mib
  /\ DiskSizes \subseteq Nat /\ \A d \in DiskSizes : d >= 2 * Mib
  /\ Lengths \subseteq Nat \ {0}
  /\ MaxExternal \in Nat

-----------------------------------------------------------------------------
(* The arithmetic.                                                           *)

RoundDown(x) == (x \div Mib) * Mib
RoundUp(x)   == RoundDown(x + Mib - 1)

Region(first, last) == [first |-> first, last |-> last]

Size(r) == r.last - r.first + 1

Overlap(r, q) == r.first <= q.last /\ q.first <= r.last

EfiStart(gap)  == RoundUp(gap.first)
EfiEnd(gap)    == EfiStart(gap) + EfiSize

RootStart(gap) == RoundUp(EfiEnd(gap) + 1)

\* Faulty variant: the end of the free region is rounded up.
RootEndRoundedUp(gap) == RoundUp(gap.last)

RootEnd(gap)   == RoundDown(gap.last)

\* Faulty variant: the minimum is not asked for.
FitsAnything(gap) == RootEnd(gap) > RootStart(gap)

\* Faulty variant: the root partition alone must have the minimum size.
FitsRootOnly(gap) ==
  /\ RootEnd(gap) > RootStart(gap)
  /\ RootEnd(gap) - RootStart(gap) >= MinInstall

Fits(gap) ==
  /\ RootEnd(gap) > RootStart(gap)
  /\ RootEnd(gap) - EfiStart(gap) >= MinInstall

Plan(gap) ==
  [efi  |-> Region(EfiStart(gap), EfiEnd(gap)),
   root |-> Region(RootStart(gap), RootEnd(gap))]

NoPlan == [efi |-> Region(0, 0), root |-> Region(0, 0)]

\* The region synthesised for a disk without a table, which parted cannot list.
BlankGap(d) == Region(Mib, ((d - Mib) \div Mib) * Mib)

\* write_full_disk_install_config: starts and sizes.
FullDisk(d) ==
  [efi  |-> Region(Mib, Mib + EfiSize - 1),
   root |-> Region(EfiSize + Mib, RoundDown(d) - Mib - 1)]

\* The size check of create_partition: want and actual differ by at most 1 MiB.
SizeAccepted(r, actual) ==
  /\ actual >= (r.last - r.first) - Mib
  /\ actual <= (r.last - r.first) + Mib

-----------------------------------------------------------------------------

VARIABLES
  size,    \* of the disk
  mode,    \* "free": install in free space; "full": take the disk
  labeled, \* it has a partition table
  theirs,  \* the partitions that are not this run's
  pc,      \* "decide", "efi", "root", "done", "refused" or "failed"
  plan,    \* the two regions decided on
  made,    \* the partitions this run has made
  seen,    \* the free regions the decision was taken from
  meddled  \* partitions others have added since the program started

vars == <<size, mode, labeled, theirs, pc, plan, made, seen, meddled>>

Usable(d) == Region(Reserve, d - 1 - Reserve)

Free(r) ==
  /\ Usable(size).first <= r.first /\ r.first <= r.last /\ r.last <= Usable(size).last
  /\ \A q \in theirs \cup made : ~Overlap(r, q)

\* The free regions parted prints, each between two neighbours or disk ends.
Gaps ==
  {g \in {Region(a, b) : a \in {Usable(size).first} \cup {q.last + 1 : q \in theirs \cup made},
                        b \in {Usable(size).last} \cup {q.first - 1 : q \in theirs \cup made}} :
     Free(g)}

Init ==
  /\ size \in DiskSizes
  /\ mode \in {"free", "full"}
  /\ labeled \in BOOLEAN
  /\ made = {}
  /\ theirs \in {{}} \cup {{Region(a, a + l - 1)} : a \in 0..size, l \in Lengths}
  /\ \A r \in theirs : labeled /\ Usable(size).first <= r.first /\ r.last <= Usable(size).last
  /\ pc = "decide"
  /\ plan = NoPlan
  /\ seen = {}
  /\ meddled = 0

\* The region that awk keeps: the first of the longest.
Chosen(g) ==
  IF labeled
    THEN /\ g \in Gaps
         /\ \A h \in Gaps : Size(h) <= Size(g) /\ (Size(h) = Size(g) => g.first <= h.first)
    ELSE g = BlankGap(size)

Decide ==
  /\ pc = "decide" /\ mode = "free"
  /\ seen' = Gaps
  /\ \/ \E g \in Gaps \cup {BlankGap(size)} :
          /\ Chosen(g)
          /\ IF Fits(g) THEN pc' = "efi" /\ plan' = Plan(g)
                        ELSE pc' = "refused" /\ UNCHANGED plan
     \/ labeled /\ Gaps = {} /\ pc' = "refused" /\ UNCHANGED plan
  /\ UNCHANGED <<size, mode, labeled, theirs, made, meddled>>

\* parted makes the partition where it was asked to or not at all, and what it
\* made passes the size check or the run fails.
Make(p, r, next) ==
  /\ pc = p
  /\ IF Free(r) /\ SizeAccepted(r, Size(r))
       THEN pc' = next /\ made' = made \cup {r}
       ELSE pc' = "failed" /\ UNCHANGED made
  /\ UNCHANGED <<size, mode, theirs, plan, seen, meddled>>

\* A disk without a table gets one first.
MakeEfi  == labeled' = TRUE /\ Make("efi", plan.efi, "root")
MakeRoot == Make("root", plan.root, "done") /\ UNCHANGED labeled

\* The disk is wiped and archinstall makes what the configuration says; nothing
\* before it looks at the size of the disk.
TakeDisk ==
  /\ pc = "decide" /\ mode = "full"
  /\ labeled' = TRUE
  /\ theirs' = {}
  /\ plan' = FullDisk(size)
  /\ LET r == FullDisk(size).root IN
       IF r.first <= r.last /\ r.last <= Usable(size).last
         THEN pc' = "done" /\ made' = {plan'.efi, plan'.root}
         ELSE pc' = "failed" /\ UNCHANGED made
  /\ UNCHANGED <<size, mode, seen, meddled>>

\* Another program adds a partition in free space.
ExternalAdd ==
  /\ labeled /\ pc \in {"decide", "efi", "root"} /\ meddled < MaxExternal
  /\ \E a \in 0..size, l \in Lengths :
       /\ Free(Region(a, a + l - 1))
       /\ theirs' = theirs \cup {Region(a, a + l - 1)}
  /\ meddled' = meddled + 1
  /\ UNCHANGED <<size, mode, labeled, pc, plan, made, seen>>

Next == Decide \/ TakeDisk \/ MakeEfi \/ MakeRoot \/ ExternalAdd

Spec == Init /\ [][Next]_vars

-----------------------------------------------------------------------------
(* Properties.                                                               *)

\* The layout that was decided on is one parted can make and create_partition
\* accepts: the run fails over it only if others changed the disk meanwhile, or
\* if a disk to be taken has no room for a root partition at all.
PlanIsFeasible ==
  pc = "failed" => IF mode = "free" THEN meddled > 0
                                    ELSE size < EfiSize + 3 * Mib

\* What the run has made is what was promised: an EFI partition of the full size
\* and a root after it, aligned, in nobody else's sectors and off the GPT; in
\* free space MinInstall together, else all of the disk but the margins.
MadeAsPromised ==
  pc = "done" =>
    /\ made = {plan.efi, plan.root}
    /\ plan.efi.first % Mib = 0 /\ plan.root.first % Mib = 0
    /\ Size(plan.efi) >= EfiSize
    /\ plan.efi.last < plan.root.first
    /\ Usable(size).first <= plan.efi.first /\ plan.root.last <= Usable(size).last
    /\ \A r \in theirs, q \in made : ~Overlap(r, q)
    /\ IF mode = "free" THEN plan.root.last - plan.efi.first >= MinInstall
                        ELSE Size(plan.root) > size - EfiSize - 3 * Mib

\* A refusal is right: no free region that was there has room for MinInstall
\* after alignment at both ends (and the margin kept on a disk without a table).
RefusalJustified ==
  pc = "refused" =>
    \A g \in seen : Size(g) < MinInstall + (IF labeled THEN 2 ELSE 3) * Mib

=============================================================================
