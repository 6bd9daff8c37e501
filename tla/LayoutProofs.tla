----------------------------- MODULE LayoutProofs -----------------------------
(***************************************************************************)
(* Layout's properties for every size of disk, of MiB, of EFI partition and *)
(* of minimum, and any partitions of others.                               *)
(***************************************************************************)
EXTENDS Layout, TLAPS

Regions == [first : Int, last : Int]

\* RoundDown is the greatest multiple of Mib that is not above x.
LEMMA RoundDownFacts ==
  ASSUME NEW x \in Nat
  PROVE  /\ RoundDown(x) \in Nat
         /\ RoundDown(x) <= x /\ x < RoundDown(x) + Mib
         /\ RoundDown(x) % Mib = 0
<1> USE LayoutAssumption
<1>1. x = Mib * (x \div Mib) + (x % Mib) /\ x % Mib < Mib /\ x % Mib >= 0
  BY SMT
<1>2. x \div Mib \in Nat
  BY SMT
<1>3. Mib * (x \div Mib) \in Nat /\ Mib * (x \div Mib) = (x \div Mib) * Mib
  BY <1>2, SMT
<1>4. ((x \div Mib) * Mib) % Mib = 0
  BY <1>2, SMT
<1> QED
  BY <1>1, <1>2, <1>3, <1>4 DEF RoundDown

\* Rounding a rounded number changes nothing.
LEMMA RoundDownTwice ==
  ASSUME NEW x \in Nat
  PROVE  RoundDown(RoundDown(x)) = RoundDown(x)
<1> USE LayoutAssumption
<1> DEFINE q == x \div Mib
<1>1. q \in Nat
  BY SMT
<1>2. (q * Mib) \div Mib = q
  BY <1>1, SMT
<1> QED
  BY <1>2 DEF RoundDown

\* RoundUp is the least multiple of Mib that is not below x.
LEMMA RoundUpFacts ==
  ASSUME NEW x \in Nat
  PROVE  /\ RoundUp(x) \in Nat
         /\ x <= RoundUp(x) /\ RoundUp(x) < x + Mib
         /\ RoundUp(x) % Mib = 0
<1>1. x + Mib - 1 \in Nat
  BY LayoutAssumption
<1> QED
  BY <1>1, RoundDownFacts, LayoutAssumption DEF RoundUp

\* What fits is aligned, large enough, in order and inside the free region.
LEMMA PlanSound ==
  ASSUME NEW gap \in Regions, gap.first \in Nat, gap.last \in Nat, Fits(gap)
  PROVE  /\ Plan(gap) \in [efi : Regions, root : Regions]
         /\ Plan(gap).efi.first % Mib = 0 /\ Plan(gap).root.first % Mib = 0
         /\ Size(Plan(gap).efi) >= EfiSize
         /\ gap.first <= Plan(gap).efi.first
         /\ Plan(gap).efi.first <= Plan(gap).efi.last
         /\ Plan(gap).efi.last < Plan(gap).root.first
         /\ Plan(gap).root.first < Plan(gap).root.last
         /\ Plan(gap).root.last <= gap.last
         /\ Plan(gap).root.last - Plan(gap).efi.first >= MinInstall
<1> USE LayoutAssumption
<1>1. /\ EfiStart(gap) \in Nat /\ gap.first <= EfiStart(gap)
      /\ EfiStart(gap) % Mib = 0
  BY RoundUpFacts DEF EfiStart
<1>2. EfiEnd(gap) \in Nat /\ EfiEnd(gap) = EfiStart(gap) + EfiSize
  BY <1>1 DEF EfiEnd
<1>3. /\ RootStart(gap) \in Nat /\ EfiEnd(gap) < RootStart(gap)
      /\ RootStart(gap) % Mib = 0
  <2>1. EfiEnd(gap) + 1 \in Nat
    BY <1>2
  <2> QED
    BY <2>1, RoundUpFacts, <1>2 DEF RootStart
<1>4. RootEnd(gap) \in Nat /\ RootEnd(gap) <= gap.last
  BY RoundDownFacts DEF RootEnd
<1> QED
  BY <1>1, <1>2, <1>3, <1>4 DEF Plan, Region, Regions, Size, Fits

\* What does not fit is too small once both ends are aligned.
LEMMA RefusalSound ==
  ASSUME NEW gap \in Regions, gap.first \in Nat, gap.last \in Nat, ~Fits(gap)
  PROVE  /\ Size(gap) < MinInstall + 2 * Mib
         /\ RootEnd(gap) - EfiStart(gap) < MinInstall
<1> USE LayoutAssumption
<1>1. EfiStart(gap) \in Nat /\ EfiStart(gap) < gap.first + Mib /\ EfiStart(gap) % Mib = 0
  BY RoundUpFacts DEF EfiStart
<1>2. RootStart(gap) \in Nat /\ RootStart(gap) <= EfiStart(gap) + EfiSize + Mib
  <2>1. EfiEnd(gap) + 1 \in Nat /\ EfiEnd(gap) = EfiStart(gap) + EfiSize
    BY <1>1 DEF EfiEnd
  <2> QED
    BY <2>1, <1>1, RoundUpFacts DEF RootStart
<1>3. RootEnd(gap) \in Nat /\ gap.last < RootEnd(gap) + Mib
  BY RoundDownFacts DEF RootEnd
<1>4. RootEnd(gap) - EfiStart(gap) < MinInstall
  BY <1>1, <1>2, <1>3 DEF Fits
<1> QED
  BY <1>1, <1>3, <1>4 DEF Size, Regions

-----------------------------------------------------------------------------

TypeOK ==
  /\ size \in DiskSizes
  /\ mode \in {"free", "full"}
  /\ labeled \in BOOLEAN
  /\ theirs \subseteq Regions /\ made \subseteq Regions /\ seen \subseteq Regions
  /\ pc \in {"decide", "efi", "root", "done", "refused", "failed"}
  /\ plan \in [efi : Regions, root : Regions]
  /\ meddled \in Nat

InUse(r) == r \in theirs \cup made

Inside(r) == Usable(size).first <= r.first /\ r.last <= Usable(size).last

\* A plan that has all that MadeAsPromised asks of its bounds.
GoodPlan ==
  /\ plan.efi.first % Mib = 0 /\ plan.root.first % Mib = 0
  /\ Size(plan.efi) >= EfiSize
  /\ plan.efi.first <= plan.efi.last
  /\ plan.efi.last < plan.root.first
  /\ plan.root.first <= plan.root.last
  /\ IF mode = "free" THEN plan.root.last - plan.efi.first >= MinInstall
                      ELSE Size(plan.root) > size - EfiSize - 3 * Mib

\* The regions of the plan that are not made yet are free until others meddle.
PlanInv ==
  /\ pc \in {"efi", "root"} => mode = "free"
  /\ pc \in {"efi", "root", "done"} => GoodPlan
  /\ (pc = "efi" /\ meddled = 0) => Free(plan.efi)
  /\ (pc \in {"efi", "root"} /\ meddled = 0) => Free(plan.root)

\* What is made is the part of the plan that should be, in free sectors.
MadeInv ==
  /\ pc \in {"decide", "efi"} => made = {}
  /\ pc = "root" => made = {plan.efi}
  /\ pc = "done" => made = {plan.efi, plan.root}
  /\ \A r \in made : Inside(r)
  /\ \A r \in theirs, q \in made : ~Overlap(r, q)
  /\ ~labeled => theirs = {}

IInv ==
  /\ TypeOK
  /\ PlanInv
  /\ MadeInv
  /\ PlanIsFeasible
  /\ RefusalJustified

\* The regions parted prints, and the one made up for a blank disk, are regions.
LEMMA GapFacts ==
  ASSUME TypeOK, NEW g \in Gaps
  PROVE  g \in Regions /\ g.first \in Nat /\ g.last \in Nat /\ Free(g)
<1> USE LayoutAssumption DEF TypeOK
<1>1. PICK a \in {Usable(size).first} \cup {q.last + 1 : q \in theirs \cup made},
           b \in {Usable(size).last} \cup {q.first - 1 : q \in theirs \cup made} :
        g = Region(a, b) /\ Free(g)
  BY DEF Gaps
<1>2. a \in Int /\ b \in Int
  BY <1>1 DEF Usable, Region, Regions
<1>3. g \in Regions /\ g.first = a /\ g.last = b
  BY <1>1, <1>2 DEF Region, Regions
<1> QED
  BY <1>1, <1>2, <1>3 DEF Free, Usable, Region

\* A region inside a free one is free.
LEMMA FreeWithin ==
  ASSUME TypeOK, NEW g \in Regions, Free(g), NEW r \in Regions,
         g.first <= r.first, r.first <= r.last, r.last <= g.last
  PROVE  Free(r)
BY LayoutAssumption DEF TypeOK, Free, Overlap, Usable, Region, Regions

\* The region made up for a blank disk is usable.
LEMMA BlankFacts ==
  ASSUME NEW d \in DiskSizes
  PROVE  /\ BlankGap(d) \in Regions
         /\ BlankGap(d).first = Mib /\ BlankGap(d).last \in Nat
         /\ BlankGap(d).last <= d - Mib /\ d < BlankGap(d).last + 2 * Mib
<1> USE LayoutAssumption
<1>1. d \in Nat /\ d - Mib \in Nat
  BY SMT
<1>2. BlankGap(d) = [first |-> Mib, last |-> RoundDown(d - Mib)]
  BY DEF BlankGap, RoundDown, Region
<1>3. /\ RoundDown(d - Mib) \in Nat /\ RoundDown(d - Mib) <= d - Mib
      /\ d - Mib < RoundDown(d - Mib) + Mib
  BY <1>1, RoundDownFacts
<1> QED
  BY <1>1, <1>2, <1>3 DEF Regions

\* The region the decision is taken on is usable; it is free if there is a table,
\* and nothing is on the disk if there is none.
LEMMA ChosenFacts ==
  ASSUME TypeOK, MadeInv, pc = "decide", NEW g \in Gaps \cup {BlankGap(size)}, Chosen(g)
  PROVE  /\ g \in Regions /\ g.first \in Nat /\ g.last \in Nat
         /\ Inside(g)
         /\ \A q \in theirs \cup made : ~Overlap(g, q)
<1> USE LayoutAssumption
<1>1. CASE labeled
  BY <1>1, GapFacts DEF Chosen, Free, Inside
<1>2. CASE ~labeled
  <2>1. g = BlankGap(size) /\ theirs = {} /\ made = {}
    BY <1>2 DEF Chosen, MadeInv
  <2>2. size \in DiskSizes /\ size \in Nat
    BY DEF TypeOK
  <2> QED
    BY <2>1, <2>2, BlankFacts DEF Inside, Usable, Region
<1> QED
  BY <1>1, <1>2

\* Deciding on a region gives a plan whose regions are free; declining all of
\* them is right.
LEMMA DecideStep ==
  ASSUME IInv, Decide PROVE IInv'
<1> USE LayoutAssumption DEF IInv
<1>1. Gaps \subseteq Regions
  BY GapFacts
<1>2. /\ pc = "decide" /\ mode = "free" /\ made = {} /\ seen' = Gaps
      /\ UNCHANGED <<size, mode, labeled, theirs, made, meddled>>
  BY DEF Decide, MadeInv
<1>3. ASSUME NEW g \in Gaps \cup {BlankGap(size)}, Chosen(g), Fits(g),
             pc' = "efi", plan' = Plan(g)
      PROVE  IInv'
  <2>1. /\ g \in Regions /\ g.first \in Nat /\ g.last \in Nat
        /\ Inside(g) /\ \A q \in theirs \cup made : ~Overlap(g, q)
    BY <1>2, <1>3, ChosenFacts
  <2>2. /\ plan' \in [efi : Regions, root : Regions]
        /\ plan'.efi.first % Mib = 0 /\ plan'.root.first % Mib = 0
        /\ Size(plan'.efi) >= EfiSize
        /\ g.first <= plan'.efi.first
        /\ plan'.efi.first <= plan'.efi.last
        /\ plan'.efi.last < plan'.root.first
        /\ plan'.root.first < plan'.root.last
        /\ plan'.root.last <= g.last
        /\ plan'.root.last - plan'.efi.first >= MinInstall
    BY <1>3, <2>1, PlanSound
  <2>3. plan'.efi \in Regions /\ plan'.root \in Regions
    BY <2>2
  <2>4. Free(g)
    BY <2>1, <2>2, <2>3 DEF Free, Inside, Regions
  <2>5. Free(plan'.efi) /\ Free(plan'.root)
    <3>1. plan'.efi.last <= g.last /\ g.first <= plan'.root.first
      BY <2>1, <2>2, <2>3 DEF Regions
    <3> QED
      BY <2>1, <2>2, <2>3, <2>4, <3>1, FreeWithin DEF Regions
  <2>6. (Free(plan.efi))' /\ (Free(plan.root))'
    BY <1>2, <2>5 DEF Free, Usable
  <2>7. TypeOK'
    BY <1>1, <1>2, <1>3, <2>2 DEF TypeOK
  <2>8. PlanInv'
    BY <1>2, <1>3, <2>2, <2>3, <2>6 DEF PlanInv, GoodPlan, Regions, Size
  <2>9. MadeInv'
    BY <1>2, <1>3 DEF MadeInv, Inside, Usable
  <2> QED
    BY <1>3, <2>7, <2>8, <2>9 DEF PlanIsFeasible, RefusalJustified
<1>4. ASSUME pc' = "refused", UNCHANGED plan,
             \/ labeled /\ Gaps = {}
             \/ \E g \in Gaps \cup {BlankGap(size)} : Chosen(g) /\ ~Fits(g)
      PROVE  IInv'
  <2>1. TypeOK'
    BY <1>1, <1>2, <1>4 DEF TypeOK
  <2>2. PlanInv' /\ MadeInv' /\ PlanIsFeasible'
    BY <1>2, <1>4 DEF PlanInv, MadeInv, PlanIsFeasible, Inside, Usable
  <2>3. RefusalJustified'
    <3> SUFFICES ASSUME NEW h \in Gaps
                 PROVE  Size(h) < MinInstall + (IF labeled THEN 2 ELSE 3) * Mib
      BY <1>2, <1>4 DEF RefusalJustified
    <3>1. PICK g \in Gaps \cup {BlankGap(size)} : Chosen(g) /\ ~Fits(g)
      BY <1>4
    <3>2. g \in Regions /\ g.first \in Nat /\ g.last \in Nat
      BY <1>2, <3>1, ChosenFacts
    <3>3. /\ Size(g) < MinInstall + 2 * Mib
          /\ RootEnd(g) - EfiStart(g) < MinInstall
      BY <3>1, <3>2, RefusalSound
    <3>4. h \in Regions /\ h.first \in Nat /\ h.last \in Nat /\ Free(h)
      BY GapFacts
    <3>5. CASE labeled
      <4>1. Size(h) <= Size(g)
        BY <3>1, <3>5 DEF Chosen
      <4> QED
        BY <3>2, <3>3, <3>4, <3>5, <4>1 DEF Size, Regions
    <3>6. CASE ~labeled
      <4>1. g = BlankGap(size) /\ size \in DiskSizes /\ size \in Nat
        BY <3>1, <3>6 DEF Chosen, TypeOK
      <4>2. EfiStart(g) = Mib
        <5>1. g.first = Mib /\ Mib \in Nat
          BY <4>1, BlankFacts
        <5>2. RoundUp(Mib) \in Nat /\ Mib <= RoundUp(Mib) /\ RoundUp(Mib) < Mib + Mib
                /\ RoundUp(Mib) % Mib = 0
          BY <5>1, RoundUpFacts
        <5> QED
          BY <5>1, <5>2 DEF EfiStart
      <4>3. RootEnd(g) = g.last
        <5>1. g.last = RoundDown(size - Mib)
          BY <4>1 DEF BlankGap, RoundDown, Region
        <5>2. size - Mib \in Nat
          BY <4>1
        <5> QED
          BY <5>1, <5>2, RoundDownTwice DEF RootEnd
      <4>4. size < g.last + 2 * Mib
        BY <4>1, BlankFacts
      <4>5. Size(h) <= size
        BY <3>4, <4>1 DEF Size, Free, Usable, Region, Regions
      <4> QED
        BY <3>2, <3>3, <3>4, <3>6, <4>1, <4>2, <4>3, <4>4, <4>5 DEF Size, Regions
    <3> QED
      BY <3>5, <3>6
  <2> QED
    BY <2>1, <2>2, <2>3
<1> QED
  BY <1>3, <1>4 DEF Decide

\* Making a partition keeps the promise, or fails because others meddled.
LEMMA MakeStep ==
  ASSUME IInv, MakeEfi \/ MakeRoot PROVE IInv'
<1> USE LayoutAssumption DEF IInv
<1>1. mode = "free" /\ GoodPlan /\ plan.efi \in Regions /\ plan.root \in Regions
  BY DEF MakeEfi, MakeRoot, Make, PlanInv, TypeOK
<1>2. \A r \in Regions : SizeAccepted(r, Size(r))
  BY DEF SizeAccepted, Size, Regions
<1>3. CASE MakeEfi
  <2>1. /\ pc = "efi" /\ made = {} /\ labeled' = TRUE
        /\ UNCHANGED <<size, mode, theirs, plan, seen, meddled>>
    BY <1>3 DEF MakeEfi, Make, MadeInv
  <2>2. CASE Free(plan.efi)
    <3>1. pc' = "root" /\ made' = {plan.efi}
      BY <1>1, <1>2, <1>3, <2>1, <2>2 DEF MakeEfi, Make
    <3>2. TypeOK'
      BY <1>1, <2>1, <3>1 DEF TypeOK
    <3>3. MadeInv'
      BY <1>1, <2>1, <2>2, <3>1 DEF MadeInv, Inside, Free, Overlap, Usable, Regions, Region, TypeOK
    <3>4. (Free(plan.root))' <=> Free(plan.root)
      BY <1>1, <2>1, <3>1 DEF Free, Usable, Overlap, GoodPlan, Regions
    <3>5. PlanInv'
      BY <1>1, <2>1, <3>1, <3>4 DEF PlanInv, GoodPlan
    <3> QED
      BY <3>1, <3>2, <3>3, <3>5 DEF PlanIsFeasible, RefusalJustified
  <2>3. CASE ~Free(plan.efi)
    <3>1. pc' = "failed" /\ made' = made /\ meddled # 0
      BY <1>3, <2>1, <2>3 DEF MakeEfi, Make, PlanInv
    <3> QED
      BY <1>1, <2>1, <3>1
      DEF TypeOK, PlanInv, MadeInv, Inside, Usable, PlanIsFeasible, RefusalJustified
  <2> QED
    BY <2>2, <2>3
<1>4. CASE MakeRoot
  <2>1. /\ pc = "root" /\ made = {plan.efi}
        /\ UNCHANGED <<size, mode, labeled, theirs, plan, seen, meddled>>
    BY <1>4 DEF MakeRoot, Make, MadeInv
  <2>2. CASE Free(plan.root)
    <3>1. pc' = "done" /\ made' = {plan.efi, plan.root}
      BY <1>1, <1>2, <1>4, <2>1, <2>2 DEF MakeRoot, Make
    <3>2. TypeOK'
      BY <1>1, <2>1, <3>1 DEF TypeOK
    <3>3. labeled \/ theirs = {}
      BY DEF MadeInv
    <3>4. MadeInv'
      BY <1>1, <2>1, <2>2, <3>1, <3>3 DEF MadeInv, Inside, Free, Overlap, Usable, Regions, Region, TypeOK
    <3>5. PlanInv'
      BY <1>1, <2>1, <3>1 DEF PlanInv, GoodPlan
    <3> QED
      BY <3>1, <3>2, <3>4, <3>5 DEF PlanIsFeasible, RefusalJustified
  <2>3. CASE ~Free(plan.root)
    <3>1. pc' = "failed" /\ made' = made /\ meddled # 0
      BY <1>4, <2>1, <2>3 DEF MakeRoot, Make, PlanInv
    <3> QED
      BY <1>1, <2>1, <3>1
      DEF TypeOK, PlanInv, MadeInv, Inside, Usable, PlanIsFeasible, RefusalJustified
  <2> QED
    BY <2>2, <2>3
<1> QED
  BY <1>3, <1>4

\* The full-disk layout has its bounds right on every disk it fits.
LEMMA FullDiskSound ==
  ASSUME NEW d \in DiskSizes
  PROVE  LET p == FullDisk(d) IN
           /\ p \in [efi : Regions, root : Regions]
           /\ p.efi.first % Mib = 0 /\ p.root.first % Mib = 0
           /\ Size(p.efi) = EfiSize /\ p.efi.last < p.root.first
           /\ Reserve <= p.efi.first /\ p.root.last <= d - 1 - Reserve
           /\ Size(p.root) > d - EfiSize - 3 * Mib
           /\ p.root.first > p.root.last => d < EfiSize + 3 * Mib
<1> USE LayoutAssumption
<1>1. d \in Nat
  BY SMT
<1>2. RoundDown(d) \in Nat /\ RoundDown(d) <= d /\ d < RoundDown(d) + Mib
  BY <1>1, RoundDownFacts
<1>3. Mib % Mib = 0
  BY SMT
<1>4. (EfiSize + Mib) % Mib = 0
  <2> DEFINE q == EfiSize \div Mib
  <2>1. q \in Nat /\ EfiSize = Mib * q
    BY SMT
  <2>2. EfiSize + Mib = (q + 1) * Mib
    BY <2>1, SMT
  <2>3. ((q + 1) * Mib) % Mib = 0
    BY <2>1, SMT
  <2> QED
    BY <2>2, <2>3
<1> QED
  BY <1>1, <1>2, <1>3, <1>4 DEF FullDisk, Regions, Region, Size

\* Taking the disk makes the full-disk layout, or the disk has no room for it.
LEMMA TakeStep ==
  ASSUME IInv, TakeDisk PROVE IInv'
<1> USE LayoutAssumption DEF IInv
<1>1. size \in DiskSizes /\ size \in Nat
  BY DEF TypeOK
<1>2. /\ plan' \in [efi : Regions, root : Regions]
      /\ plan'.efi.first % Mib = 0 /\ plan'.root.first % Mib = 0
      /\ Size(plan'.efi) = EfiSize /\ plan'.efi.last < plan'.root.first
      /\ Reserve <= plan'.efi.first /\ plan'.root.last <= size - 1 - Reserve
      /\ Size(plan'.root) > size - EfiSize - 3 * Mib
      /\ plan'.root.first > plan'.root.last => size < EfiSize + 3 * Mib
  BY <1>1, FullDiskSound DEF TakeDisk
<1>3. plan'.efi \in Regions /\ plan'.root \in Regions
  BY <1>2
<1>4. /\ mode = "full" /\ pc = "decide" /\ made = {} /\ theirs' = {} /\ labeled' = TRUE
      /\ UNCHANGED <<size, mode, seen, meddled>>
  BY DEF TakeDisk, MadeInv
<1>5. CASE plan'.root.first <= plan'.root.last
  <2>1. pc' = "done" /\ made' = {plan'.efi, plan'.root}
    BY <1>1, <1>2, <1>5 DEF TakeDisk, Usable, Region
  <2>2. TypeOK'
    BY <1>2, <1>3, <1>4, <2>1 DEF TypeOK
  <2>3. PlanInv'
    BY <1>2, <1>3, <1>4, <1>5, <2>1 DEF PlanInv, GoodPlan, Size, Regions
  <2>4. MadeInv'
    BY <1>1, <1>2, <1>3, <1>4, <1>5, <2>1 DEF MadeInv, Inside, Usable, Region, Size, Regions
  <2> QED
    BY <2>1, <2>2, <2>3, <2>4 DEF PlanIsFeasible, RefusalJustified
<1>6. CASE ~(plan'.root.first <= plan'.root.last)
  <2>1. pc' = "failed" /\ made' = {} /\ size < EfiSize + 3 * Mib
    BY <1>2, <1>3, <1>4, <1>6 DEF TakeDisk, Regions
  <2> QED
    BY <1>2, <1>4, <2>1
    DEF TypeOK, PlanInv, MadeInv, PlanIsFeasible, RefusalJustified, Inside, Usable
<1> QED
  BY <1>5, <1>6

\* What others add is where nothing of the run is, and counts as meddling.
LEMMA ExternalStep ==
  ASSUME IInv, ExternalAdd PROVE IInv'
<1> USE LayoutAssumption DEF IInv
<1>1. /\ labeled /\ pc \in {"decide", "efi", "root"} /\ meddled \in Nat /\ meddled' = meddled + 1
      /\ UNCHANGED <<size, mode, labeled, pc, plan, made, seen>>
  BY DEF ExternalAdd, TypeOK
<1>2. PICK a \in 0..size, l \in Lengths :
        Free(Region(a, a + l - 1)) /\ theirs' = theirs \cup {Region(a, a + l - 1)}
  BY DEF ExternalAdd
<1> DEFINE r == Region(a, a + l - 1)
<1>3. r \in Regions
  BY DEF Region, Regions
<1>4. TypeOK'
  BY <1>1, <1>2, <1>3 DEF TypeOK
<1>5. MadeInv'
  BY <1>1, <1>2 DEF MadeInv, Inside, Usable, Free
<1> QED
  BY <1>1, <1>4, <1>5 DEF PlanInv, GoodPlan, PlanIsFeasible, RefusalJustified

\* The inductive invariant holds of every behaviour.
THEOREM IInvInvariant == Spec => []IInv
<1>1. Init => IInv
  <2> SUFFICES ASSUME Init PROVE IInv
    OBVIOUS
  <2>1. NoPlan \in [efi : Regions, root : Regions]
    BY DEF NoPlan, Region, Regions
  <2>2. theirs \subseteq Regions
    BY LayoutAssumption DEF Init, Region, Regions
  <2>3. TypeOK
    BY <2>1, <2>2 DEF Init, TypeOK
  <2>4. PlanInv /\ MadeInv /\ PlanIsFeasible /\ RefusalJustified
    BY DEF Init, PlanInv, MadeInv, PlanIsFeasible, RefusalJustified
  <2> QED
    BY <2>3, <2>4 DEF IInv
<1>2. IInv /\ [Next]_vars => IInv'
  <2> SUFFICES ASSUME IInv, [Next]_vars PROVE IInv'
    OBVIOUS
  <2>1. CASE UNCHANGED vars
    BY <2>1 DEF vars, IInv, TypeOK, PlanInv, GoodPlan, MadeInv, PlanIsFeasible,
                RefusalJustified, Free, Inside, Usable
  <2> QED
    BY <2>1, DecideStep, MakeStep, TakeStep, ExternalStep DEF Next
<1> QED
  BY <1>1, <1>2, PTL DEF Spec

\* A layout that was decided on fails only over what others did.
THEOREM Feasible == Spec => []PlanIsFeasible
BY IInvInvariant, PTL DEF IInv

\* A refusal is right.
THEOREM Refusals == Spec => []RefusalJustified
BY IInvInvariant, PTL DEF IInv

\* What is made is what was promised.
THEOREM Promise == Spec => []MadeAsPromised
<1>1. IInv => MadeAsPromised
  <2> SUFFICES ASSUME IInv, pc = "done" PROVE MadeAsPromised
    BY DEF MadeAsPromised
  <2>1. GoodPlan /\ made = {plan.efi, plan.root}
    BY DEF IInv, PlanInv, MadeInv
  <2>2. Inside(plan.efi) /\ Inside(plan.root)
    BY <2>1 DEF IInv, MadeInv
  <2> QED
    BY <2>1, <2>2 DEF MadeAsPromised, GoodPlan, Inside, IInv, MadeInv
<1> QED
  BY <1>1, IInvInvariant, PTL

=============================================================================
