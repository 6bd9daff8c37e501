-------------------------- MODULE EfiEntriesProofs ---------------------------
(***************************************************************************)
(* EfiEntries' safety properties for any set of slots, either kind of      *)
(* install and any number of failed calls and lost entries.                *)
(***************************************************************************)
EXTENDS EfiEntries, WellFoundedInduction, SequenceTheorems, TLAPS

-----------------------------------------------------------------------------
(* The filter of an order, for every order. *)

(* A set of numbers that is not empty has a least one. *)
LEMMA Smallest ==
  ASSUME NEW T, T \subseteq Nat, T # {}
  PROVE  \E m \in T : \A k \in T : m <= k
<1> DEFINE R == OpToRel(<, Nat)
<1>1. \E m \in T : \A k \in T : ~ (<<k, m>> \in R)
  BY WFMin, NatLessThanWellFounded
<1>2. \A k, m \in Nat : k < m => <<k, m>> \in R
  BY DEF OpToRel
<1> HIDE DEF R
<1>3. PICK m \in T : \A k \in T : ~ (<<k, m>> \in R)
  BY <1>1
<1>4. \A k \in T : ~(k < m)
  BY <1>2, <1>3
<1> QED
  BY <1>4

(* Induction, of sets: tlapm cannot instantiate the theorems of its library
   that take a predicate. *)
LEMMA Induction ==
  ASSUME NEW T, T \subseteq Nat, 0 \in T, \A n \in T : n + 1 \in T
  PROVE  \A n \in Nat : n \in T
<1> SUFFICES ASSUME NEW x \in Nat, x \notin T PROVE FALSE
  OBVIOUS
<1> DEFINE U == Nat \ T
<1>1. PICK m \in U : \A k \in U : m <= k
  <2>1. U \subseteq Nat /\ U # {}
    OBVIOUS
  <2> HIDE DEF U
  <2> QED
    BY <2>1, Smallest
<1>2. m \in Nat /\ m # 0
  BY <1>1
<1>3. m - 1 \in Nat /\ m - 1 \in T
  BY <1>1, <1>2
<1>4. (m - 1) + 1 \in T
  BY <1>3
<1> QED
  BY <1>1, <1>2, <1>4

(* What Kept does with one more entry. *)
Grown(k, q, S, n) == IF q[n] \in S THEN Append(k, q[n]) ELSE k

(* The function inside Kept. *)
Prefixes(q, S) ==
  CHOOSE upto : upto = [n \in 0..Len(q) |->
          IF n = 0 THEN <<>>
          ELSE IF q[n] \in S THEN Append(upto[n - 1], q[n]) ELSE upto[n - 1]]

(* Kept is the last value of its function. *)
LEMMA KeptPrefix ==
  ASSUME NEW q, NEW S
  PROVE  Kept(q, S) = Prefixes(q, S)[Len(q)]
BY DEF Kept, Prefixes

(* The first n steps of Kept. *)
IsTable(g, n, q, S, A) ==
  /\ g \in [0..n -> Seq(A)]
  /\ g[0] = <<>>
  /\ \A m \in 1..n : g[m] = Grown(g[m - 1], q, S, m)

(* Kept can take as many steps as the sequence is long ... *)
LEMMA TableExists ==
  ASSUME NEW A, NEW q \in Seq(A), NEW S
  PROVE  \E g : IsTable(g, Len(q), q, S, A)
<1> DEFINE T == {n \in Nat : n <= Len(q) => \E g : IsTable(g, n, q, S, A)}
<1>1. 0 \in T
  <2>1. IsTable([i \in 0..0 |-> <<>>], 0, q, S, A)
    BY DEF IsTable
  <2> QED
    BY <2>1
<1>2. ASSUME NEW n \in T PROVE n + 1 \in T
  <2>1. SUFFICES ASSUME n + 1 <= Len(q) PROVE \E g : IsTable(g, n + 1, q, S, A)
    OBVIOUS
  <2>2. PICK g : IsTable(g, n, q, S, A)
    BY <2>1
  <2> DEFINE h == [m \in 0..(n + 1) |->
                     IF m = n + 1 THEN Grown(g[n], q, S, n + 1) ELSE g[m]]
  <2>3. Grown(g[n], q, S, n + 1) \in Seq(A)
    <3>1. q[n + 1] \in A /\ g[n] \in Seq(A)
      BY <2>1, <2>2 DEF IsTable
    <3> QED
      BY <3>1 DEF Grown
  <2>4. h \in [0..(n + 1) -> Seq(A)]
    BY <2>2, <2>3 DEF IsTable
  <2>5. h[0] = <<>>
    BY <2>2 DEF IsTable
  <2>6. ASSUME NEW m \in 1..(n + 1) PROVE h[m] = Grown(h[m - 1], q, S, m)
    <3>1. h[m - 1] = g[m - 1]
      OBVIOUS
    <3>2. CASE m = n + 1
      BY <3>1, <3>2
    <3>3. CASE m # n + 1
      <4>1. m \in 1..n
        BY <3>3
      <4>2. h[m] = g[m]
        BY <3>3
      <4> QED
        BY <4>1, <4>2, <3>1, <2>2 DEF IsTable
    <3> QED
      BY <3>2, <3>3
  <2> HIDE DEF h
  <2> QED
    BY <2>4, <2>5, <2>6 DEF IsTable
<1>3. \A n \in Nat : n \in T
  <2>1. T \subseteq Nat
    OBVIOUS
  <2> HIDE DEF T
  <2> QED
    BY <1>1, <1>2, <2>1, Induction
<1>4. Len(q) \in T
  <2>1. Len(q) \in Nat
    OBVIOUS
  <2> HIDE DEF T
  <2> QED
    BY <1>3, <2>1
<1> QED
  BY <1>4

(* ... so that its recursive definition defines it. *)
LEMMA PrefixTable ==
  ASSUME NEW A, NEW q \in Seq(A), NEW S
  PROVE  IsTable(Prefixes(q, S), Len(q), q, S, A)
<1> DEFINE Body(k) == [n \in 0..Len(q) |->
          IF n = 0 THEN <<>>
          ELSE IF q[n] \in S THEN Append(k[n - 1], q[n]) ELSE k[n - 1]]
<1>1. PICK g : IsTable(g, Len(q), q, S, A)
  BY TableExists
<1>2. g = Body(g)
  <2>1. DOMAIN g = 0..Len(q) /\ g = [n \in 0..Len(q) |-> g[n]]
    BY <1>1 DEF IsTable
  <2>2. ASSUME NEW n \in 0..Len(q)
        PROVE  g[n] = IF n = 0 THEN <<>>
                      ELSE IF q[n] \in S THEN Append(g[n - 1], q[n])
                      ELSE g[n - 1]
    <3>1. Len(q) \in Nat
      OBVIOUS
    <3>2. n = 0 \/ n \in 1..Len(q)
      BY <3>1
    <3> QED
      BY <1>1, <3>2 DEF IsTable, Grown
  <2> QED
    BY <2>1, <2>2
<1>3. Prefixes(q, S) = Body(Prefixes(q, S))
  BY <1>2 DEF Prefixes
<1> DEFINE f == Prefixes(q, S)
<1>4. f = Body(f)
  BY <1>3
<1> HIDE DEF f
<1>5. f[0] = <<>> /\ \A m \in 1..Len(q) : f[m] = Grown(f[m - 1], q, S, m)
  <2>1. Len(q) \in Nat
    OBVIOUS
  <2>2. \A n \in 0..Len(q) :
          f[n] = IF n = 0 THEN <<>>
                 ELSE IF q[n] \in S THEN Append(f[n - 1], q[n]) ELSE f[n - 1]
    BY <1>4
  <2> QED
    BY <2>1, <2>2 DEF Grown
<1> DEFINE T == {n \in Nat : n <= Len(q) => f[n] \in Seq(A)}
<1>6. 0 \in T
  <2>1. f[0] \in Seq(A)
    BY <1>5
  <2> QED
    BY <2>1
<1>7. ASSUME NEW n \in T PROVE n + 1 \in T
  <2>1. SUFFICES ASSUME n + 1 <= Len(q) PROVE f[n + 1] \in Seq(A)
    OBVIOUS
  <2>2. f[n] \in Seq(A) /\ q[n + 1] \in A
    BY <2>1
  <2>3. f[n + 1] = Grown(f[n], q, S, n + 1)
    BY <1>5, <2>1
  <2> QED
    BY <2>2, <2>3 DEF Grown
<1>8. \A n \in Nat : n \in T
  <2>1. T \subseteq Nat
    OBVIOUS
  <2> HIDE DEF T
  <2> QED
    BY <1>6, <1>7, <2>1, Induction
<1>9. f \in [0..Len(q) -> Seq(A)]
  BY <1>4, <1>8
<1>10. IsTable(f, Len(q), q, S, A)
  BY <1>5, <1>9 DEF IsTable
<1> QED
  BY <1>10 DEF f

(* The steps on a sequence are the first ones on a longer one. *)
LEMMA TablesAgree ==
  ASSUME NEW A, NEW q \in Seq(A), NEW e \in A, NEW S, NEW g, NEW h,
         IsTable(g, Len(q), q, S, A),
         IsTable(h, Len(q) + 1, Append(q, e), S, A)
  PROVE  h[Len(q)] = g[Len(q)]
<1> DEFINE T == {n \in Nat : n <= Len(q) => h[n] = g[n]}
<1>1. 0 \in T
  BY DEF IsTable
<1>2. ASSUME NEW n \in T PROVE n + 1 \in T
  <2>1. SUFFICES ASSUME n + 1 <= Len(q) PROVE h[n + 1] = g[n + 1]
    OBVIOUS
  <2>2. h[n + 1] = Grown(h[n], Append(q, e), S, n + 1)
    BY <2>1 DEF IsTable
  <2>3. g[n + 1] = Grown(g[n], q, S, n + 1)
    BY <2>1 DEF IsTable
  <2>4. Append(q, e)[n + 1] = q[n + 1]
    BY <2>1
  <2> QED
    BY <2>1, <2>2, <2>3, <2>4 DEF Grown
<1>3. \A n \in Nat : n \in T
  <2>1. T \subseteq Nat
    OBVIOUS
  <2> HIDE DEF T
  <2> QED
    BY <1>1, <1>2, <2>1, Induction
<1>4. Len(q) \in T
  <2>1. Len(q) \in Nat
    OBVIOUS
  <2> HIDE DEF T
  <2> QED
    BY <1>3, <2>1
<1> QED
  BY <1>4

(* What is kept of an order is an order. *)
LEMMA KeptTyped ==
  ASSUME NEW A, NEW q \in Seq(A), NEW S
  PROVE  Kept(q, S) \in Seq(A)
BY PrefixTable, KeptPrefix DEF IsTable

(* Nothing is kept of nothing. *)
LEMMA KeptEmpty == ASSUME NEW S PROVE Kept(<<>>, S) = <<>>
<1>1. <<>> \in Seq(S)
  OBVIOUS
<1>2. IsTable(Prefixes(<<>>, S), 0, <<>>, S, S)
  BY <1>1, PrefixTable
<1> QED
  BY <1>2, KeptPrefix DEF IsTable

(* One more entry stays at the end, or is dropped. *)
LEMMA KeptAppend ==
  ASSUME NEW A, NEW q \in Seq(A), NEW e \in A, NEW S
  PROVE  Kept(Append(q, e), S)
           = IF e \in S THEN Append(Kept(q, S), e) ELSE Kept(q, S)
<1> DEFINE r == Append(q, e)
           g == Prefixes(q, S)
           h == Prefixes(r, S)
<1>1. r \in Seq(A) /\ Len(r) = Len(q) + 1 /\ r[Len(q) + 1] = e
  OBVIOUS
<1>2. IsTable(g, Len(q), q, S, A)
  BY PrefixTable
<1>3. IsTable(h, Len(r), r, S, A)
  BY <1>1, PrefixTable
<1>4. IsTable(h, Len(q) + 1, r, S, A)
  BY <1>1, <1>3
<1>5. h[Len(q)] = g[Len(q)]
  BY <1>2, <1>4, TablesAgree
<1>6. h[Len(q) + 1] = Grown(h[Len(q)], r, S, Len(q) + 1)
  BY <1>4 DEF IsTable
<1>7. Kept(q, S) = g[Len(q)]
  BY KeptPrefix
<1>8. Kept(r, S) = h[Len(q) + 1]
  BY <1>1, KeptPrefix
<1> HIDE DEF g, h, r
<1>9. Kept(r, S) = IF e \in S THEN Append(Kept(q, S), e) ELSE Kept(q, S)
  BY <1>1, <1>5, <1>6, <1>7, <1>8 DEF Grown
<1> QED
  BY <1>9 DEF r

(* A sequence that is not empty is a shorter one and a last entry. *)
LEMMA LastOff ==
  ASSUME NEW A, NEW n \in Nat, NEW q \in Seq(A), Len(q) = n + 1
  PROVE  \E p \in Seq(A), e \in A : q = Append(p, e) /\ Len(p) = n
<1>1. q # <<>>
  OBVIOUS
<1>2. PICK p \in Seq(A), e \in A : q = Append(p, e)
  BY <1>1, SequenceEmptyOrAppend
<1>3. Len(p) = n
  BY <1>2
<1> QED
  BY <1>2, <1>3

(* Induction over the orders. *)
LEMMA OrderInduction ==
  ASSUME NEW A, NEW G, <<>> \in G,
         \A p \in Seq(A), d \in A : p \in G => Append(p, d) \in G
  PROVE  \A q \in Seq(A) : q \in G
<1> DEFINE T == {n \in Nat : \A p \in Seq(A) : Len(p) = n => p \in G}
<1>1. 0 \in T
  <2>1. \A p \in Seq(A) : Len(p) = 0 => p = <<>>
    OBVIOUS
  <2> QED
    BY <2>1
<1>2. ASSUME NEW n \in T PROVE n + 1 \in T
  <2>1. SUFFICES ASSUME NEW q \in Seq(A), Len(q) = n + 1 PROVE q \in G
    OBVIOUS
  <2>2. PICK p \in Seq(A), d \in A : q = Append(p, d) /\ Len(p) = n
    BY <2>1, LastOff
  <2> QED
    BY <2>2
<1>3. \A n \in Nat : n \in T
  <2>1. T \subseteq Nat
    OBVIOUS
  <2> HIDE DEF T
  <2> QED
    BY <1>1, <1>2, <2>1, Induction
<1>4. \A q \in Seq(A) : Len(q) \in Nat
  OBVIOUS
<1> QED
  BY <1>3, <1>4

(* Adding at the front and adding at the end do not disturb each other. *)
LEMMA ConsAppend ==
  ASSUME NEW A, NEW k \in Seq(A), NEW e \in A, NEW d \in A
  PROVE  /\ <<e>> \o k \in Seq(A)
         /\ <<e>> \o Append(k, d) = Append(<<e>> \o k, d)
<1>1. <<e>> \in Seq(A)
  OBVIOUS
<1>2. <<e>> \o k \in Seq(A)
  BY <1>1, ConcatProperties
<1>3. <<e>> \o Append(k, d) \in Seq(A) /\ Append(<<e>> \o k, d) \in Seq(A)
  BY <1>1, <1>2, ConcatProperties, AppendProperties
<1>4. /\ Len(<<e>> \o Append(k, d)) = Len(k) + 2
      /\ Len(Append(<<e>> \o k, d)) = Len(k) + 2
  BY <1>1, <1>2
<1>5. \A i \in 1..(Len(k) + 2) :
        (<<e>> \o Append(k, d))[i] = Append(<<e>> \o k, d)[i]
  BY <1>1, <1>2
<1> QED
  BY <1>2, <1>3, <1>4, <1>5, SeqEqual

(* An entry put before an order stays in front of what is kept, or is not   *)
(* kept.                                                                    *)
LEMMA KeptCons ==
  ASSUME NEW A, NEW e \in A, NEW S, NEW q \in Seq(A)
  PROVE  Kept(<<e>> \o q, S)
           = IF e \in S THEN <<e>> \o Kept(q, S) ELSE Kept(q, S)
<1> DEFINE G == {p \in Seq(A) :
                   Kept(<<e>> \o p, S)
                     = IF e \in S THEN <<e>> \o Kept(p, S) ELSE Kept(p, S)}
<1>1. <<>> \in G
  <2>1. <<>> \in Seq(A) /\ <<e>> \o <<>> = Append(<<>>, e)
    OBVIOUS
  <2>2. Kept(Append(<<>>, e), S)
          = IF e \in S THEN Append(Kept(<<>>, S), e) ELSE Kept(<<>>, S)
    BY <2>1, KeptAppend
  <2> QED
    BY <2>1, <2>2, KeptEmpty
<1>2. ASSUME NEW p \in Seq(A), NEW d \in A, p \in G PROVE Append(p, d) \in G
  <2>1. Kept(<<e>> \o p, S)
          = IF e \in S THEN <<e>> \o Kept(p, S) ELSE Kept(p, S)
    BY <1>2
  <2>2. Kept(<<e>> \o Append(p, d), S)
          = IF d \in S THEN Append(Kept(<<e>> \o p, S), d)
            ELSE Kept(<<e>> \o p, S)
    <3>1. Kept(Append(<<e>> \o p, d), S)
            = IF d \in S THEN Append(Kept(<<e>> \o p, S), d)
              ELSE Kept(<<e>> \o p, S)
      BY ConsAppend, KeptAppend
    <3> QED
      BY <3>1, ConsAppend
  <2>3. Kept(Append(p, d), S)
          = IF d \in S THEN Append(Kept(p, S), d) ELSE Kept(p, S)
    BY KeptAppend
  <2>4. <<e>> \o Append(Kept(p, S), d) = Append(<<e>> \o Kept(p, S), d)
    BY KeptTyped, ConsAppend
  <2>5. Kept(<<e>> \o Append(p, d), S)
          = IF e \in S THEN <<e>> \o Kept(Append(p, d), S)
            ELSE Kept(Append(p, d), S)
    BY <2>1, <2>2, <2>3, <2>4, Zenon
  <2> QED
    BY <2>5
<1> HIDE DEF G
<1>3. q \in G
  BY <1>1, <1>2, OrderInduction
<1> QED
  BY <1>3 DEF G

(* Two filters are one. *)
LEMMA KeptTwice ==
  ASSUME NEW A, NEW S, NEW R, NEW q \in Seq(A)
  PROVE  Kept(Kept(q, S), R) = Kept(q, S \cap R)
<1> DEFINE G == {p \in Seq(A) : Kept(Kept(p, S), R) = Kept(p, S \cap R)}
<1>1. <<>> \in G
  <2>1. <<>> \in Seq(A)
    OBVIOUS
  <2> QED
    BY <2>1, KeptEmpty
<1>2. ASSUME NEW p \in Seq(A), NEW d \in A, p \in G PROVE Append(p, d) \in G
  <2>1. Kept(Kept(p, S), R) = Kept(p, S \cap R)
    BY <1>2
  <2>2. Kept(Append(p, d), S)
          = IF d \in S THEN Append(Kept(p, S), d) ELSE Kept(p, S)
    BY KeptAppend
  <2>3. Kept(Append(p, d), S \cap R)
          = IF d \in S \cap R THEN Append(Kept(p, S \cap R), d)
            ELSE Kept(p, S \cap R)
    BY KeptAppend
  <2>4. Kept(Append(Kept(p, S), d), R)
          = IF d \in R THEN Append(Kept(Kept(p, S), R), d)
            ELSE Kept(Kept(p, S), R)
    BY KeptTyped, KeptAppend
  <2>5. Kept(Kept(Append(p, d), S), R) = Kept(Append(p, d), S \cap R)
    <3>1. CASE d \in S
      <4>1. Kept(Append(p, d), S) = Append(Kept(p, S), d)
        BY <2>2, <3>1
      <4>2. d \in S \cap R <=> d \in R
        BY <3>1
      <4> QED
        BY <2>1, <2>3, <2>4, <4>1, <4>2, Zenon
    <3>2. CASE d \notin S
      BY <2>1, <2>2, <2>3, <3>2
    <3> QED
      BY <3>1, <3>2
  <2> QED
    BY <2>5
<1> HIDE DEF G
<1>3. q \in G
  BY <1>1, <1>2, OrderInduction
<1> QED
  BY <1>3 DEF G

-----------------------------------------------------------------------------
(* The strengthening holds of every machine an install may meet. *)
LEMMA InitIInv == Init => IInv
<1> SUFFICES ASSUME Init PROVE IInv
  OBVIOUS
<1>1. /\ Ownership /\ ForeignUntouched /\ Accounted /\ Checked
      /\ FailureRemovesEntry
  BY DEF Init, Ownership, ForeignUntouched, Accounted, Checked,
     FailureRemovesEntry, Ours, Claimed, Kinds, FileKinds, Later, Windows
<1>2. order \in Seq(Slots)
  <2>1. PICK n \in 0..Cardinality(Slots) : order \in [1..n -> Slots]
    BY DEF Init, Orders
  <2>2. n \in Nat
    OBVIOUS
  <2> QED
    BY <2>1, <2>2
<1>3. Ordered
  BY <1>2 DEF Init, Ordered
<1> QED
  BY <1>1, <1>3 DEF IInv

(* Every step keeps our entry apart from those of others.                   *)
LEMMA StepOwnership ==
  Ownership /\ [Next]_vars => Ownership'
<1> SUFFICES ASSUME Ownership, [Next]_vars PROVE Ownership'
  OBVIOUS
<1> USE DEF Ownership, Ours, Claimed, Kinds, Later, firmware, config, files, ghosts
<1>1. CASE ReadBefore
  <2>1. pre'.entries = {s \in Slots : found.entry[s] # "free"}
    BY <1>1 DEF ReadBefore, Entries
  <2> QED
    BY <1>1, <2>1 DEF ReadBefore
<1>2. CASE ReadBeforeFails
  BY <1>2 DEF ReadBeforeFails, Fault, Halt
<1>3. CASE CopyLoader
  BY <1>3 DEF CopyLoader
<1>4. CASE RefuseForeignLoader
  BY <1>4 DEF RefuseForeignLoader, Halt
<1>5. CASE CopyFails
  BY <1>5 DEF CopyFails, Fault, Halt
<1>6. CASE Create
  BY <1>6 DEF Create, Lowest, Entries
<1>7. CASE CreateInVain
  BY <1>7 DEF CreateInVain
<1>8. CASE FirmwareLoses
  BY <1>8 DEF FirmwareLoses, Fault, Entries
<1>9. CASE ReadAfter
  BY <1>9 DEF ReadAfter, NewLimine, Lowest, Entries
<1>10. CASE ReadAfterFails
  BY <1>10 DEF ReadAfterFails, Fault
<1>11. CASE SetOrder
  BY <1>11 DEF SetOrder
<1>12. CASE SetOrderRefused
  BY <1>12 DEF SetOrderRefused, Fault
<1>13. CASE CheckWindows
  BY <1>13 DEF CheckWindows, HadWindows
<1>14. CASE WindowsGone
  BY <1>14 DEF WindowsGone, Halt
<1>15. CASE CheckFails
  BY <1>15 DEF CheckFails, Fault, Halt
<1>16. CASE LaterPhaseFails
  BY <1>16 DEF LaterPhaseFails, Fault, Halt, Later
<1>17. CASE Validate
  BY <1>17 DEF Validate
<1>18. CASE NoRoute
  BY <1>18 DEF NoRoute, Fault, Halt
<1>19. CASE Delete
  <2>1. CASE rollback = {}
    BY <1>19, <2>1 DEF Delete
  <2>2. ASSUME NEW r \in rollback,
               entry' = [entry EXCEPT ![r.created] = "free"]
        PROVE  /\ entry' \in [Slots -> Kinds]
               /\ \A s, t \in Ours' : s = t
               /\ \A s \in Ours' : s \in Ours
    <3>1. r.created \in Slots
      OBVIOUS
    <3> QED
      BY <2>2, <3>1
  <2>3. CASE rollback # {}
    BY <1>19, <2>2, <2>3 DEF Delete
  <2> QED
    BY <2>1, <2>3
<1>20. CASE DeleteFails
  BY <1>20 DEF DeleteFails, Fault
<1>21. CASE Restore
  BY <1>21 DEF Restore
<1>22. CASE RestoreFails
  BY <1>22 DEF RestoreFails, Fault
<1>23. CASE WriteDefaults
  BY <1>23 DEF WriteDefaults
<1>24. CASE TargetSetup
  BY <1>24 DEF TargetSetup
<1>25. CASE FinalizeBoot
  BY <1>25 DEF FinalizeBoot, Deployed
<1>26. CASE Upgrade
  BY <1>26 DEF Upgrade, Deployed
<1>28. CASE Succeed
  BY <1>28 DEF Succeed
<1>29. CASE Interrupt
  BY <1>29 DEF Interrupt, Halt
<1>30. CASE InterruptRollback
  BY <1>30 DEF InterruptRollback
<1>27. CASE UNCHANGED vars
  BY <1>27 DEF vars
<1> QED
  BY <1>1, <1>2, <1>3, <1>4, <1>5, <1>6, <1>7, <1>8, <1>9, <1>10, <1>11,
     <1>12, <1>13, <1>14, <1>15, <1>16, <1>17, <1>18, <1>19, <1>20, <1>21,
     <1>22, <1>23, <1>24, <1>25, <1>26, <1>27, <1>28, <1>29, <1>30 DEF Next

(* Every step leaves the entries and loaders of others alone.               *)
LEMMA StepForeign ==
  Ownership /\ ForeignUntouched /\ Checked /\ [Next]_vars => ForeignUntouched'
<1> SUFFICES ASSUME Ownership /\ ForeignUntouched /\ Checked, [Next]_vars PROVE ForeignUntouched'
  OBVIOUS
<1> USE DEF Ownership, ForeignUntouched, Ours, Claimed, Kinds, firmware,
      config, files, ghosts
<1>1. CASE ReadBefore
  BY <1>1 DEF ReadBefore, Entries
<1>2. CASE ReadBeforeFails
  BY <1>2 DEF ReadBeforeFails, Fault, Halt
<1>3. CASE CopyLoader
  BY <1>3 DEF CopyLoader
<1>4. CASE RefuseForeignLoader
  BY <1>4 DEF RefuseForeignLoader, Halt
<1>5. CASE CopyFails
  BY <1>5 DEF CopyFails, Fault, Halt
<1>6. CASE Create
  BY <1>6 DEF Create, Lowest, Entries
<1>7. CASE CreateInVain
  BY <1>7 DEF CreateInVain
<1>8. CASE FirmwareLoses
  BY <1>8 DEF FirmwareLoses, Fault, Entries
<1>9. CASE ReadAfter
  BY <1>9 DEF ReadAfter, NewLimine, Lowest, Entries
<1>10. CASE ReadAfterFails
  BY <1>10 DEF ReadAfterFails, Fault
<1>11. CASE SetOrder
  BY <1>11 DEF SetOrder
<1>12. CASE SetOrderRefused
  BY <1>12 DEF SetOrderRefused, Fault
<1>13. CASE CheckWindows
  BY <1>13 DEF CheckWindows, HadWindows
<1>14. CASE WindowsGone
  BY <1>14 DEF WindowsGone, Halt
<1>15. CASE CheckFails
  BY <1>15 DEF CheckFails, Fault, Halt
<1>16. CASE LaterPhaseFails
  BY <1>16 DEF LaterPhaseFails, Fault, Halt, Later
<1>17. CASE Validate
  BY <1>17 DEF Validate
<1>18. CASE NoRoute
  BY <1>18 DEF NoRoute, Fault, Halt
<1>19. CASE Delete
  <2>1. CASE rollback = {}
    BY <1>19, <2>1 DEF Delete
  <2>2. ASSUME NEW r \in rollback,
               entry' = [entry EXCEPT ![r.created] = "free"]
        PROVE  \A s \in Slots : found.entry[s] # "free" => entry'[s] = entry[s]
    <3>1. r.created \in Claimed
      OBVIOUS
    <3>2. found.entry[r.created] = "free"
      BY <3>1
    <3> QED
      BY <2>2, <3>2
  <2>3. CASE rollback # {}
    BY <1>19, <2>2, <2>3 DEF Delete
  <2> QED
    BY <2>1, <2>3
<1>20. CASE DeleteFails
  BY <1>20 DEF DeleteFails, Fault
<1>21. CASE Restore
  BY <1>21 DEF Restore
<1>22. CASE RestoreFails
  BY <1>22 DEF RestoreFails, Fault
<1>23. CASE WriteDefaults
  BY <1>23 DEF WriteDefaults
<1>24. CASE TargetSetup
  BY <1>24 DEF TargetSetup
<1>25. CASE FinalizeBoot
  BY <1>25 DEF FinalizeBoot, Deployed, FileKinds
<1>26. CASE Upgrade
  <2>1. fallback = "foreign" => setting = "no"
    BY <1>26 DEF Upgrade, Checked
  <2>2. found.fallback # "none" => fallback' = found.fallback
    BY <1>26, <2>1 DEF Upgrade, Deployed, FileKinds
  <2>3. /\ UNCHANGED <<entry, found, lost>>
        /\ found.loader # "foreign"
    BY <1>26 DEF Upgrade
  <2> QED
    BY <2>2, <2>3
<1>28. CASE Succeed
  BY <1>28 DEF Succeed
<1>29. CASE Interrupt
  BY <1>29 DEF Interrupt, Halt
<1>30. CASE InterruptRollback
  BY <1>30 DEF InterruptRollback
<1>27. CASE UNCHANGED vars
  BY <1>27 DEF vars
<1> QED
  BY <1>1, <1>2, <1>3, <1>4, <1>5, <1>6, <1>7, <1>8, <1>9, <1>10, <1>11,
     <1>12, <1>13, <1>14, <1>15, <1>16, <1>17, <1>18, <1>19, <1>20, <1>21,
     <1>22, <1>23, <1>24, <1>25, <1>26, <1>27, <1>28, <1>29, <1>30 DEF Next

(* Every step keeps our entry claimed.                                      *)
LEMMA StepAccounted ==
  Ownership /\ Accounted /\ [Next]_vars => Accounted'
<1> SUFFICES ASSUME Ownership /\ Accounted, [Next]_vars PROVE Accounted'
  OBVIOUS
<1> USE DEF Ownership, Accounted, Ours, Claimed, Later, firmware, config, files, ghosts
<1>1. CASE ReadBefore
  BY <1>1 DEF ReadBefore, Entries
<1>2. CASE ReadBeforeFails
  BY <1>2 DEF ReadBeforeFails, Fault, Halt
<1>3. CASE CopyLoader
  BY <1>3 DEF CopyLoader
<1>4. CASE RefuseForeignLoader
  BY <1>4 DEF RefuseForeignLoader, Halt
<1>5. CASE CopyFails
  BY <1>5 DEF CopyFails, Fault, Halt
<1>6. CASE Create
  BY <1>6 DEF Create, Lowest, Entries
<1>7. CASE CreateInVain
  BY <1>7 DEF CreateInVain
<1>8. CASE FirmwareLoses
  BY <1>8 DEF FirmwareLoses, Fault, Entries
<1>9. CASE ReadAfter
  <2>1. CASE NewLimine = {}
    <3>1. Ours \subseteq NewLimine
      BY <1>9 DEF ReadAfter, NewLimine, Entries
    <3> QED
      BY <1>9, <2>1, <3>1 DEF ReadAfter
  <2>2. CASE NewLimine # {}
    <3>1. PICK s \in Slots :
            /\ Lowest(s, NewLimine)
            /\ rollback' = {[created |-> s, previous |-> pre.order]}
      BY <1>9, <2>2 DEF ReadAfter
    <3>2. s \in Ours /\ Claimed' = {s}
      BY <3>1 DEF Lowest, NewLimine
    <3>3. Ours' = Ours /\ UNCHANGED <<unrecorded, kept>> /\ pc' = "order"
      BY <1>9, <2>2 DEF ReadAfter
    <3>4. \A t \in Ours : t = s
      BY <3>2
    <3> QED
      BY <3>2, <3>3, <3>4
  <2> QED
    BY <2>1, <2>2
<1>10. CASE ReadAfterFails
  BY <1>10 DEF ReadAfterFails, Fault
<1>11. CASE SetOrder
  BY <1>11 DEF SetOrder
<1>12. CASE SetOrderRefused
  BY <1>12 DEF SetOrderRefused, Fault
<1>13. CASE CheckWindows
  BY <1>13 DEF CheckWindows, HadWindows
<1>14. CASE WindowsGone
  BY <1>14 DEF WindowsGone, Halt
<1>15. CASE CheckFails
  BY <1>15 DEF CheckFails, Fault, Halt
<1>16. CASE LaterPhaseFails
  BY <1>16 DEF LaterPhaseFails, Fault, Halt, Later
<1>17. CASE Validate
  BY <1>17 DEF Validate
<1>18. CASE NoRoute
  BY <1>18 DEF NoRoute, Fault, Halt
<1>19. CASE Delete
  <2>1. CASE rollback = {}
    BY <1>19, <2>1 DEF Delete
  <2>2. CASE rollback # {}
    <3>1. PICK r \in rollback :
            entry' = [entry EXCEPT ![r.created] = "free"]
      BY <1>19, <2>2 DEF Delete
    <3>2. /\ rollback' = rollback /\ pc' = "restore"
          /\ UNCHANGED <<unrecorded, kept>>
      BY <1>19, <2>2 DEF Delete
    <3>3. Claimed = {r.created} /\ r.created \in Slots
      OBVIOUS
    <3>4. Ours' \subseteq Ours \ {r.created}
      BY <3>1, <3>3
    <3>5. ~unrecorded => Ours' = {}
      BY <1>19, <3>3, <3>4 DEF Delete
    <3> QED
      BY <3>2, <3>5
  <2> QED
    BY <2>1, <2>2
<1>20. CASE DeleteFails
  BY <1>20 DEF DeleteFails, Fault
<1>21. CASE Restore
  BY <1>21 DEF Restore
<1>22. CASE RestoreFails
  BY <1>22 DEF RestoreFails, Fault
<1>23. CASE WriteDefaults
  BY <1>23 DEF WriteDefaults
<1>24. CASE TargetSetup
  BY <1>24 DEF TargetSetup
<1>25. CASE FinalizeBoot
  BY <1>25 DEF FinalizeBoot, Deployed
<1>26. CASE Upgrade
  BY <1>26 DEF Upgrade, Deployed
<1>28. CASE Succeed
  BY <1>28 DEF Succeed
<1>29. CASE Interrupt
  <2>1. pc \in {"read_before", "copy", "create", "read_after"} =>
          Ours = {} \/ pc = "read_after"
    BY <1>29 DEF Interrupt
  <2>2. pc = "read_after" => unrecorded'
    BY <1>29, Zenon DEF Interrupt
  <2>3. ~unrecorded' => ~unrecorded /\ pc # "read_after"
    BY <1>29, Zenon DEF Interrupt
  <2>4. /\ UNCHANGED <<entry, rollback, kept>>
        /\ pc' \in {"delete", "done"} /\ status = "running"
    BY <1>29 DEF Interrupt, Halt
  <2>5. ~unrecorded' => Ours \subseteq Claimed
    BY <2>1, <2>3, <2>4
  <2> QED
    BY <2>4, <2>5
<1>30. CASE InterruptRollback
  BY <1>30 DEF InterruptRollback
<1>27. CASE UNCHANGED vars
  BY <1>27 DEF vars
<1> QED
  BY <1>1, <1>2, <1>3, <1>4, <1>5, <1>6, <1>7, <1>8, <1>9, <1>10, <1>11,
     <1>12, <1>13, <1>14, <1>15, <1>16, <1>17, <1>18, <1>19, <1>20, <1>21,
     <1>22, <1>23, <1>24, <1>25, <1>26, <1>27, <1>28, <1>29, <1>30 DEF Next

(* Every step keeps what the checks established.                            *)
LEMMA StepChecked ==
  Ownership /\ Checked /\ [Next]_vars => Checked'
<1> SUFFICES ASSUME Ownership /\ Checked, [Next]_vars PROVE Checked'
  OBVIOUS
<1> USE DEF Ownership, Checked, Later, Windows, HasEntry, HasFallback, firmware,
      config, files, ghosts
<1>1. CASE ReadBefore
  BY <1>1 DEF ReadBefore, Entries
<1>2. CASE ReadBeforeFails
  BY <1>2 DEF ReadBeforeFails, Fault, Halt
<1>3. CASE CopyLoader
  BY <1>3 DEF CopyLoader
<1>4. CASE RefuseForeignLoader
  BY <1>4 DEF RefuseForeignLoader, Halt
<1>5. CASE CopyFails
  BY <1>5 DEF CopyFails, Fault, Halt
<1>6. CASE Create
  BY <1>6 DEF Create, Lowest, Entries
<1>7. CASE CreateInVain
  BY <1>7 DEF CreateInVain
<1>8. CASE FirmwareLoses
  BY <1>8 DEF FirmwareLoses, Fault, Entries
<1>9. CASE ReadAfter
  BY <1>9 DEF ReadAfter, NewLimine, Lowest, Entries
<1>10. CASE ReadAfterFails
  BY <1>10 DEF ReadAfterFails, Fault
<1>11. CASE SetOrder
  BY <1>11 DEF SetOrder
<1>12. CASE SetOrderRefused
  BY <1>12 DEF SetOrderRefused, Fault
<1>13. CASE CheckWindows
  <2>1. pre.entries = {s \in Slots : found.entry[s] # "free"}
    BY <1>13, Zenon DEF CheckWindows, Ownership
  <2>2. (\E s \in Slots : found.entry[s] = "windows") => HadWindows
    BY <2>1 DEF HadWindows
  <2> QED
    BY <1>13, <2>2 DEF CheckWindows
<1>14. CASE WindowsGone
  BY <1>14 DEF WindowsGone, Halt
<1>15. CASE CheckFails
  BY <1>15 DEF CheckFails, Fault, Halt
<1>16. CASE LaterPhaseFails
  BY <1>16 DEF LaterPhaseFails, Fault, Halt, Later
<1>17. CASE Validate
  BY <1>17 DEF Validate
<1>18. CASE NoRoute
  BY <1>18 DEF NoRoute, Fault, Halt
<1>19. CASE Delete
  BY <1>19 DEF Delete
<1>20. CASE DeleteFails
  BY <1>20 DEF DeleteFails, Fault
<1>21. CASE Restore
  BY <1>21 DEF Restore
<1>22. CASE RestoreFails
  BY <1>22 DEF RestoreFails, Fault
<1>23. CASE WriteDefaults
  BY <1>23 DEF WriteDefaults
<1>24. CASE TargetSetup
  BY <1>24 DEF TargetSetup
<1>25. CASE FinalizeBoot
  BY <1>25 DEF FinalizeBoot, Deployed
<1>26. CASE Upgrade
  BY <1>26 DEF Upgrade, Deployed
<1>28. CASE Succeed
  BY <1>28 DEF Succeed
<1>29. CASE Interrupt
  BY <1>29 DEF Interrupt, Halt
<1>30. CASE InterruptRollback
  BY <1>30 DEF InterruptRollback
<1>27. CASE UNCHANGED vars
  BY <1>27 DEF vars
<1> QED
  BY <1>1, <1>2, <1>3, <1>4, <1>5, <1>6, <1>7, <1>8, <1>9, <1>10, <1>11,
     <1>12, <1>13, <1>14, <1>15, <1>16, <1>17, <1>18, <1>19, <1>20, <1>21,
     <1>22, <1>23, <1>24, <1>25, <1>26, <1>27, <1>28, <1>29, <1>30 DEF Next

(* A failed install ends without an entry of ours.                          *)
LEMMA StepRemoves ==
  Ownership /\ Accounted /\ FailureRemovesEntry /\ [Next]_vars => FailureRemovesEntry'
<1> SUFFICES ASSUME Ownership /\ Accounted /\ FailureRemovesEntry, [Next]_vars PROVE FailureRemovesEntry'
  OBVIOUS
<1> USE DEF Ownership, Accounted, FailureRemovesEntry, HasEntry, Ours,
      Claimed, Later, firmware, config, files, ghosts
<1>1. CASE ReadBefore
  BY <1>1 DEF ReadBefore, Entries
<1>2. CASE ReadBeforeFails
  BY <1>2 DEF ReadBeforeFails, Fault, Halt
<1>3. CASE CopyLoader
  BY <1>3 DEF CopyLoader
<1>4. CASE RefuseForeignLoader
  BY <1>4 DEF RefuseForeignLoader, Halt
<1>5. CASE CopyFails
  BY <1>5 DEF CopyFails, Fault, Halt
<1>6. CASE Create
  BY <1>6 DEF Create, Lowest, Entries
<1>7. CASE CreateInVain
  BY <1>7 DEF CreateInVain
<1>8. CASE FirmwareLoses
  BY <1>8 DEF FirmwareLoses, Fault, Entries
<1>9. CASE ReadAfter
  BY <1>9 DEF ReadAfter, NewLimine, Lowest, Entries
<1>10. CASE ReadAfterFails
  BY <1>10 DEF ReadAfterFails, Fault
<1>11. CASE SetOrder
  BY <1>11 DEF SetOrder
<1>12. CASE SetOrderRefused
  BY <1>12 DEF SetOrderRefused, Fault
<1>13. CASE CheckWindows
  BY <1>13 DEF CheckWindows, HadWindows
<1>14. CASE WindowsGone
  BY <1>14 DEF WindowsGone, Halt
<1>15. CASE CheckFails
  BY <1>15 DEF CheckFails, Fault, Halt
<1>16. CASE LaterPhaseFails
  BY <1>16 DEF LaterPhaseFails, Fault, Halt, Later
<1>17. CASE Validate
  BY <1>17 DEF Validate
<1>18. CASE NoRoute
  BY <1>18 DEF NoRoute, Fault, Halt
<1>19. CASE Delete
  BY <1>19 DEF Delete
<1>20. CASE DeleteFails
  BY <1>20 DEF DeleteFails, Fault
<1>21. CASE Restore
  BY <1>21 DEF Restore
<1>22. CASE RestoreFails
  BY <1>22 DEF RestoreFails, Fault
<1>23. CASE WriteDefaults
  BY <1>23 DEF WriteDefaults
<1>24. CASE TargetSetup
  BY <1>24 DEF TargetSetup
<1>25. CASE FinalizeBoot
  BY <1>25 DEF FinalizeBoot, Deployed
<1>26. CASE Upgrade
  BY <1>26 DEF Upgrade, Deployed
<1>28. CASE Succeed
  BY <1>28 DEF Succeed
<1>29. CASE Interrupt
  BY <1>29 DEF Interrupt, Halt
<1>30. CASE InterruptRollback
  BY <1>30 DEF InterruptRollback
<1>27. CASE UNCHANGED vars
  BY <1>27 DEF vars
<1> QED
  BY <1>1, <1>2, <1>3, <1>4, <1>5, <1>6, <1>7, <1>8, <1>9, <1>10, <1>11,
     <1>12, <1>13, <1>14, <1>15, <1>16, <1>17, <1>18, <1>19, <1>20, <1>21,
     <1>22, <1>23, <1>24, <1>25, <1>26, <1>27, <1>28, <1>29, <1>30 DEF Next

(* Every step keeps the entries of others in their order.                   *)
LEMMA StepOrdered ==
  Ownership /\ Ordered /\ [Next]_vars => Ordered'
<1> SUFFICES ASSUME Ownership, Ordered, [Next]_vars PROVE Ordered'
  OBVIOUS
<1>0. UNCHANGED found => Theirs' = Theirs
  BY DEF Theirs
<1> USE DEF Ordered, firmware, config, files, ghosts
<1>1. CASE ReadBefore
  BY <1>0, <1>1 DEF ReadBefore
<1>2. CASE ReadBeforeFails
  BY <1>0, <1>2 DEF ReadBeforeFails, Fault, Halt
<1>3. CASE CopyLoader
  BY <1>0, <1>3 DEF CopyLoader
<1>4. CASE RefuseForeignLoader
  BY <1>0, <1>4 DEF RefuseForeignLoader, Halt
<1>5. CASE CopyFails
  BY <1>0, <1>5 DEF CopyFails, Fault, Halt
<1>6. CASE Create
  <2>1. PICK s \in Slots : s \in Slots \ Entries /\ order' = <<s>> \o order
    BY <1>0, <1>6 DEF Create, Lowest
  <2>2. s \notin Theirs
    BY <1>0, <1>6, <2>1 DEF Create, Ownership, Entries, Theirs
  <2>3. Kept(<<s>> \o order, Theirs) = Kept(order, Theirs)
    BY <2>2, KeptCons
  <2>4. <<s>> \o order \in Seq(Slots)
    BY ConsAppend
  <2> QED
    BY <1>0, <1>6, <2>1, <2>3, <2>4 DEF Create
<1>7. CASE CreateInVain
  BY <1>0, <1>7 DEF CreateInVain
<1>8. CASE FirmwareLoses
  BY <1>0, <1>8 DEF FirmwareLoses, Fault
<1>9. CASE ReadAfter
  <2>1. status = "running"
    BY <1>9 DEF ReadAfter, Ownership
  <2>2. pre.order = found.order
    BY <1>9, <2>1 DEF ReadAfter
  <2> QED
    BY <1>0, <1>9, <2>2 DEF ReadAfter
<1>10. CASE ReadAfterFails
  BY <1>0, <1>10 DEF ReadAfterFails, Fault
<1>11. CASE SetOrder
  <2>1. PICK r \in rollback : order' = OurOrder(r.created)
    BY <1>0, <1>11 DEF SetOrder
  <2>2. r.created \in Slots /\ r.created \notin Theirs
    BY DEF Ownership, Claimed, Theirs
  <2>3. pre.entries = Theirs /\ pre.order = found.order
    BY <1>0, <1>11 DEF SetOrder, Ownership, Theirs
  <2> DEFINE rest == Kept(found.order, Theirs \ {r.created})
  <2>4. order' = <<r.created>> \o rest
    BY <2>1, <2>3 DEF OurOrder
  <2>5. rest \in Seq(Slots)
    BY KeptTyped
  <2>6. Kept(rest, Theirs) = Kept(found.order, Theirs)
    <3>1. (Theirs \ {r.created}) \cap Theirs = Theirs
      BY <2>2
    <3> QED
      BY <3>1, KeptTwice
  <2> HIDE DEF rest
  <2>7. Kept(<<r.created>> \o rest, Theirs) = Kept(rest, Theirs)
    BY <2>2, <2>5, KeptCons
  <2>8. <<r.created>> \o rest \in Seq(Slots)
    BY <2>2, <2>5, ConsAppend
  <2> QED
    BY <1>0, <1>11, <2>4, <2>6, <2>7, <2>8 DEF SetOrder
<1>12. CASE SetOrderRefused
  BY <1>0, <1>12 DEF SetOrderRefused, Fault
<1>13. CASE CheckWindows
  BY <1>0, <1>13 DEF CheckWindows
<1>14. CASE WindowsGone
  BY <1>0, <1>14 DEF WindowsGone, Halt
<1>15. CASE CheckFails
  BY <1>0, <1>15 DEF CheckFails, Fault, Halt
<1>16. CASE LaterPhaseFails
  BY <1>0, <1>16 DEF LaterPhaseFails, Fault, Halt, Later
<1>17. CASE Validate
  BY <1>0, <1>17 DEF Validate
<1>18. CASE NoRoute
  BY <1>0, <1>18 DEF NoRoute, Fault, Halt
<1>19. CASE Delete
  <2>1. CASE rollback = {}
    BY <1>0, <1>19, <2>1 DEF Delete
  <2>2. CASE rollback # {}
    <3>1. PICK r \in rollback : order' = Kept(order, Slots \ {r.created})
      BY <1>0, <1>19, <2>2 DEF Delete
    <3>2. r.created \notin Theirs
      BY DEF Ownership, Claimed, Theirs
    <3>3. (Slots \ {r.created}) \cap Theirs = Theirs
      BY <3>2 DEF Theirs
    <3>4. Kept(order', Theirs) = Kept(order, Theirs)
      BY <3>1, <3>3, KeptTwice
    <3>5. order' \in Seq(Slots)
      BY <3>1, KeptTyped
    <3> QED
      BY <1>0, <1>19, <2>2, <3>4, <3>5 DEF Delete
  <2> QED
    BY <2>1, <2>2
<1>20. CASE DeleteFails
  BY <1>0, <1>20 DEF DeleteFails, Fault
<1>21. CASE Restore
  BY <1>0, <1>21 DEF Restore
<1>22. CASE RestoreFails
  BY <1>0, <1>22 DEF RestoreFails, Fault
<1>23. CASE WriteDefaults
  BY <1>0, <1>23 DEF WriteDefaults
<1>24. CASE TargetSetup
  BY <1>0, <1>24 DEF TargetSetup
<1>25. CASE FinalizeBoot
  BY <1>0, <1>25 DEF FinalizeBoot
<1>26. CASE Upgrade
  BY <1>0, <1>26 DEF Upgrade
<1>28. CASE Succeed
  BY <1>0, <1>28 DEF Succeed
<1>29. CASE Interrupt
  BY <1>0, <1>29 DEF Interrupt, Halt
<1>30. CASE InterruptRollback
  BY <1>0, <1>30 DEF InterruptRollback
<1>27. CASE UNCHANGED vars
  BY <1>0, <1>27 DEF vars
<1> QED
  BY <1>1, <1>2, <1>3, <1>4, <1>5, <1>6, <1>7, <1>8, <1>9, <1>10, <1>11,
     <1>12, <1>13, <1>14, <1>15, <1>16, <1>17, <1>18, <1>19, <1>20, <1>21,
     <1>22, <1>23, <1>24, <1>25, <1>26, <1>27, <1>28, <1>29, <1>30 DEF Next

(* The strengthening is an invariant. *)
THEOREM IInvInvariant == Spec => []IInv
<1>1. IInv /\ [Next]_vars => IInv'
  BY StepOwnership, StepForeign, StepAccounted, StepChecked, StepRemoves,
     StepOrdered DEF IInv
<1> QED
  BY InitIInv, <1>1, PTL DEF Spec

(* The install touches no boot entry and no loader it did not make. *)
THEOREM OthersSafe == Spec => []ForeignUntouched
<1>1. IInv => ForeignUntouched
  BY DEF IInv
<1> QED
  BY IInvInvariant, <1>1, PTL

(* A failed free-space install leaves no entry it could have known of. *)
THEOREM RollbackComplete == Spec => []FailureRemovesEntry
<1>1. IInv => FailureRemovesEntry
  BY DEF IInv
<1> QED
  BY IInvInvariant, <1>1, PTL

(* A success has a route to this system and still has Windows. *)
THEOREM HandOver == Spec => []HandedOverBootable
<1>1. IInv => HandedOverBootable
  BY DEF IInv, Checked, HandedOverBootable
<1> QED
  BY IInvInvariant, <1>1, PTL

(* Setting Limine first, deleting it and restoring an order the firmware    *)
(* may refuse neither drop nor move an entry of somebody else.              *)
THEOREM OthersInOrder == Spec => []OthersKeepTheirOrder
<1>1. IInv => OthersKeepTheirOrder
  <2> SUFFICES ASSUME Ordered PROVE Others(order) = Others(found.order)
    BY DEF IInv, OthersKeepTheirOrder
  <2>1. Theirs \cap (Theirs \ lost) = Theirs \ lost
    OBVIOUS
  <2>2. ASSUME NEW q \in Seq(Slots)
        PROVE  Others(q) = Kept(Kept(q, Theirs), Theirs \ lost)
    BY <2>1, KeptTwice DEF Others
  <2> QED
    BY <2>2 DEF Ordered
<1> QED
  BY IInvInvariant, <1>1, PTL
=============================================================================
