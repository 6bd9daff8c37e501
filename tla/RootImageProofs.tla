--------------------------- MODULE RootImageProofs ---------------------------
(***************************************************************************)
(* RootImage, for any image, any layout and any devices: the type, what    *)
(* may be destroyed, the two facts about the UUID, and where the files of  *)
(* the image end.  The last needs a theory of paths: the image orders its  *)
(* directories as the mounts do, because an accepted layout has a nested   *)
(* subvolume where its parent has it, at every depth.                      *)
(***************************************************************************)
EXTENDS RootImage, WellFoundedInduction, SequenceTheorems, TLAPS

-----------------------------------------------------------------------------
(* Numbers and paths *)

(* A set of numbers that is not empty has a least one. *)
LEMMA Smallest ==
  ASSUME NEW T, T \subseteq Nat, T # {}
  PROVE  \E m \in T : \A k \in T : m <= k
<1> DEFINE R == OpToRel(<, Nat)
<1>1. \E m \in T : \A k \in T : ~ (<<k, m>> \in R)
  BY WFMin, NatLessThanWellFounded
<1>2. \A k, m \in Nat : k < m => <<k, m>> \in R
  BY DEF OpToRel
<1> HIDE DEF R
<1>3. PICK m \in T : \A k \in T : ~ (<<k, m>> \in R)
  BY <1>1
<1>4. \A k \in T : ~(k < m)
  BY <1>2, <1>3
<1> QED
  BY <1>4

(* What the model's paths are. *)
Path == Seq(STRING)

(* A path is its prefix and the rest. *)
LEMMA PrefixIsConcat ==
  ASSUME NEW s \in Path, NEW t \in Path
  PROVE  /\ IsPrefix(s, t) => Rest(t, s) \in Path /\ t = s \o Rest(t, s)
         /\ Len(s) \in Nat
<1>1. Len(s) \in Nat /\ Len(t) \in Nat
  BY DEF Path
<1>2. ASSUME IsPrefix(s, t) PROVE Rest(t, s) \in Path /\ t = s \o Rest(t, s)
  <2>1. Len(s) <= Len(t) /\ SubSeq(s, 1, Len(s)) = SubSeq(t, 1, Len(s))
    BY <1>2 DEF IsPrefix
  <2>2. \A i \in 1..Len(t) : t[i] \in STRING
    BY ElementOfSeq DEF Path
  <2>3. /\ Rest(t, s) \in Path
        /\ Len(Rest(t, s)) = Len(t) - Len(s)
        /\ \A i \in 1..(Len(t) - Len(s)) : Rest(t, s)[i] = t[Len(s) + i]
    <3>1. \A i \in (Len(s) + 1)..Len(t) : t[i] \in STRING
      BY <1>1, <2>2
    <3> QED
      BY <1>1, <2>1, <3>1, SubSeqProperties DEF Rest, Path
  <2>4. \A i \in 1..Len(s) : s[i] = t[i]
    <3> SUFFICES ASSUME NEW i \in 1..Len(s) PROVE s[i] = t[i]
      OBVIOUS
    <3>1. SubSeq(s, 1, Len(s))[i] = s[i] /\ SubSeq(t, 1, Len(s))[i] = t[i]
      BY <1>1, <2>1 DEF Path
    <3> QED
      BY <3>1, <2>1
  <2>5. /\ s \o Rest(t, s) \in Path
        /\ Len(s \o Rest(t, s)) = Len(t)
        /\ \A i \in 1..Len(t) : (s \o Rest(t, s))[i] = t[i]
    <3>1. /\ s \o Rest(t, s) \in Path
          /\ Len(s \o Rest(t, s)) = Len(t)
      BY <1>1, <2>3, ConcatProperties DEF Path
    <3>2. ASSUME NEW i \in 1..Len(t) PROVE (s \o Rest(t, s))[i] = t[i]
      <4>1. (s \o Rest(t, s))[i] = IF i <= Len(s) THEN s[i] ELSE Rest(t, s)[i - Len(s)]
        BY <1>1, <2>3, ConcatProperties DEF Path
      <4>2. CASE i <= Len(s)
        BY <4>1, <4>2, <2>4
      <4>3. CASE ~(i <= Len(s))
        <5>1. i - Len(s) \in 1..(Len(t) - Len(s)) /\ Len(s) + (i - Len(s)) = i
          BY <4>3, <1>1
        <5> QED
          BY <5>1, <4>1, <4>3, <2>3
      <4> QED
        BY <4>2, <4>3
    <3> QED
      BY <3>1, <3>2
  <2>6. t = s \o Rest(t, s)
    BY <2>5, <1>1, SeqEqual DEF Path
  <2> QED
    BY <2>3, <2>6
<1> QED
  BY <1>1, <1>2

(* What a path is joined to is a prefix of the result. *)
LEMMA ConcatHasPrefix ==
  ASSUME NEW s \in Path, NEW w \in Path
  PROVE  /\ s \o w \in Path
         /\ IsPrefix(s, s \o w)
         /\ Rest(s \o w, s) = w
         /\ Len(s \o w) = Len(s) + Len(w)
<1>1. Len(s) \in Nat /\ Len(w) \in Nat
  BY DEF Path
<1>2. /\ s \o w \in Path /\ Len(s \o w) = Len(s) + Len(w)
      /\ \A i \in 1..(Len(s) + Len(w)) :
            (s \o w)[i] = IF i <= Len(s) THEN s[i] ELSE w[i - Len(s)]
  BY ConcatProperties DEF Path
<1>3. IsPrefix(s, s \o w)
  <2>1. \A i \in 1..Len(s) : s[i] \in STRING /\ (s \o w)[i] = s[i]
    BY <1>1, <1>2, ElementOfSeq DEF Path
  <2>2. /\ SubSeq(s, 1, Len(s)) \in Seq(STRING) /\ Len(SubSeq(s, 1, Len(s))) = Len(s)
        /\ SubSeq(s \o w, 1, Len(s)) \in Seq(STRING) /\ Len(SubSeq(s \o w, 1, Len(s))) = Len(s)
    BY <1>1, <2>1, SubSeqProperties
  <2>3. \A i \in 1..Len(s) : SubSeq(s, 1, Len(s))[i] = SubSeq(s \o w, 1, Len(s))[i]
    BY <1>1, <1>2, <2>1 DEF Path
  <2>4. SubSeq(s, 1, Len(s)) = SubSeq(s \o w, 1, Len(s))
    BY <2>2, <2>3, SeqEqual
  <2> QED
    BY <1>1, <1>2, <2>4 DEF IsPrefix
<1>4. Rest(s \o w, s) = w
  <2>1. Rest(s \o w, s) \in Path /\ s \o w = s \o Rest(s \o w, s)
    BY <1>2, <1>3, PrefixIsConcat
  <2> QED
    BY <2>1, ConcatSimplifications DEF Path
<1> QED
  BY <1>2, <1>3, <1>4

(* Of two prefixes of one path the shorter is a prefix of the longer. *)
LEMMA Comparable ==
  ASSUME NEW s \in Path, NEW t \in Path, NEW p \in Path, IsPrefix(s, p), IsPrefix(t, p)
  PROVE  /\ Len(s) <= Len(t) => IsPrefix(s, t)
         /\ Len(s) = Len(t) => s = t
<1>1. Len(s) \in Nat /\ Len(t) \in Nat /\ Len(p) \in Nat
  BY DEF Path
<1>2. \A i \in 1..Len(s) : s[i] = p[i]
  <2>1. Len(s) <= Len(p) /\ SubSeq(s, 1, Len(s)) = SubSeq(p, 1, Len(s))
    BY DEF IsPrefix
  <2> SUFFICES ASSUME NEW i \in 1..Len(s) PROVE s[i] = p[i]
    OBVIOUS
  <2>2. SubSeq(s, 1, Len(s))[i] = s[i] /\ SubSeq(p, 1, Len(s))[i] = p[i]
    BY <1>1, <2>1 DEF Path
  <2> QED
    BY <2>1, <2>2
<1>3. \A i \in 1..Len(t) : t[i] = p[i]
  <2>1. Len(t) <= Len(p) /\ SubSeq(t, 1, Len(t)) = SubSeq(p, 1, Len(t))
    BY DEF IsPrefix
  <2> SUFFICES ASSUME NEW i \in 1..Len(t) PROVE t[i] = p[i]
    OBVIOUS
  <2>2. SubSeq(t, 1, Len(t))[i] = t[i] /\ SubSeq(p, 1, Len(t))[i] = p[i]
    BY <1>1, <2>1 DEF Path
  <2> QED
    BY <2>1, <2>2
<1>4. ASSUME Len(s) <= Len(t) PROVE IsPrefix(s, t)
  <2>1. \A i \in 1..Len(s) : s[i] = t[i] /\ s[i] \in STRING /\ t[i] \in STRING
    BY <1>1, <1>2, <1>3, <1>4, ElementOfSeq DEF Path
  <2>2. /\ SubSeq(s, 1, Len(s)) \in Seq(STRING) /\ Len(SubSeq(s, 1, Len(s))) = Len(s)
        /\ SubSeq(t, 1, Len(s)) \in Seq(STRING) /\ Len(SubSeq(t, 1, Len(s))) = Len(s)
    BY <1>1, <2>1, SubSeqProperties
  <2>3. \A i \in 1..Len(s) : SubSeq(s, 1, Len(s))[i] = SubSeq(t, 1, Len(s))[i]
    BY <1>1, <1>4, <2>1 DEF Path
  <2>4. SubSeq(s, 1, Len(s)) = SubSeq(t, 1, Len(s))
    BY <2>2, <2>3, SeqEqual
  <2> QED
    BY <1>1, <1>4, <2>4 DEF IsPrefix
<1>5. ASSUME Len(s) = Len(t) PROVE s = t
  BY <1>1, <1>2, <1>3, <1>5, SeqEqual DEF Path
<1> QED
  BY <1>4, <1>5

(* Joining paths, with the provers kept from the elements of the sequences. *)
Join(s, t) == s \o t

(* The types, and the empty path. *)
LEMMA Joins ==
  /\ \A s, t \in Path : Join(s, t) \in Path
  /\ \A s \in Path : Join(s, <<>>) = s /\ Join(<<>>, s) = s /\ Len(s) \in Nat
  /\ <<>> \in Path
<1>1. \A s \in Path : s \o <<>> = s /\ <<>> \o s = s
  BY ConcatEmptySeq DEF Path
<1>2. (\A s, t \in Path : s \o t \in Path) /\ <<>> \in Path /\ \A s \in Path : Len(s) \in Nat
  BY DEF Path
<1> QED
  BY <1>1, <1>2 DEF Join

(* Joining is associative ... *)
LEMMA Assoc ==
  ASSUME NEW s \in Path, NEW t \in Path, NEW u \in Path
  PROVE  Join(Join(s, t), u) = Join(s, Join(t, u))
BY ConcatAssociative DEF Path, Join

(* ... and cancels on the left ... *)
LEMMA Cancel ==
  ASSUME NEW s \in Path, NEW t \in Path, NEW u \in Path, Join(s, t) = Join(s, u)
  PROVE  t = u
BY ConcatSimplifications DEF Path, Join

(* ... and on the right. *)
LEMMA CancelEnd ==
  ASSUME NEW s \in Path, NEW t \in Path, NEW u \in Path, Join(s, u) = Join(t, u)
  PROVE  s = t
BY ConcatSimplifications DEF Path, Join

(* ConcatHasPrefix and PrefixIsConcat, for Join. *)
LEMMA Begins ==
  ASSUME NEW s \in Path, NEW w \in Path
  PROVE  IsPrefix(s, Join(s, w)) /\ Rest(Join(s, w), s) = w
BY ConcatHasPrefix DEF Join

(* A prefix and the rest make the path. *)
LEMMA Parts ==
  ASSUME NEW s \in Path, NEW t \in Path, IsPrefix(s, t)
  PROVE  Rest(t, s) \in Path /\ t = Join(s, Rest(t, s))
BY PrefixIsConcat DEF Join

(* Of bounded numbers there is a greatest. *)
LEMMA Longest ==
  ASSUME NEW S, S # {}, NEW f, \A s \in S : f[s] \in Nat, NEW N \in Nat,
         \A s \in S : f[s] <= N
  PROVE  \E s \in S : \A t \in S : f[t] <= f[s]
<1> DEFINE T == {k \in Nat : \E s \in S : k = N - f[s]}
<1>1. \A s \in S : N - f[s] \in T
  OBVIOUS
<1>2. T \subseteq Nat /\ T # {}
  BY <1>1
<1>3. PICK k \in T : \A j \in T : k <= j
  <2> HIDE DEF T
  <2> QED
    BY <1>2, Smallest
<1>4. PICK s \in S : k = N - f[s]
  BY <1>3
<1>5. ASSUME NEW t \in S PROVE f[t] <= f[s]
  <2>1. N - f[s] <= N - f[t]
    BY <1>1, <1>3, <1>4
  <2> QED
    BY <2>1
<1> QED
  BY <1>5

-----------------------------------------------------------------------------
(* Layouts and the image *)

(* Layouts map paths to paths. *)
Typed(l) == DOMAIN l \subseteq Path /\ \A n \in DOMAIN l : l[n] \in Path

(* A name below another has a nearest one above it. *)
LEMMA ParentChosen ==
  ASSUME NEW l, Typed(l), NEW n \in DOMAIN l, Parents(l, n) # {}
  PROVE  /\ Parent(l, n) \in Parents(l, n)
         /\ \A q \in Parents(l, n) : Len(q) <= Len(Parent(l, n))
<1> DEFINE f == [o \in Parents(l, n) |-> Len(o)]
<1>1. \A o \in Parents(l, n) : o \in Path /\ f[o] = Len(o) /\ f[o] \in Nat /\ f[o] <= Len(n)
  BY Joins DEF Typed, Parents, IsStrictPrefix, IsPrefix
<1>2. Len(n) \in Nat
  BY Joins DEF Typed
<1>3. \E o \in Parents(l, n) : \A q \in Parents(l, n) : f[q] <= f[o]
  <2> HIDE DEF f
  <2> QED
    BY <1>1, <1>2, Longest
<1>4. \E o \in Parents(l, n) : \A q \in Parents(l, n) : Len(q) <= Len(o)
  BY <1>1, <1>3
<1> QED
  BY <1>4 DEF Parent

(* Prefixes are ordered. *)
LEMMA Reflexive == ASSUME NEW s \in Path PROVE IsPrefix(s, s)
<1>1. Join(s, <<>>) = s /\ <<>> \in Path
  BY Joins
<1>2. IsPrefix(s, Join(s, <<>>))
  BY <1>1, Begins
<1> QED
  BY <1>1, <1>2

(* The order is transitive. *)
LEMMA Transitive ==
  ASSUME NEW s \in Path, NEW t \in Path, NEW u \in Path, IsPrefix(s, t), IsPrefix(t, u)
  PROVE  IsPrefix(s, u)
<1>1. PICK a \in Path : t = Join(s, a)
  BY Parts
<1>2. PICK b \in Path : u = Join(t, b)
  BY Parts
<1>3. u = Join(s, Join(a, b)) /\ Join(a, b) \in Path
  BY <1>1, <1>2, Assoc, Joins
<1> QED
  BY <1>3, Begins

(* Comparable, as a join. *)
LEMMA Extends ==
  ASSUME NEW s \in Path, NEW t \in Path, NEW u \in Path,
         IsPrefix(s, u), IsPrefix(t, u), Len(s) <= Len(t)
  PROVE  \E w \in Path : t = Join(s, w)
<1>1. IsPrefix(s, t)
  BY Comparable
<1> QED
  BY <1>1, Parts

(* What is below a path stays below when the path moves. *)
LEMMA Graft ==
  ASSUME NEW p \in Path, NEW g \in Path, NEW t \in Path, NEW s \in Path, NEW x \in Path,
         Join(Join(p, t), s) = Join(p, x)
  PROVE  Join(Join(g, t), s) = Join(g, x)
<1>1. Join(Join(p, t), s) = Join(p, Join(t, s)) /\ Join(t, s) \in Path
  BY Assoc, Joins
<1>2. Join(p, Join(t, s)) = Join(p, x)
  BY <1>1
<1>3. Join(t, s) = x
  BY <1>1, <1>2, Cancel
<1> QED
  BY <1>3, Assoc

(* A nested subvolume is mounted where the image has it, however deep it is:   *)
(* Accepted asks this of the nearest parent; a least counterexample refutes    *)
(* the rest.                                                                   *)
LEMMA Nested ==
  ASSUME NEW l, Typed(l), Accepted(l), NEW m \in DOMAIN l, NEW w \in Path,
         Join(m, w) \in DOMAIN l
  PROVE  l[Join(m, w)] = Join(l[m], w)
<1> DEFINE Wrong(s) == Join(m, s) \in DOMAIN l /\ l[Join(m, s)] # Join(l[m], s)
           T == {k \in Nat : \E s \in Path : k = Len(Join(m, s)) /\ Wrong(s)}
<1> SUFFICES ASSUME Wrong(w) PROVE FALSE
  OBVIOUS
<1>0. m \in Path /\ l[m] \in Path
  BY DEF Typed
<1>1. PICK k \in T : \A j \in T : k <= j
  <2>1. Len(Join(m, w)) \in Nat
    BY <1>0, Joins
  <2>2. T \subseteq Nat /\ T # {}
    BY <2>1
  <2> HIDE DEF T
  <2> QED
    BY <2>2, Smallest
<1>2. PICK s \in Path : k = Len(Join(m, s)) /\ Wrong(s)
  BY <1>1
<1>3. ASSUME NEW r \in Path, Wrong(r) PROVE Len(Join(m, s)) <= Len(Join(m, r))
  <2>1. Len(Join(m, r)) \in T
    BY <1>0, <1>3, Joins
  <2> QED
    BY <2>1, <1>1, <1>2
<1>4. Join(m, s) \in DOMAIN l /\ l[Join(m, s)] # Join(l[m], s)
  BY <1>2
<1>5. \A r \in Path : Join(m, r) \in DOMAIN l /\ l[Join(m, r)] # Join(l[m], r)
                       => Len(Join(m, s)) <= Len(Join(m, r))
  BY <1>3
<1> HIDE DEF Wrong, T
<1>6. PICK n : n = Join(m, s)
  OBVIOUS
<1>7. n \in Path /\ n \in DOMAIN l /\ l[n] # Join(l[m], s) /\ IsPrefix(m, n)
  BY <1>0, <1>4, <1>6, Begins, Joins
<1>8. m # n
  <2> SUFFICES ASSUME m = n PROVE FALSE
    OBVIOUS
  <2>1. Join(m, <<>>) = m /\ Join(l[m], <<>>) = l[m] /\ <<>> \in Path
    BY <1>0, Joins
  <2>2. Join(m, s) = Join(m, <<>>)
    BY <1>6, <2>1
  <2>3. s = <<>>
    BY <2>1, <2>2, <1>0, Cancel
  <2> QED
    BY <2>1, <2>3, <1>7
<1>9. m \in Parents(l, n)
  BY <1>7, <1>8 DEF Parents, IsStrictPrefix
<1>10. PICK p : p = Parent(l, n)
  OBVIOUS
<1>11. p \in Parents(l, n) /\ Len(m) <= Len(p)
  BY <1>7, <1>9, <1>10, ParentChosen
<1>12. p \in DOMAIN l /\ p \in Path /\ l[p] \in Path /\ IsPrefix(p, n) /\ p # n
  BY <1>11 DEF Parents, IsStrictPrefix, Typed
<1>13. l[n] = Join(l[p], Rest(n, p))
  BY <1>7, <1>9, <1>10 DEF Accepted, Join
<1>14. Rest(n, p) \in Path /\ n = Join(p, Rest(n, p))
  BY <1>7, <1>12, Parts
<1>15. PICK x \in Path : n = Join(p, x) /\ l[n] = Join(l[p], x)
  BY <1>13, <1>14
<1>16. PICK r \in Path : p = Join(m, r)
  BY <1>0, <1>7, <1>11, <1>12, Comparable, Parts
<1>17. s = Join(r, x)
  <2>1. Join(m, s) = Join(p, x)
    BY <1>6, <1>15
  <2>2. Join(m, s) = Join(Join(m, r), x)
    BY <2>1, <1>16
  <2>3. Join(Join(m, r), x) = Join(m, Join(r, x)) /\ Join(r, x) \in Path
    BY <1>0, Assoc, Joins
  <2>4. Join(m, s) = Join(m, Join(r, x))
    BY <2>2, <2>3
  <2> QED
    BY <2>3, <2>4, <1>0, Cancel
<1>18. Len(p) < Len(n)
  <2>1. Len(p) # Len(n)
    BY <1>7, <1>12, Comparable, Reflexive
  <2>2. Len(p) \in Nat /\ Len(n) \in Nat
    BY <1>7, <1>12, Joins
  <2> QED
    BY <2>1, <2>2, <1>12 DEF IsPrefix
<1>19. l[p] = Join(l[m], r)
  <2> SUFFICES ASSUME l[p] # Join(l[m], r) PROVE FALSE
    OBVIOUS
  <2>1. Len(n) <= Len(p)
    BY <1>5, <1>6, <1>12, <1>16
  <2>2. Len(p) \in Nat /\ Len(n) \in Nat
    BY <1>7, <1>12, Joins
  <2> QED
    BY <2>1, <2>2, <1>18
<1>20. Join(Join(l[m], r), x) = Join(l[m], Join(r, x))
  BY <1>0, Assoc
<1> QED
  BY <1>7, <1>15, <1>17, <1>19, <1>20

(* The image orders its directories as the mounts do: p and q are subvolumes,  *)
(* r and s what is below their mounts.                                         *)
LEMMA ImageOrder ==
  ASSUME NEW l, Typed(l), Accepted(l), NEW p \in DOMAIN l, NEW q \in DOMAIN l,
         NEW r \in Path, NEW s \in Path, NEW w \in Path, Join(q, s) = Join(Join(p, r), w)
  PROVE  Join(l[q], s) = Join(Join(l[p], r), w)
<1>1. p \in Path /\ q \in Path /\ l[p] \in Path /\ l[q] \in Path
  BY DEF Typed
<1>2. PICK x \in Path : x = Join(r, w)
  BY Joins
<1>3. Join(Join(p, r), w) = Join(p, x)
  BY <1>1, <1>2, Assoc
<1>4. Join(Join(l[p], r), w) = Join(l[p], x)
  BY <1>1, <1>2, Assoc
<1>5. Join(q, s) = Join(p, x)
  BY <1>3
<1>6. Join(q, s) \in Path /\ IsPrefix(q, Join(q, s))
  BY <1>1, Begins, Joins
<1>7. IsPrefix(p, Join(p, x))
  BY <1>1, Begins
<1>8. IsPrefix(p, Join(q, s))
  BY <1>5, <1>7
<1>9. Len(p) <= Len(q) \/ Len(q) <= Len(p)
  BY <1>1, Joins
<1>10. CASE Len(p) <= Len(q)
  <2>1. PICK t \in Path : q = Join(p, t)
    BY <1>1, <1>6, <1>8, <1>10, Extends
  <2>2. l[q] = Join(l[p], t)
    BY <1>1, <2>1, Nested
  <2>3. Join(Join(p, t), s) = Join(p, x)
    BY <1>5, <2>1
  <2>4. Join(Join(l[p], t), s) = Join(l[p], x)
    BY <1>1, <2>3, Graft
  <2> QED
    BY <2>2, <2>4, <1>4
<1>11. CASE Len(q) <= Len(p)
  <2>1. PICK t \in Path : p = Join(q, t)
    BY <1>1, <1>6, <1>8, <1>11, Extends
  <2>2. l[p] = Join(l[q], t)
    BY <1>1, <2>1, Nested
  <2>3. Join(Join(q, t), x) = Join(q, s)
    BY <1>5, <2>1
  <2>4. Join(Join(l[q], t), x) = Join(l[q], s)
    BY <1>1, <2>3, Graft
  <2> QED
    BY <2>2, <2>4, <1>4
<1> QED
  BY <1>9, <1>10, <1>11

(* ImageDirectory in parts: the subvolumes mounted over a path, the deepest of *)
(* them, and the path below that one's mount.                                  *)
Over(names, path) == {n \in names : IsPrefix(layout[n], path)}
Deepest(S) == CHOOSE n \in S : \A o \in S : Len(layout[o]) <= Len(layout[n])

Cover(names, path) == Deepest(Over(names, path))
Below(names, path) == Rest(path, layout[Cover(names, path)])

(* ImageDirectory is made of these parts. *)
LEMMA DirectoryOfDeepest ==
  ASSUME NEW M, NEW path
  PROVE  ImageDirectory(M, path) = Join(Cover(M, path), Below(M, path))
BY DEF ImageDirectory, Deepest, Over, Join, Cover, Below

(* Where one subvolume is over a path, one is the deepest. *)
LEMMA DeepestChosen ==
  ASSUME Typed(layout), NEW M, M \subseteq DOMAIN layout, NEW path \in Path,
         NEW a \in M, IsPrefix(layout[a], path)
  PROVE  /\ Deepest(Over(M, path)) \in Over(M, path)
         /\ \A o \in Over(M, path) : Len(layout[o]) <= Len(layout[Deepest(Over(M, path))])
<1> DEFINE S == Over(M, path)
           f == [n \in S |-> Len(layout[n])]
<1>1. S # {}
  BY DEF Over
<1>2. \A n \in S : f[n] = Len(layout[n]) /\ f[n] \in Nat /\ f[n] <= Len(path)
  BY Joins DEF Over, Typed, IsPrefix
<1>3. Len(path) \in Nat
  BY Joins
<1>4. \E n \in S : \A o \in S : f[o] <= f[n]
  <2> HIDE DEF f, S
  <2> QED
    BY <1>1, <1>2, <1>3, Longest
<1>5. \E n \in S : \A o \in S : Len(layout[o]) <= Len(layout[n])
  BY <1>2, <1>4
<1> QED
  BY <1>5 DEF Deepest

(* Where @ is placed, every path has a deepest subvolume over it. *)
LEMMA ImagePlace ==
  ASSUME Typed(layout), NEW M, M \subseteq DOMAIN layout, At \in M, layout[At] = <<>>,
         NEW path \in Path
  PROVE  /\ Cover(M, path) \in M /\ Below(M, path) \in Path
         /\ path = Join(layout[Cover(M, path)], Below(M, path))
         /\ ImageDirectory(M, path) = Join(Cover(M, path), Below(M, path))
         /\ \A o \in M : IsPrefix(layout[o], path) => Len(layout[o]) <= Len(layout[Cover(M, path)])
<1>1. IsPrefix(layout[At], path)
  <2>1. Join(<<>>, path) = path /\ <<>> \in Path
    BY Joins
  <2>2. IsPrefix(<<>>, Join(<<>>, path))
    BY <2>1, Begins
  <2> QED
    BY <2>1, <2>2
<1>2. /\ Cover(M, path) \in Over(M, path)
      /\ \A o \in Over(M, path) : Len(layout[o]) <= Len(layout[Cover(M, path)])
  BY <1>1, DeepestChosen DEF Cover
<1>3. /\ Cover(M, path) \in M /\ layout[Cover(M, path)] \in Path
      /\ IsPrefix(layout[Cover(M, path)], path)
  BY <1>2 DEF Over, Typed
<1>4. Below(M, path) \in Path /\ path = Join(layout[Cover(M, path)], Below(M, path))
  BY <1>3, Parts DEF Below
<1>5. ImageDirectory(M, path) = Join(Cover(M, path), Below(M, path))
  BY DirectoryOfDeepest
<1>6. \A o \in M : IsPrefix(layout[o], path) => Len(layout[o]) <= Len(layout[Cover(M, path)])
  BY <1>2 DEF Over
<1> QED
  BY <1>3, <1>4, <1>5, <1>6

(* Below one path in the image is below it in the mounts. *)
LEMMA ImageBelow ==
  ASSUME Typed(layout), Accepted(layout), NEW M, M \subseteq DOMAIN layout, At \in M,
         NEW path \in Path, NEW d \in Path, NEW w \in Path,
         ImageDirectory(M, d) = Join(ImageDirectory(M, path), w)
  PROVE  d = Join(path, w)
<1>1. layout[At] = <<>>
  BY DEF Accepted
<1>2. PICK p \in M, s \in Path : ImageDirectory(M, d) = Join(p, s) /\ d = Join(layout[p], s)
  <2>1. /\ Cover(M, d) \in M /\ Below(M, d) \in Path
        /\ ImageDirectory(M, d) = Join(Cover(M, d), Below(M, d))
        /\ d = Join(layout[Cover(M, d)], Below(M, d))
    BY <1>1, ImagePlace
  <2> QED
    BY <2>1
<1>3. PICK c \in M, v \in Path : /\ ImageDirectory(M, path) = Join(c, v)
                               /\ path = Join(layout[c], v)
  <2>1. /\ Cover(M, path) \in M /\ Below(M, path) \in Path
        /\ ImageDirectory(M, path) = Join(Cover(M, path), Below(M, path))
        /\ path = Join(layout[Cover(M, path)], Below(M, path))
    BY <1>1, ImagePlace
  <2> QED
    BY <2>1
<1>4. Join(p, s) = Join(Join(c, v), w)
  BY <1>2, <1>3
<1>5. Join(layout[p], s) = Join(Join(layout[c], v), w)
  BY <1>4, ImageOrder
<1> QED
  BY <1>5, <1>2, <1>3

(* Where nothing is mounted between a path and one below it, the image has     *)
(* the second below the first.                                                 *)
LEMMA ImageAbove ==
  ASSUME Typed(layout), Accepted(layout), NEW M, M \subseteq DOMAIN layout, At \in M,
         NEW path \in Path, NEW x \in Path, NEW d, d = Join(path, x),
         \A o \in M : IsPrefix(layout[o], d) => Len(layout[o]) <= Len(path)
  PROVE  ImageDirectory(M, d) = Join(ImageDirectory(M, path), x)
<1>1. layout[At] = <<>> /\ \A o \in M : o \in Path /\ layout[o] \in Path
  BY DEF Accepted, Typed
<1>2. IsPrefix(path, d) /\ d \in Path
  BY Begins, Joins
<1>3. ASSUME NEW o \in M PROVE IsPrefix(layout[o], d) <=> IsPrefix(layout[o], path)
  BY <1>1, <1>2, Comparable, Transitive
<1>4. Over(M, d) = Over(M, path)
  BY <1>3 DEF Over
<1>5. PICK p : p = Cover(M, path)
  OBVIOUS
<1>6. p = Cover(M, d)
  BY <1>4, <1>5 DEF Cover
<1>7. PICK s \in Path : p \in M /\ ImageDirectory(M, d) = Join(p, s) /\ d = Join(layout[p], s)
  BY <1>1, <1>2, <1>6, ImagePlace
<1>8. PICK v \in Path : ImageDirectory(M, path) = Join(p, v) /\ path = Join(layout[p], v)
  BY <1>1, <1>5, ImagePlace
<1>9. Join(Join(layout[p], v), x) = Join(layout[p], s)
  BY <1>7, <1>8
<1>10. Join(Join(p, v), x) = Join(p, s)
  BY <1>1, <1>7, <1>9, Graft
<1> QED
  BY <1>7, <1>8, <1>10

(* What create_subvolume does to a directory, where @ is placed and no placed  *)
(* subvolume is mounted deeper than the new one: it stays in the deepest.      *)
LEMMA Filled ==
  ASSUME Typed(layout), Accepted(layout), NEW M, M \subseteq DOMAIN layout, At \in M,
         NEW n \in DOMAIN layout, n \notin M,
         \A o \in M : Len(layout[o]) <= Len(layout[n]), NEW d \in Path
  PROVE  Moved(Place("btrfs", <<>>, ImageDirectory(M, d)), ImageDirectory(M, layout[n]), n)
           = Place("btrfs", <<>>, ImageDirectory(M \cup {n}, d))
<1> DEFINE Y == ImageDirectory(M, d)
           C == ImageDirectory(M, layout[n])
<1>0. n \in Path /\ layout[n] \in Path /\ layout[At] = <<>>
      /\ \A o \in M : o \in Path /\ layout[o] \in Path
  BY DEF Typed, Accepted
<1>1. Y \in Path /\ C \in Path
  BY <1>0, ImagePlace, Joins
<1>2. PICK p \in M, s \in Path : Y = Join(p, s) /\ d = Join(layout[p], s)
  <2>1. /\ Cover(M, d) \in M /\ Below(M, d) \in Path
        /\ Y = Join(Cover(M, d), Below(M, d)) /\ d = Join(layout[Cover(M, d)], Below(M, d))
    BY <1>0, ImagePlace
  <2> QED
    BY <2>1
<1>3. ASSUME NEW w \in Path, Y = Join(C, w) PROVE d = Join(layout[n], w)
  BY <1>0, <1>3, ImageBelow
<1>4. ASSUME NEW w \in Path, Y = Join(n, w) PROVE d = Join(layout[n], w)
  <2>1. Join(n, <<>>) = n /\ Join(layout[n], <<>>) = layout[n] /\ <<>> \in Path
    BY <1>0, Joins
  <2>2. Join(p, s) = Join(Join(n, <<>>), w)
    BY <1>2, <1>4, <2>1
  <2>3. Join(layout[p], s) = Join(Join(layout[n], <<>>), w)
    BY <2>1, <2>2, ImageOrder
  <2> QED
    BY <2>1, <2>3, <1>2
<1> DEFINE moved == Moved(Place("btrfs", <<>>, Y), C, n)
<1>5. moved = IF IsPrefix(C, Y) /\ (C = n \/ ~IsPrefix(n, Y))
              THEN Place("btrfs", <<>>, Join(n, Rest(Y, C)))
              ELSE IF IsPrefix(n, Y) THEN Lost ELSE Place("btrfs", <<>>, Y)
  BY DEF Moved, Under, Place, Join
<1> HIDE DEF moved, Y, C
<1>6. CASE IsPrefix(layout[n], d)
  <2>1. PICK x \in Path : d = Join(layout[n], x) /\ x = Rest(d, layout[n])
    BY <1>0, <1>6, Parts
  <2>5. Y = Join(C, x)
    BY <1>0, <2>1, ImageAbove DEF Y, C
  <2>6. IsPrefix(C, Y) /\ Rest(Y, C) = x
    BY <2>5, <1>1, Begins
  <2>7. ASSUME IsPrefix(n, Y) PROVE C = n
    <3>1. PICK w \in Path : Y = Join(n, w)
      BY <1>0, <1>1, <2>7, Parts
    <3>2. d = Join(layout[n], w)
      BY <3>1, <1>4
    <3>3. Join(layout[n], w) = Join(layout[n], x)
      BY <3>2, <2>1
    <3>4. w = x
      BY <3>3, <1>0, Cancel
    <3>5. Join(n, x) = Join(C, x)
      BY <3>1, <3>4, <2>5
    <3> QED
      BY <3>5, <1>0, <1>1, CancelEnd
  <2>8. moved = Place("btrfs", <<>>, Join(n, x))
    BY <1>5, <2>6, <2>7
  <2>9. Cover(M \cup {n}, d) = n
    <3>1. n \in Over(M \cup {n}, d)
      BY <1>6 DEF Over
    <3>2. \A o \in Over(M \cup {n}, d) : Len(layout[o]) <= Len(layout[n])
      <4>1. Len(layout[n]) <= Len(layout[n])
        BY <1>0, Joins
      <4> QED
        BY <4>1 DEF Over
    <3>3. ASSUME NEW z \in Over(M \cup {n}, d),
                 \A o \in Over(M \cup {n}, d) : Len(layout[o]) <= Len(layout[z])
          PROVE  z = n
      <4>1. z \in DOMAIN layout /\ layout[z] \in Path /\ IsPrefix(layout[z], d)
        BY <1>0 DEF Over
      <4>2. Len(layout[z]) = Len(layout[n])
        <5>1. Len(layout[z]) \in Nat /\ Len(layout[n]) \in Nat
          BY <4>1, <1>0, Joins
        <5>2. Len(layout[z]) <= Len(layout[n]) /\ Len(layout[n]) <= Len(layout[z])
          BY <3>1, <3>2, <3>3
        <5> QED
          BY <5>1, <5>2
      <4>3. layout[z] = layout[n]
        BY <4>1, <4>2, <1>0, <1>6, Comparable
      <4> QED
        BY <4>1, <4>3 DEF Accepted, IsInjective
    <3> QED
      BY <3>1, <3>2, <3>3 DEF Deepest, Cover
  <2>10. ImageDirectory(M \cup {n}, d) = Join(n, x)
    BY <2>1, <2>9, DirectoryOfDeepest DEF Below
  <2> QED
    BY <2>8, <2>10 DEF moved, Y, C
<1>7. CASE ~IsPrefix(layout[n], d)
  <2>1. Over(M \cup {n}, d) = Over(M, d)
    BY <1>7 DEF Over
  <2>2. ImageDirectory(M \cup {n}, d) = Y
    BY <2>1, DirectoryOfDeepest DEF Y, Cover, Below
  <2>3. ~IsPrefix(C, Y)
    <3> SUFFICES ASSUME IsPrefix(C, Y) PROVE FALSE
      OBVIOUS
    <3>1. PICK w \in Path : Y = Join(C, w)
      BY <1>1, Parts
    <3> QED
      BY <3>1, <1>0, <1>3, <1>7, Begins
  <2>4. ~IsPrefix(n, Y)
    <3> SUFFICES ASSUME IsPrefix(n, Y) PROVE FALSE
      OBVIOUS
    <3>1. PICK w \in Path : Y = Join(n, w)
      BY <1>0, <1>1, Parts
    <3> QED
      BY <3>1, <1>0, <1>4, <1>7, Begins
  <2>5. moved = Place("btrfs", <<>>, Y)
    BY <1>5, <2>3, <2>4
  <2> QED
    BY <2>2, <2>5 DEF moved, Y, C
<1> QED
  BY <1>6, <1>7

-----------------------------------------------------------------------------
(* copy_fat_tree: every file goes where its home will be. *)

(* The layout as it is when the FAT trees are staged. *)
Settled ==
  /\ Typed(layout) /\ Accepted(layout) /\ placed = DOMAIN layout
  /\ fats \subseteq Path /\ \A n \in DOMAIN layout : layout[n] \notin fats

(* The FAT filesystems that a directory belongs to or lies below in one. *)
Covering(d) ==
  {p \in fats : /\ IsPrefix(p, d)
               /\ \A n \in DOMAIN layout : IsPrefix(layout[n], d) => Len(layout[n]) < Len(p)}

(* Where a directory of the image is before. *)
Arranged(d) == Place("btrfs", <<>>, ImageDirectory(DOMAIN layout, d))

(* Takes, for a file that is where the image has it. *)
LEMMA TakesMeans ==
  ASSUME NEW p, NEW d
  PROVE  Takes(p, Arranged(d)) <=>
           /\ IsPrefix(ImageDirectory(placed, p), ImageDirectory(DOMAIN layout, d))
           /\ \A o \in fats \cup {layout[n] : n \in placed} : IsStrictPrefix(p, o) =>
                 ~IsPrefix(Join(ImageDirectory(placed, p), Rest(o, p)),
                           ImageDirectory(DOMAIN layout, d))
BY DEF Takes, Keep, Under, Arranged, Place, Join

(* What a FAT mount takes is what it covers most deeply ... *)
LEMMA TakenIsCovered ==
  ASSUME Settled, NEW p \in fats, NEW d \in Path, Takes(p, Arranged(d))
  PROVE  /\ p \in Covering(d) /\ \A q \in Covering(d) : Len(q) <= Len(p)
         /\ Rest(ImageDirectory(DOMAIN layout, d), ImageDirectory(placed, p)) = Rest(d, p)
<1> DEFINE Y == ImageDirectory(DOMAIN layout, d)
           C == ImageDirectory(placed, p)
<1>0. p \in Path /\ At \in DOMAIN layout /\ layout[At] = <<>>
      /\ \A n \in DOMAIN layout : n \in Path /\ layout[n] \in Path
  BY DEF Settled, Accepted, Typed
<1>1. Y \in Path /\ C \in Path
  BY <1>0, ImagePlace, Joins DEF Settled
<1>2. IsPrefix(C, Y) /\ \A o \in fats \cup {layout[n] : n \in placed} :
                          IsStrictPrefix(p, o) => ~IsPrefix(Join(C, Rest(o, p)), Y)
  BY TakesMeans
<1>3. PICK w \in Path : Y = Join(C, w) /\ Rest(Y, C) = w
  BY <1>1, <1>2, Parts
<1>4. d = Join(p, w)
  BY <1>0, <1>3, ImageBelow DEF Settled
<1>5. IsPrefix(p, d) /\ Rest(d, p) = w
  BY <1>0, <1>4, Begins
<1>6. ASSUME NEW o \in fats \cup {layout[n] : n \in placed}, IsStrictPrefix(p, o), IsPrefix(o, d)
      PROVE  FALSE
  <2>1. o \in Path /\ IsPrefix(p, o)
    BY <1>0, <1>6 DEF Settled, IsStrictPrefix
  <2>2. PICK k \in Path : o = Join(p, k) /\ Rest(o, p) = k
    BY <1>0, <2>1, Parts
  <2>3. PICK y \in Path : d = Join(o, y)
    BY <1>6, <2>1, Parts
  <2>4. Join(Join(p, k), y) = Join(p, w)
    BY <1>4, <2>2, <2>3
  <2>5. Join(Join(C, k), y) = Join(C, w)
    BY <1>0, <1>1, <2>4, Graft
  <2>6. IsPrefix(Join(C, k), Join(Join(C, k), y))
    BY <1>1, Joins, Begins
  <2>7. IsPrefix(Join(C, Rest(o, p)), Y)
    BY <1>3, <2>2, <2>5, <2>6
  <2> QED
    BY <1>2, <1>6, <2>7
<1> HIDE DEF Y, C
<1>7. ASSUME NEW q \in Path, q \in fats \cup {layout[n] : n \in placed}, q # p, IsPrefix(q, d)
      PROVE  Len(q) < Len(p)
  <2> SUFFICES ASSUME Len(p) <= Len(q) PROVE FALSE
    BY <1>0, Joins
  <2>1. IsPrefix(p, q)
    BY <1>0, <1>5, <1>7, Comparable
  <2> QED
    BY <2>1, <1>6, <1>7 DEF IsStrictPrefix
<1>8. p \in Covering(d)
  BY <1>0, <1>5, <1>7 DEF Covering, Settled
<1>9. ASSUME NEW q \in Covering(d) PROVE Len(q) <= Len(p)
  BY <1>0, <1>7, Joins DEF Covering, Settled
<1> QED
  BY <1>3, <1>5, <1>8, <1>9 DEF Y, C

(* ... and what it covers most deeply it takes. *)
LEMMA CoveredIsTaken ==
  ASSUME Settled, NEW d \in Path, NEW p \in Covering(d),
         \A q \in Covering(d) : Len(q) <= Len(p)
  PROVE  Takes(p, Arranged(d))
<1> DEFINE Y == ImageDirectory(DOMAIN layout, d)
           C == ImageDirectory(placed, p)
<1>0. p \in Path /\ At \in DOMAIN layout /\ layout[At] = <<>>
      /\ \A n \in DOMAIN layout : n \in Path /\ layout[n] \in Path
  BY DEF Settled, Accepted, Typed, Covering
<1>1. Y \in Path /\ C \in Path
  BY <1>0, ImagePlace, Joins DEF Settled
<1>2. PICK w \in Path : d = Join(p, w)
  BY <1>0, Parts DEF Covering
<1>3. ASSUME NEW o \in DOMAIN layout, IsPrefix(layout[o], d) PROVE Len(layout[o]) < Len(p)
  BY <1>3 DEF Covering
<1>4. Y = Join(C, w)
  <2>1. \A o \in DOMAIN layout : IsPrefix(layout[o], d) => Len(layout[o]) <= Len(p)
    BY <1>0, <1>3, Joins
  <2> QED
    BY <1>0, <1>2, <2>1, ImageAbove DEF Settled
<1>5. IsPrefix(C, Y)
  BY <1>1, <1>4, Begins
<1>6. ASSUME NEW o \in fats \cup {layout[n] : n \in placed}, IsStrictPrefix(p, o),
             IsPrefix(Join(C, Rest(o, p)), Y)
      PROVE  FALSE
  <2>1. o \in Path /\ IsPrefix(p, o) /\ o # p
    BY <1>0, <1>6 DEF Settled, IsStrictPrefix
  <2>2. PICK k \in Path : o = Join(p, k) /\ Rest(o, p) = k
    BY <1>0, <2>1, Parts
  <2>3. PICK y \in Path : Y = Join(Join(C, k), y)
    BY <1>1, <1>6, <2>2, Parts, Joins
  <2>4. Join(Join(C, k), y) = Join(C, w)
    BY <1>4, <2>3
  <2>5. Join(Join(p, k), y) = Join(p, w)
    BY <1>0, <1>1, <2>4, Graft
  <2>6. d = Join(o, y)
    BY <1>2, <2>2, <2>5
  <2>7. IsPrefix(o, d)
    BY <2>1, <2>6, Begins
  <2>8. Len(o) \in Nat /\ Len(p) \in Nat /\ Len(p) < Len(o)
    <3>1. Len(p) <= Len(o) /\ Len(o) \in Nat /\ Len(p) \in Nat
      BY <1>0, <2>1, Joins DEF IsPrefix
    <3>2. Len(p) # Len(o)
      BY <1>0, <2>1, Reflexive, Comparable
    <3> QED
      BY <3>1, <3>2
  <2>9. CASE o \in fats
    <3>1. \A n \in DOMAIN layout : IsPrefix(layout[n], d) => Len(layout[n]) < Len(o)
      BY <1>0, <1>3, <2>8, Joins
    <3>2. o \in Covering(d)
      BY <2>7, <2>9, <3>1 DEF Covering
    <3> QED
      BY <2>8, <3>2
  <2>10. CASE o \in {layout[n] : n \in placed}
    BY <1>3, <2>7, <2>8, <2>10 DEF Settled
  <2> QED
    BY <2>9, <2>10
<1> QED
  BY <1>5, <1>6, TakesMeans

(* The step of StageBoot for one directory. *)
Staging(place) ==
  LET takers == {p \in fats : Takes(p, place)} IN
  IF takers = {} THEN place
  ELSE LET p == CHOOSE p \in takers : \A q \in takers : Len(p) <= Len(q)
       IN Place("stage", p, Rest(place.at, ImageDirectory(placed, p)))

LEMMA Staged ==
  ASSUME Settled, NEW d \in Path
  PROVE  Staging(Arranged(d)) = Waits(d)
<1>0. PICK takers : takers = {p \in fats : Takes(p, Arranged(d))}
  OBVIOUS
<1> DEFINE deepest == CHOOSE p \in Covering(d) : \A q \in Covering(d) : Len(q) <= Len(p)
<1>1. Home(d) = IF Covering(d) = {} THEN Arranged(d) ELSE Place("fat", deepest, Rest(d, deepest))
  <2>1. Covering(d) = {p \in {p \in fats : IsPrefix(p, d)} : \A n \in DOMAIN layout :
                         IsPrefix(layout[n], d) => Len(layout[n]) < Len(p)}
    BY DEF Covering
  <2> QED
    BY <2>1 DEF Home, Arranged
<1>2. \A p \in Covering(d) : p \in fats /\ p \in Path /\ IsPrefix(p, d)
  BY DEF Covering, Settled
<1>3. CASE Covering(d) = {}
  <2>1. takers = {}
    BY <1>0, <1>3, TakenIsCovered
  <2>2. Home(d) = Arranged(d) /\ Home(d).on # "fat"
    BY <1>1, <1>3 DEF Arranged, Place
  <2> QED
    BY <1>0, <2>1, <2>2 DEF Waits, Staging
<1>4. CASE Covering(d) # {}
  <2>1. deepest \in Covering(d) /\ \A q \in Covering(d) : Len(q) <= Len(deepest)
    <3> DEFINE f == [p \in Covering(d) |-> Len(p)]
    <3>1. \A p \in Covering(d) : f[p] = Len(p) /\ f[p] \in Nat /\ f[p] <= Len(d)
      BY <1>2, Joins DEF IsPrefix
    <3>2. Len(d) \in Nat
      BY Joins
    <3>3. \E p \in Covering(d) : \A q \in Covering(d) : f[q] <= f[p]
      <4> HIDE DEF f
      <4> QED
        BY <1>4, <3>1, <3>2, Longest
    <3>4. \E p \in Covering(d) : \A q \in Covering(d) : Len(q) <= Len(p)
      BY <3>1, <3>3
    <3> QED
      BY <3>4
  <2> HIDE DEF deepest
  <2>2. deepest \in takers
    BY <1>0, <1>2, <2>1, CoveredIsTaken
  <2>3. Rest(ImageDirectory(DOMAIN layout, d), ImageDirectory(placed, deepest)) = Rest(d, deepest)
    BY <1>0, <2>2, TakenIsCovered
  <2>4. ASSUME NEW t \in takers PROVE t = deepest
    <3>1. t \in Covering(d) /\ \A q \in Covering(d) : Len(q) <= Len(t)
      BY <1>0, TakenIsCovered
    <3>2. Len(t) = Len(deepest)
      <4>1. Len(t) \in Nat /\ Len(deepest) \in Nat
        BY <1>2, <2>1, <3>1, Joins
      <4>2. Len(t) <= Len(deepest) /\ Len(deepest) <= Len(t)
        BY <2>1, <3>1
      <4> QED
        BY <4>1, <4>2
    <3> QED
      BY <1>2, <2>1, <3>1, <3>2, Comparable
  <2>5. takers = {deepest}
    BY <2>2, <2>4
  <2>6. (CHOOSE p \in takers : \A q \in takers : Len(p) <= Len(q)) = deepest
    <3>1. Len(deepest) <= Len(deepest)
      BY <1>2, <2>1, Joins
    <3> QED
      BY <2>5, <3>1
  <2>7. Home(d) = Place("fat", deepest, Rest(d, deepest))
    BY <1>1, <1>4 DEF deepest
  <2>8. Waits(d) = Place("stage", deepest, Rest(d, deepest))
    BY <2>7 DEF Waits, Place
  <2>9. Arranged(d).at = ImageDirectory(DOMAIN layout, d)
    BY DEF Arranged, Place
  <2>10. Staging(Arranged(d))
           = Place("stage", deepest, Rest(Arranged(d).at, ImageDirectory(placed, deepest)))
    BY <1>0, <2>2, <2>6 DEF Staging
  <2> QED
    BY <2>3, <2>8, <2>9, <2>10
<1> QED
  BY <1>3, <1>4

-----------------------------------------------------------------------------
(* The invariant *)

(* The strengthening holds at the start. *)
LEMMA InitIInv == Init => IInv
<1> SUFFICES ASSUME Init PROVE IInv
  OBVIOUS
<1>1. disk \in DiskType /\ disk.content \in {"skeleton", "files", "foreign"}
  BY DisksTyped DEF Init, DiskType
<1>2. /\ pc = "preflight" /\ dev = disk.content /\ uuid = "own" /\ cached = "own"
      /\ cmdline = "none" /\ fstab = "none" /\ placed = {} /\ esp = "clean"
      /\ stage \in {"clean", "stale"} /\ disk \in Disks /\ fats \subseteq Mounts
      /\ mounted \subseteq {"target", "elsewhere"} /\ DOMAIN tree = Dirs
  BY DEF Init
<1>3. At \in DOMAIN layout /\ DOMAIN layout \subseteq Names
  <2>1. layout \in UNION {[S \cup {At} -> Mounts \cup {<<>>}] : S \in SUBSET (Names \ {At})}
    BY DEF Init, Layouts
  <2>2. PICK S \in SUBSET (Names \ {At}) : layout \in [S \cup {At} -> Mounts \cup {<<>>}]
    BY <2>1
  <2> QED
    BY <2>2, AtIsAName
<1>4. TypeOK
  BY <1>1, <1>2, <1>3 DEF TypeOK, Pcs, UUIDs
<1>5. LayoutInOrder
  <2>1. \A n \in DOMAIN layout : layout[n] \in (Mounts \cup {<<>>}) \ fats
    <3>1. layout \in UNION {[S \cup {At} -> Mounts \cup {<<>>}] : S \in SUBSET (Names \ {At})}
      BY DEF Init, Layouts
    <3>2. \A n \in DOMAIN layout : layout[n] \in Mounts \cup {<<>>}
      BY <3>1
    <3>3. fats \cap {layout[n] : n \in DOMAIN layout} = {}
      BY DEF Init
    <3> QED
      BY <3>2, <3>3
  <2>2. layout[At] = <<>> /\ IsInjective(layout)
    BY DEF Init, Layouts
  <2> QED
    BY <1>2, <2>1, <2>2 DEF LayoutInOrder
<1>6. FilesInOrder
  BY <1>2 DEF FilesInOrder
<1>7. DeviceInOrder /\ NeverMountedAsTemplate
  BY <1>1, <1>2 DEF DeviceInOrder, NeverMountedAsTemplate, Refreshed, Named
<1> QED
  BY <1>4, <1>5, <1>6, <1>7 DEF IInv

(* Every step keeps what is known of the device ... *)
LEMMA StepDevice ==
  IInv /\ [Next]_vars => TypeOK' /\ DeviceInOrder' /\ NeverMountedAsTemplate'
<1> SUFFICES ASSUME TypeOK, DeviceInOrder, NeverMountedAsTemplate, [Next]_vars
             PROVE  TypeOK' /\ DeviceInOrder' /\ NeverMountedAsTemplate'
  BY DEF IInv
<1> USE DEF TypeOK, DeviceInOrder, NeverMountedAsTemplate, Pcs, UUIDs, Refreshed,
      Named, found, device, files, boot
<1>1. CASE Preflight
  BY <1>1 DEF Preflight
<1>2. CASE Wipe
  BY <1>2 DEF Wipe
<1>3. CASE Survey
  BY <1>3 DEF Survey
<1>4. CASE Inspect
  BY <1>4 DEF Inspect
<1>5. CASE UnmountTree
  BY <1>5 DEF UnmountTree
<1>6. CASE WriteImage
  BY <1>6 DEF WriteImage
<1>7. CASE RefreshUuid
  BY <1>7 DEF RefreshUuid
<1>8. CASE Prepare
  BY <1>8 DEF Prepare
<1>9. CASE CreateSubvolume
  BY <1>9 DEF CreateSubvolume, NextNames, Waiting
<1>10. CASE StageBoot
  BY <1>10 DEF StageBoot, Waiting
<1>11. CASE Remount
  BY <1>11 DEF Remount
<1>12. CASE FillBoot
  BY <1>12 DEF FillBoot
<1>13. CASE Verify
  BY <1>13 DEF Verify
<1>14. CASE WriteCmdline
  BY <1>14 DEF WriteCmdline, Identifier
<1>15. CASE InitializeKeyring
  BY <1>15 DEF InitializeKeyring
<1>16. CASE WriteFstab
  BY <1>16 DEF WriteFstab, Identifier
<1>17. CASE ValidateFilesystems
  BY <1>17 DEF ValidateFilesystems
<1>18. CASE Fails
  BY <1>18 DEF Fails
<1>19. CASE UNCHANGED vars
  BY <1>19 DEF vars
<1> QED
  BY <1>1, <1>2, <1>3, <1>4, <1>5, <1>6, <1>7, <1>8, <1>9, <1>10, <1>11, <1>12, <1>13, <1>14, <1>15, <1>16, <1>17, <1>18, <1>19 DEF Next

(* ... and the layout ... *)
LEMMA StepLayout == IInv /\ [Next]_vars => LayoutInOrder'
<1> SUFFICES ASSUME IInv, [Next]_vars PROVE LayoutInOrder'
  OBVIOUS
<1> DEFINE Before == {"preflight", "wipe", "survey", "failed"}
<1>1. layout' = layout /\ fats' = fats
  BY DEF Next, vars, found, Preflight, Wipe, Survey, Inspect, UnmountTree, WriteImage,
     RefreshUuid, Prepare, CreateSubvolume, StageBoot, Remount, FillBoot, Verify,
     WriteCmdline, InitializeKeyring, WriteFstab, ValidateFilesystems, Fails
<1>2. pc' \in Before \/ pc \notin Before \/ Accepted(layout)
  BY DEF Next, vars, found, Preflight, Wipe, Survey, Inspect, UnmountTree, WriteImage,
     RefreshUuid, Prepare, CreateSubvolume, StageBoot, Remount, FillBoot, Verify,
     WriteCmdline, InitializeKeyring, WriteFstab, ValidateFilesystems, Fails
<1>3. LayoutInOrder /\ (pc' \in Before \/ Accepted(layout))
  BY <1>2 DEF IInv, LayoutInOrder
<1>4. Accepted(layout) => Accepted(layout)'
  BY <1>1
<1>5. IsInjective(layout)' = IsInjective(layout)
  BY <1>1 DEF IsInjective
<1> QED
  BY <1>1, <1>3, <1>4, <1>5 DEF LayoutInOrder

(* What the layout makes of a path does not change with the rest. *)
LEMMA Frame ==
  ASSUME layout' = layout, fats' = fats
  PROVE  /\ \A d : Home(d)' = Home(d) /\ Waits(d)' = Waits(d)
         /\ \A d : ImageDirectory(placed, d)' = ImageDirectory(placed', d)
<1>1. \A d : Home(d)' = Home(d)
  BY DEF Home, ImageDirectory
<1>2. \A d : Waits(d)' = Waits(d)
  BY <1>1 DEF Waits
<1>3. \A d : ImageDirectory(placed, d)' = ImageDirectory(placed', d)
  BY DEF ImageDirectory
<1> QED
  BY <1>1, <1>2, <1>3

(* The strengthening knows that names and mountpoints are paths. *)
LEMMA LayoutTyped ==
  ASSUME TypeOK, LayoutInOrder
  PROVE  Typed(layout) /\ fats \subseteq Path /\ Dirs \subseteq Path /\ layout[At] = <<>>
BY Paths, Joins DEF TypeOK, LayoutInOrder, Typed, Path

(* The four steps that move files. *)

(* monarch-root becomes @: every file is in @ ... *)
LEMMA StepPrepare == IInv /\ Prepare => FilesInOrder'
<1> SUFFICES ASSUME IInv, Prepare PROVE FilesInOrder'
  OBVIOUS
<1>1. /\ pc' = "arrange" /\ placed' = {At} /\ stage' = "clean" /\ esp' = esp
      /\ layout' = layout /\ fats' = fats
      /\ \A d \in Dirs : tree'[d] = Place("btrfs", <<>>, Join(At, d))
  BY DEF Prepare, found, Join
<1>2. /\ Typed(layout) /\ Dirs \subseteq Path /\ layout[At] = <<>> /\ At \in DOMAIN layout
      /\ esp = "clean"
  BY LayoutTyped DEF IInv, TypeOK, FilesInOrder
<1>3. ASSUME NEW d \in Dirs PROVE ImageDirectory(placed', d) = Join(At, d)
  <2> DEFINE M == {At}
  <2>1. M \subseteq DOMAIN layout /\ At \in M /\ d \in Path
    BY <1>2, <1>3
  <2>2. /\ Cover(M, d) \in M /\ Below(M, d) \in Path
        /\ d = Join(layout[Cover(M, d)], Below(M, d))
        /\ ImageDirectory(M, d) = Join(Cover(M, d), Below(M, d))
    <3> HIDE DEF M
    <3> QED
      BY <1>2, <2>1, ImagePlace
  <2>3. Cover(M, d) = At
    BY <2>2
  <2>4. d = Below(M, d)
    BY <1>2, <2>2, <2>3, Joins
  <2> QED
    BY <1>1, <2>2, <2>3, <2>4
<1>4. \A d \in Dirs : tree'[d] = Place("btrfs", <<>>, ImageDirectory(placed, d))'
  <2>1. \A d : ImageDirectory(placed, d)' = ImageDirectory(placed', d)
    BY <1>1, Frame
  <2> QED
    BY <1>1, <1>3, <2>1 DEF Place
<1>5. \A o \in placed', w \in Waiting' : Len(layout'[o]) <= Len(layout'[w])
  <2>1. \A w \in DOMAIN layout : Len(layout[w]) \in Nat
    BY <1>2, Joins DEF Typed
  <2>2. Len(layout[At]) = 0
    BY <1>2
  <2> QED
    BY <1>1, <2>1, <2>2 DEF Waiting
<1> QED
  BY <1>1, <1>2, <1>4, <1>5 DEF FilesInOrder

(* ... each subvolume takes its part ... *)
LEMMA StepCreate == IInv /\ CreateSubvolume => FilesInOrder'
<1> SUFFICES ASSUME IInv, CreateSubvolume PROVE FilesInOrder'
  OBVIOUS
<1>1. PICK n \in NextNames :
        /\ tree' = [d \in Dirs |-> Moved(tree[d], ImageDirectory(placed, layout[n]), n)]
        /\ placed' = placed \cup {n}
  BY DEF CreateSubvolume
<1>2. /\ pc = "arrange" /\ pc' = "arrange" /\ stage' = stage /\ esp' = esp
      /\ layout' = layout /\ fats' = fats
  BY DEF CreateSubvolume, found
<1>3. /\ Typed(layout) /\ Dirs \subseteq Path /\ Accepted(layout) /\ placed \subseteq DOMAIN layout
      /\ esp = "clean" /\ stage = "clean" /\ At \in placed
      /\ \A o \in placed, w \in Waiting : Len(layout[o]) <= Len(layout[w])
      /\ \A d \in Dirs : tree[d] = Place("btrfs", <<>>, ImageDirectory(placed, d))
  BY <1>2, LayoutTyped DEF IInv, TypeOK, FilesInOrder, LayoutInOrder
<1>4. n \in Waiting /\ n \in DOMAIN layout /\ n \notin placed
      /\ \A o \in Waiting : \/ Len(layout[n]) < Len(layout[o])
                           \/ Len(layout[n]) = Len(layout[o])
  BY DEF NextNames, Waiting
<1>5. \A d \in Dirs : tree'[d] = Place("btrfs", <<>>, ImageDirectory(placed', d))
  <2> SUFFICES ASSUME NEW d \in Dirs
               PROVE  tree'[d] = Place("btrfs", <<>>, ImageDirectory(placed', d))
    OBVIOUS
  <2>1. tree'[d] = Moved(Place("btrfs", <<>>, ImageDirectory(placed, d)),
                         ImageDirectory(placed, layout[n]), n)
    BY <1>1, <1>3
  <2>2. d \in Path
    BY <1>3
  <2> QED
    BY <1>1, <1>3, <1>4, <2>1, <2>2, Filled
<1>6. \A d \in Dirs : tree'[d] = Place("btrfs", <<>>, ImageDirectory(placed, d))'
  <2>1. \A d : ImageDirectory(placed, d)' = ImageDirectory(placed', d)
    BY <1>2, Frame
  <2> QED
    BY <1>5, <2>1 DEF Place
<1>7. \A o \in placed', w \in Waiting' : Len(layout'[o]) <= Len(layout'[w])
  <2>1. \A w \in DOMAIN layout : Len(layout[w]) \in Nat
    BY <1>3, Joins DEF Typed
  <2>2. ASSUME NEW w \in Waiting' PROVE w \in Waiting /\ w \in DOMAIN layout
    BY <1>1, <1>2 DEF Waiting
  <2>3. ASSUME NEW w \in Waiting' PROVE Len(layout[n]) <= Len(layout[w])
    BY <1>4, <2>1, <2>2
  <2> QED
    BY <1>1, <1>2, <1>3, <2>2, <2>3
<1> QED
  BY <1>1, <1>2, <1>3, <1>6, <1>7 DEF FilesInOrder

(* ... each FAT mount takes its own ... *)
LEMMA StepStage == IInv /\ StageBoot => FilesInOrder'
<1> SUFFICES ASSUME IInv, StageBoot PROVE FilesInOrder'
  OBVIOUS
<1>1. /\ pc = "arrange" /\ pc' = "remount" /\ stage' = stage /\ esp' = esp
      /\ layout' = layout /\ fats' = fats /\ Waiting = {}
  BY DEF StageBoot, found
<1>2. /\ Typed(layout) /\ fats \subseteq Path /\ Dirs \subseteq Path /\ Accepted(layout)
      /\ placed \subseteq DOMAIN layout /\ esp = "clean" /\ stage = "clean"
      /\ \A d \in Dirs : tree[d] = Place("btrfs", <<>>, ImageDirectory(placed, d))
      /\ \A n \in DOMAIN layout : layout[n] \notin fats
  BY <1>1, LayoutTyped DEF IInv, TypeOK, FilesInOrder, LayoutInOrder
<1>3. placed = DOMAIN layout
  BY <1>1, <1>2 DEF Waiting
<1>4. Settled
  BY <1>2, <1>3 DEF Settled
<1>5. ASSUME NEW d \in Dirs PROVE tree'[d] = Waits(d)
  <2>1. tree[d] = Arranged(d)
    BY <1>2, <1>3 DEF Arranged
  <2>2. tree' = [e \in Dirs |-> Staging(tree[e])]
    BY DEF StageBoot, Staging
  <2>3. tree'[d] = Staging(Arranged(d))
    BY <2>1, <2>2
  <2>4. d \in Path
    BY <1>2
  <2> QED
    BY <1>4, <2>3, <2>4, Staged
<1>6. \A d \in Dirs : tree'[d] = Waits(d)'
  BY <1>1, <1>5, Frame
<1> QED
  BY <1>1, <1>2, <1>6 DEF FilesInOrder

(* ... and gets it back. *)
LEMMA StepFill == IInv /\ FillBoot => FilesInOrder'
<1> SUFFICES ASSUME IInv, FillBoot PROVE FilesInOrder'
  OBVIOUS
<1>1. /\ pc = "fill" /\ pc' = "verify" /\ layout' = layout /\ fats' = fats
      /\ \A d \in Dirs : tree'[d] = IF tree[d].on = "stage" THEN [tree[d] EXCEPT !.on = "fat"]
                                     ELSE tree[d]
      /\ esp' = IF fats # {} THEN stage ELSE esp
  BY DEF FillBoot, found
<1>2. esp = "clean" /\ stage = "clean" /\ \A d \in Dirs : tree[d] = Waits(d)
  BY <1>1 DEF IInv, FilesInOrder
<1>3. ASSUME NEW d \in Dirs PROVE tree'[d] = Home(d)
  <2>1. \E fs, at : Home(d) = Place("btrfs", fs, at) \/ Home(d) = Place("fat", fs, at)
    BY DEF Home
  <2>2. PICK fs, at : Home(d) = Place("btrfs", fs, at) \/ Home(d) = Place("fat", fs, at)
    BY <2>1
  <2>3. CASE Home(d) = Place("btrfs", fs, at)
    <3>1. Waits(d) = Home(d) /\ Waits(d).on = "btrfs"
      BY <2>3 DEF Waits, Place
    <3> QED
      BY <1>1, <1>2, <3>1
  <2>4. CASE Home(d) = Place("fat", fs, at)
    <3>1. Waits(d) = Place("stage", fs, at)
      BY <2>4 DEF Waits, Place
    <3>2. tree'[d] = [Place("stage", fs, at) EXCEPT !.on = "fat"]
      BY <1>1, <1>2, <3>1 DEF Place
    <3> QED
      BY <2>4, <3>2 DEF Place
  <2> QED
    BY <2>2, <2>3, <2>4
<1>4. \A d \in Dirs : tree'[d] = Home(d)'
  BY <1>1, <1>3, Frame
<1> QED
  BY <1>1, <1>2, <1>4 DEF FilesInOrder

(* ... and where the files are. *)
LEMMA StepFiles == IInv /\ [Next]_vars => FilesInOrder'
<1> SUFFICES ASSUME IInv, [Next]_vars PROVE FilesInOrder'
  OBVIOUS
<1>1. CASE Prepare
  BY <1>1, StepPrepare
<1>2. CASE CreateSubvolume
  BY <1>2, StepCreate
<1>3. CASE StageBoot
  BY <1>3, StepStage
<1>4. CASE FillBoot
  BY <1>4, StepFill
<1>5. CASE Remount \/ Verify
  <2>1. /\ layout' = layout /\ fats' = fats /\ tree' = tree /\ esp' = esp /\ stage' = stage
        /\ \/ pc = "remount" /\ pc' = "fill"
           \/ pc = "verify" /\ pc' = "done"
    BY <1>5 DEF Remount, Verify, found, files
  <2>2. FilesInOrder
    BY DEF IInv
  <2> QED
    BY <2>1, <2>2, Frame DEF FilesInOrder
<1>6. CASE \/ Preflight \/ Wipe \/ Survey \/ Inspect \/ UnmountTree \/ WriteImage \/ RefreshUuid
           \/ WriteCmdline \/ InitializeKeyring \/ WriteFstab \/ ValidateFilesystems \/ Fails
  <2>1. esp' = esp /\ pc' \notin {"arrange", "remount", "fill", "verify", "done"}
    BY <1>6 DEF Preflight, Wipe, Survey, Inspect, UnmountTree, WriteImage, RefreshUuid,
       WriteCmdline, InitializeKeyring, WriteFstab, ValidateFilesystems, Fails, files
  <2> QED
    BY <2>1 DEF IInv, FilesInOrder
<1>7. CASE UNCHANGED vars
  <2>1. /\ layout' = layout /\ fats' = fats /\ tree' = tree /\ esp' = esp /\ stage' = stage
        /\ pc' = pc /\ placed' = placed
    BY <1>7 DEF vars, found, files
  <2>2. FilesInOrder
    BY DEF IInv
  <2>3. Waiting' = Waiting
    BY <2>1 DEF Waiting
  <2>4. \A d : Place("btrfs", <<>>, ImageDirectory(placed, d))'
               = Place("btrfs", <<>>, ImageDirectory(placed, d))
    BY <2>1, Frame DEF Place
  <2> QED
    BY <2>1, <2>2, <2>3, <2>4, Frame DEF FilesInOrder
<1> QED
  BY <1>1, <1>2, <1>3, <1>4, <1>5, <1>6, <1>7 DEF Next

(* Every step keeps the strengthening. *)
LEMMA StepIInv == IInv /\ [Next]_vars => IInv'
<1>1. TypeOK' /\ DeviceInOrder' /\ NeverMountedAsTemplate' /\ LayoutInOrder' /\ FilesInOrder'
      => IInv'
  BY DEF IInv
<1> QED
  BY <1>1, StepDevice, StepLayout, StepFiles

(* The strengthening is an invariant. *)
THEOREM IInvInvariant == Spec => []IInv
  BY InitIInv, StepIInv, PTL DEF Spec

(* The variables keep their types. *)
THEOREM TypeCorrect == Spec => []TypeOK
<1>1. IInv => TypeOK
  BY DEF IInv
<1> QED
  BY IInvInvariant, <1>1, PTL

(* A root is only mounted with its own UUID. *)
THEOREM MountedAsItself == Spec => []NeverMountedAsTemplate
<1>1. IInv => NeverMountedAsTemplate
  BY DEF IInv
<1> QED
  BY IInvInvariant, <1>1, PTL

(* A finished deployment has lost no file of the image: each lies where the    *)
(* filesystem mounted deepest over its directory will show it.                 *)
THEOREM FilesAtHome == Spec => []NothingLost
<1>1. IInv => NothingLost
  BY DEF IInv, FilesInOrder, NothingLost
<1> QED
  BY IInvInvariant, <1>1, PTL

(* The boot files name the UUID that the root has. *)
THEOREM RootNamed == Spec => []NamesTheRoot
<1>1. IInv => NamesTheRoot
  BY DEF IInv, DeviceInOrder, NamesTheRoot, Refreshed, Named
<1> QED
  BY IInvInvariant, <1>1, PTL

(* Only a disk with an acceptable layout is wiped, and only an empty,          *)
(* unmounted, single and large enough filesystem is written over.              *)
THEOREM OnlyDisposable == Spec => WritesOnlyDisposable
<1> DEFINE Disposable ==
      IF dev' = "skeleton" THEN ~disk.protected /\ Accepted(layout)
      ELSE /\ dev = "skeleton" /\ disk.single /\ disk.fits
           /\ mounted = {}
<1>1. IInv /\ [Next]_vars => [dev' # dev => Disposable]_vars
  <2> SUFFICES ASSUME IInv, Next, dev' # dev PROVE Disposable
    OBVIOUS
  <2>1. CASE Wipe
    BY <2>1 DEF Wipe, IInv, DeviceInOrder
  <2>2. CASE WriteImage
    BY <2>2 DEF WriteImage, IInv, DeviceInOrder
  <2>3. CASE ~Wipe /\ ~WriteImage
    BY <2>3 DEF Next, device, Preflight, Survey, Inspect, UnmountTree, RefreshUuid,
       Prepare, CreateSubvolume, StageBoot, Remount, FillBoot, Verify, WriteCmdline,
       InitializeKeyring, WriteFstab, ValidateFilesystems, Fails
  <2> QED
    BY <2>1, <2>2, <2>3
<1> QED
  BY IInvInvariant, <1>1, PTL DEF Spec, WritesOnlyDisposable
=============================================================================
