--------------------------- MODULE ReleasesProofs ---------------------------
(***************************************************************************)
(* The order of releases: __lt__ of release.py compares lists of strings,  *)
(* so that it is an order although it is not that of the numbers.          *)
(***************************************************************************)
EXTENDS Releases, NaturalsInduction, WellFoundedInduction, TLAPS

Strings == Seq(Nat)
Lists == Seq(Strings)
Releases == [openstack : Nat, major : Lists, labelled : BOOLEAN, sub : Lists]

\* What there is to know of a list.
LEMMA ListFacts ==
  ASSUME NEW S, NEW a \in Seq(S)
  PROVE  Len(a) \in Nat /\ DOMAIN a = 1 .. Len(a) /\ \A i \in 1 .. Len(a) : a[i] \in S
OBVIOUS

-----------------------------------------------------------------------------
(* Strings.                                                                *)

\* No string comes before itself.
LEMMA StringIrreflexive == ASSUME NEW a \in Strings PROVE ~StringLess(a, a)
BY DEF Strings, StringLess

\* What comes before b comes before all that b comes before.
LEMMA StringTransitive ==
  ASSUME NEW a \in Strings, NEW b \in Strings, NEW c \in Strings,
         StringLess(a, b), StringLess(b, c)
  PROVE  StringLess(a, c)
<1>1. PICK i \in DOMAIN b : /\ i - 1 <= Len(a) /\ \A j \in 1 .. i - 1 : a[j] = b[j]
                            /\ i > Len(a) \/ a[i] < b[i]
  BY DEF StringLess
<1>2. PICK k \in DOMAIN c : /\ k - 1 <= Len(b) /\ \A j \in 1 .. k - 1 : b[j] = c[j]
                            /\ k > Len(b) \/ b[k] < c[k]
  BY DEF StringLess
<1>3. /\ Len(a) \in Nat /\ Len(b) \in Nat /\ Len(c) \in Nat
      /\ DOMAIN a = 1 .. Len(a) /\ DOMAIN b = 1 .. Len(b) /\ DOMAIN c = 1 .. Len(c)
      /\ \A x \in 1 .. Len(a) : a[x] \in Nat
      /\ \A x \in 1 .. Len(b) : b[x] \in Nat
      /\ \A x \in 1 .. Len(c) : c[x] \in Nat
  BY ListFacts DEF Strings
<1>4. CASE i < k
  <2>1. i \in DOMAIN c /\ b[i] = c[i] /\ \A j \in 1 .. i - 1 : a[j] = c[j]
    BY <1>1, <1>2, <1>3, <1>4
  <2> QED
    BY <1>1, <2>1 DEF StringLess
<1>5. CASE i >= k
  <2>1. \A j \in 1 .. k - 1 : a[j] = c[j]
    BY <1>1, <1>2, <1>3, <1>5
  <2>2. k - 1 <= Len(a) /\ b[k] < c[k] /\ k \in 1 .. Len(b)
    BY <1>1, <1>2, <1>3, <1>5
  <2>3. k > Len(a) \/ a[k] < c[k]
    <3>1. CASE k = i
      BY <1>1, <1>3, <2>2, <3>1
    <3>2. CASE k < i
      <4>1. a[k] = b[k]
        BY <1>1, <1>3, <3>2
      <4> QED
        BY <2>2, <4>1
    <3> QED
      BY <1>3, <1>5, <3>1, <3>2
  <2> QED
    BY <2>1, <2>2, <2>3 DEF StringLess
<1> QED
  BY <1>3, <1>4, <1>5

\* Two intervals from 1 are equal only if they end at the same number.
LEMMA SameLength ==
  ASSUME NEW k \in Nat, NEW n \in Nat, (1 .. k) = (1 .. n) PROVE k = n
<1>1. \A i \in Int : 1 <= i /\ i <= k <=> 1 <= i /\ i <= n
  <2>1. \A i : i \in 1 .. k <=> i \in 1 .. n
    OBVIOUS
  <2> QED
    BY <2>1
<1> QED
  BY <1>1

\* Two strings that differ have a first place where they do.
LEMMA FirstDifference ==
  ASSUME NEW S, NEW a \in Seq(S), NEW b \in Seq(S), a # b
  PROVE  \E i \in (DOMAIN a) \union (DOMAIN b) :
           /\ \A j \in 1 .. i - 1 : j \in DOMAIN a /\ j \in DOMAIN b /\ a[j] = b[j]
           /\ ~(i \in DOMAIN a /\ i \in DOMAIN b /\ a[i] = b[i])
<1> DEFINE Same(i) == i \in DOMAIN a /\ i \in DOMAIN b /\ a[i] = b[i]
           D == {i \in (DOMAIN a) \union (DOMAIN b) : ~Same(i)}
<1>1. /\ Len(a) \in Nat /\ Len(b) \in Nat
      /\ DOMAIN a = 1 .. Len(a) /\ DOMAIN b = 1 .. Len(b)
  OBVIOUS
<1>2. D # {}
  <2>1. SUFFICES ASSUME D = {} PROVE FALSE
    OBVIOUS
  <2>2. \A i \in (DOMAIN a) \union (DOMAIN b) : Same(i)
    BY <2>1
  <2>3. Len(a) = Len(b)
    <3>1. (1 .. Len(a)) = (1 .. Len(b))
      BY <1>1, <2>2
    <3> QED
      BY <1>1, <3>1, SameLength
  <2> QED
    BY <2>2, <2>3
<1>3. D \subseteq Nat
  BY <1>1
<1>4. PICK i \in D : \A j \in D : ~(j < i)
  <2> HIDE DEF D
  <2>1. PICK i \in D : \A j \in D : <<j, i>> \notin OpToRel(<, Nat)
    BY <1>2, <1>3, NatLessThanWellFounded, WFMin
  <2> QED
    BY <1>3, <2>1 DEF OpToRel
<1>5. \A j \in 1 .. i - 1 : Same(j)
  BY <1>1, <1>3, <1>4
<1> QED
  BY <1>4, <1>5

\* Of two strings that differ one comes before the other.
LEMMA StringTotal ==
  ASSUME NEW a \in Strings, NEW b \in Strings, a # b
  PROVE  StringLess(a, b) \/ StringLess(b, a)
<1>1. PICK i \in (DOMAIN a) \union (DOMAIN b) :
           /\ \A j \in 1 .. i - 1 : j \in DOMAIN a /\ j \in DOMAIN b /\ a[j] = b[j]
           /\ ~(i \in DOMAIN a /\ i \in DOMAIN b /\ a[i] = b[i])
  BY FirstDifference DEF Strings
<1>2. /\ Len(a) \in Nat /\ Len(b) \in Nat
      /\ DOMAIN a = 1 .. Len(a) /\ DOMAIN b = 1 .. Len(b)
      /\ \A x \in 1 .. Len(a) : a[x] \in Nat
      /\ \A x \in 1 .. Len(b) : b[x] \in Nat
  BY ListFacts DEF Strings
<1>3. i - 1 <= Len(a) /\ i - 1 <= Len(b) /\ i \in Nat
  BY <1>1, <1>2
<1>4. CASE i \notin DOMAIN a
  BY <1>1, <1>2, <1>3, <1>4 DEF StringLess
<1>5. CASE i \notin DOMAIN b
  BY <1>1, <1>2, <1>3, <1>5 DEF StringLess
<1>6. CASE i \in DOMAIN a /\ i \in DOMAIN b
  <2>1. a[i] < b[i] \/ b[i] < a[i]
    BY <1>1, <1>2, <1>6
  <2> QED
    BY <1>1, <1>2, <1>3, <1>6, <2>1 DEF StringLess
<1> QED
  BY <1>4, <1>5, <1>6

-----------------------------------------------------------------------------
(* Lists of strings: the same with StringLess for <.                       *)

\* No list comes before itself.
LEMMA ListIrreflexive == ASSUME NEW a \in Lists PROVE ~ListLess(a, a)
<1>1. Len(a) \in Nat /\ DOMAIN a = 1 .. Len(a) /\ \A i \in 1 .. Len(a) : a[i] \in Strings
  BY ListFacts DEF Lists
<1> QED
  BY <1>1, StringIrreflexive DEF ListLess

\* What comes before b comes before all that b comes before.
LEMMA ListTransitive ==
  ASSUME NEW a \in Lists, NEW b \in Lists, NEW c \in Lists,
         ListLess(a, b), ListLess(b, c)
  PROVE  ListLess(a, c)
<1>1. PICK i \in DOMAIN b : /\ i - 1 <= Len(a) /\ \A j \in 1 .. i - 1 : a[j] = b[j]
                            /\ i > Len(a) \/ StringLess(a[i], b[i])
  BY DEF ListLess
<1>2. PICK k \in DOMAIN c : /\ k - 1 <= Len(b) /\ \A j \in 1 .. k - 1 : b[j] = c[j]
                            /\ k > Len(b) \/ StringLess(b[k], c[k])
  BY DEF ListLess
<1>3. /\ Len(a) \in Nat /\ Len(b) \in Nat /\ Len(c) \in Nat
      /\ DOMAIN a = 1 .. Len(a) /\ DOMAIN b = 1 .. Len(b) /\ DOMAIN c = 1 .. Len(c)
      /\ \A x \in 1 .. Len(a) : a[x] \in Strings
      /\ \A x \in 1 .. Len(b) : b[x] \in Strings
      /\ \A x \in 1 .. Len(c) : c[x] \in Strings
  BY ListFacts DEF Lists
<1>4. CASE i < k
  <2>1. i \in DOMAIN c /\ b[i] = c[i] /\ \A j \in 1 .. i - 1 : a[j] = c[j]
    BY <1>1, <1>2, <1>3, <1>4
  <2> QED
    BY <1>1, <2>1 DEF ListLess
<1>5. CASE i >= k
  <2>1. \A j \in 1 .. k - 1 : a[j] = c[j]
    BY <1>1, <1>2, <1>3, <1>5
  <2>2. k - 1 <= Len(a) /\ StringLess(b[k], c[k]) /\ k \in 1 .. Len(b)
    BY <1>1, <1>2, <1>3, <1>5
  <2>3. k > Len(a) \/ StringLess(a[k], c[k])
    <3>1. CASE k = i
      <4>1. k <= Len(a) => a[k] \in Strings /\ b[k] \in Strings /\ c[k] \in Strings
        BY <1>2, <1>3, <2>2
      <4> QED
        BY <1>1, <1>3, <2>2, <3>1, <4>1, StringTransitive
    <3>2. CASE k < i
      <4>1. a[k] = b[k]
        BY <1>1, <1>3, <1>2, <3>2
      <4> QED
        BY <2>2, <4>1
    <3> QED
      BY <1>3, <1>5, <3>1, <3>2
  <2> QED
    BY <2>1, <2>2, <2>3 DEF ListLess
<1> QED
  BY <1>3, <1>4, <1>5

\* Of two lists that differ one comes before the other.
LEMMA ListTotal ==
  ASSUME NEW a \in Lists, NEW b \in Lists, a # b
  PROVE  ListLess(a, b) \/ ListLess(b, a)
<1>1. PICK i \in (DOMAIN a) \union (DOMAIN b) :
           /\ \A j \in 1 .. i - 1 : j \in DOMAIN a /\ j \in DOMAIN b /\ a[j] = b[j]
           /\ ~(i \in DOMAIN a /\ i \in DOMAIN b /\ a[i] = b[i])
  BY FirstDifference DEF Lists
<1>2. /\ Len(a) \in Nat /\ Len(b) \in Nat
      /\ DOMAIN a = 1 .. Len(a) /\ DOMAIN b = 1 .. Len(b)
      /\ \A x \in 1 .. Len(a) : a[x] \in Strings
      /\ \A x \in 1 .. Len(b) : b[x] \in Strings
  BY ListFacts DEF Lists
<1>3. i - 1 <= Len(a) /\ i - 1 <= Len(b) /\ i \in Nat
  BY <1>1, <1>2
<1>4. CASE i \notin DOMAIN a
  BY <1>1, <1>2, <1>3, <1>4 DEF ListLess
<1>5. CASE i \notin DOMAIN b
  BY <1>1, <1>2, <1>3, <1>5 DEF ListLess
<1>6. CASE i \in DOMAIN a /\ i \in DOMAIN b
  <2>1. StringLess(a[i], b[i]) \/ StringLess(b[i], a[i])
    BY <1>1, <1>2, <1>6, StringTotal
  <2> QED
    BY <1>1, <1>2, <1>3, <1>6, <2>1 DEF ListLess
<1> QED
  BY <1>4, <1>5, <1>6

-----------------------------------------------------------------------------
(* Releases.                                                               *)

\* No release is before itself: from_nuage is true of the release asked for,
\* and so is beyond_nuage.
THEOREM LtIrreflexive ==
  ASSUME NEW a \in Releases PROVE ~Lt(a, a) /\ Ge(a, a) /\ Gt(a, a)
BY DEF Lt, Ge, Gt, Releases

\* before_nuage goes along with the order of the lists: where a class is
\* skipped before b it is skipped before all that comes after b.  Master, the
\* newest, is no exception as long as it has no sub release of its own.
THEOREM LtTransitive ==
  ASSUME NEW a \in Releases, NEW b \in Releases, NEW c \in Releases,
         \A r, q \in {a, b, c} : r.major = Newest /\ q.major = Newest => r.sub = q.sub,
         Lt(a, b), Lt(b, c)
  PROVE  Lt(a, c)
<1>1. /\ a.major \in Lists /\ b.major \in Lists /\ c.major \in Lists
      /\ a.sub \in Lists /\ b.sub \in Lists /\ c.sub \in Lists
      /\ a.openstack \in Nat /\ b.openstack \in Nat /\ c.openstack \in Nat
  BY DEF Releases
<1>2. /\ ListLess(a.major, b.major) /\ ListLess(b.major, c.major) => ListLess(a.major, c.major)
      /\ ListLess(a.sub, b.sub) /\ ListLess(b.sub, c.sub) => ListLess(a.sub, c.sub)
      /\ ListLess(a.major, b.major) => ~ListLess(b.major, a.major)
      /\ ListLess(a.sub, b.sub) => ~ListLess(b.sub, a.sub)
  BY <1>1, ListTransitive, ListIrreflexive
<1>3. CASE a.major = b.major /\ a.sub = b.sub
  BY <1>1, <1>3 DEF Lt
<1>4. CASE b.major = c.major /\ b.sub = c.sub
  BY <1>1, <1>4 DEF Lt
<1>5. CASE ~(a.major = b.major /\ a.sub = b.sub) /\ ~(b.major = c.major /\ b.sub = c.sub)
  <2>1. /\ ~(a.major = Newest /\ b.major # Newest)
        /\ \/ b.major = Newest \/ ListLess(a.major, b.major)
           \/ a.major = b.major /\ ListLess(a.sub, b.sub)
    BY <1>5 DEF Lt
  <2>2. /\ ~(b.major = Newest /\ c.major # Newest)
        /\ \/ c.major = Newest \/ ListLess(b.major, c.major)
           \/ b.major = c.major /\ ListLess(b.sub, c.sub)
    BY <1>5 DEF Lt
  <2>3. b.major # Newest /\ a.major # Newest
    BY <1>5, <2>1, <2>2
  <2>4. ~(a.major = c.major /\ a.sub = c.sub)
    BY <1>2, <2>1, <2>2, <2>3
  <2>5. \/ c.major = Newest \/ ListLess(a.major, c.major)
        \/ a.major = c.major /\ ListLess(a.sub, c.sub)
    BY <1>2, <2>1, <2>2, <2>3
  <2> QED
    BY <2>3, <2>4, <2>5 DEF Lt
<1> QED
  BY <1>3, <1>4, <1>5

\* Two releases with other numbers are never both before, or both not before,
\* each other: from_nuage(r) and before_nuage(r) split the releases at r.
THEOREM LtTotal ==
  ASSUME NEW a \in Releases, NEW b \in Releases,
         a.major # b.major \/ (a.sub # b.sub /\ a.major # Newest)
  PROVE  Lt(a, b) <=> ~Lt(b, a)
<1>1. /\ a.major \in Lists /\ b.major \in Lists /\ a.sub \in Lists /\ b.sub \in Lists
  BY DEF Releases
<1>2. /\ ~(ListLess(a.major, b.major) /\ ListLess(b.major, a.major))
      /\ ~(ListLess(a.sub, b.sub) /\ ListLess(b.sub, a.sub))
  BY <1>1, ListTransitive, ListIrreflexive
<1>3. /\ a.major # b.major => ListLess(a.major, b.major) \/ ListLess(b.major, a.major)
      /\ a.sub # b.sub => ListLess(a.sub, b.sub) \/ ListLess(b.sub, a.sub)
  BY <1>1, ListTotal
<1>4. CASE a.major = b.major
  BY <1>1, <1>2, <1>3, <1>4, ListIrreflexive DEF Lt
<1>5. CASE a.major # b.major
  BY <1>2, <1>3, <1>5 DEF Lt
<1> QED
  BY <1>4, <1>5

\* Two releases 0.0 with other sub releases are each before the other: the
\* hypotheses on Newest above cannot be dropped.
THEOREM NewestIsAmbiguous ==
  ASSUME NEW a \in Releases, NEW b \in Releases,
         a.major = Newest, b.major = Newest, a.sub # b.sub
  PROVE  Lt(a, b) /\ Lt(b, a)
BY DEF Lt

\* Strings, not numbers: 20.5 is before 5.4.
THEOREM TwentyBeforeFive ==
  Lt(Nuage(<< <<2, 0>>, <<5>> >>, << <<>> >>), Nuage(<< <<5>>, <<4>> >>, << <<>> >>))
<1> DEFINE a == << <<2, 0>>, <<5>> >>
           b == << <<5>>, <<4>> >>
<1>1. Len(a) = 2 /\ a[1] = <<2, 0>> /\ DOMAIN b = 1 .. 2 /\ b[1] = <<5>>
  OBVIOUS
<1>2. StringLess(<<2, 0>>, <<5>>)
  BY DEF StringLess
<1>3. ListLess(a, b)
  <2> HIDE DEF a, b
  <2>1. 1 \in DOMAIN b /\ 1 - 1 <= Len(a) /\ \A j \in 1 .. 1 - 1 : a[j] = b[j]
    BY <1>1
  <2> QED
    BY <1>1, <1>2, <2>1 DEF ListLess
<1>4. /\ Nuage(a, << <<>> >>).major = a /\ Nuage(b, << <<>> >>).major = b
  BY DEF Nuage, Release
<1>5. a # b /\ a # Newest
  <2>1. a[1][1] = 2 /\ b[1][1] = 5 /\ Newest[1][1] = 0
    BY DEF Newest
  <2> QED
    BY <2>1
<1> DEFINE A == Nuage(a, << <<>> >>)
           B == Nuage(b, << <<>> >>)
<1>6. SUFFICES Lt(A, B)
  OBVIOUS
<1> HIDE DEF a, b, A, B
<1>7. Newest # a /\ A.major = a /\ B.major = b
  BY <1>4, <1>5 DEF A, B
<1> QED
  BY <1>3, <1>5, <1>7 DEF Lt
=============================================================================
