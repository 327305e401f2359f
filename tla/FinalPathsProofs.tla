-------------------------- MODULE FinalPathsProofs -------------------------
(***************************************************************************)
(* TypeOK, Kept and FailsForCause of FinalPaths, for any transfers and     *)
(* sources, any functions on the words of names, any number of retries and *)
(* of files of other programs.                                             *)
(*                                                                         *)
(* None of them is inductive.  Kept needs that what finalize_incoming has  *)
(* dealt with is on the disk (PlacedInv) and that a name is never renamed  *)
(* to when it was seen (SeenInv).  FailsForCause needs where the names     *)
(* come from: what a transfer itself has put under the roots of its        *)
(* present attempt are items of this attempt (OwnInv), and two items have  *)
(* one path only when they are in one folder (SameKey).                    *)
(***************************************************************************)
EXTENDS FinalPaths, FiniteSetTheorems, WellFoundedInduction, TLAPS

-----------------------------------------------------------------------------
(* Names.                                                                  *)

Names == {n \in Seq(Words \cup Nat) : n # <<>> /\ n[1] \in Words}

(* A function on words, applied to all of them.                            *)
OnWords == [Words -> Words]

LEMMA Functions4 == Safe \in OnWords /\ Lower \in OnWords /\ Clean \in OnWords /\ Fold \in OnWords
BY FinalPathsAssumption DEF OnWords

LEMMA IsNameNames ==
    ASSUME NEW n, IsName(n)
    PROVE  n \in Names
<1>1. n[1] \in Words /\ Tail(n) \in Seq(Nat) /\ n = <<n[1]>> \o Tail(n)
  BY DEF IsName
<1> DEFINE w == n[1]
           s == Tail(n)
<1>2. w \in Words /\ s \in Seq(Nat) /\ n = <<w>> \o s
  BY <1>1
<1> HIDE DEF w, s
<1>3. <<w>> \in Seq(Words \cup Nat) /\ s \in Seq(Words \cup Nat)
  <2>1. <<w>> \in Seq(Words \cup Nat)
    BY <1>2
  <2>2. Len(s) \in Nat /\ s \in [1..Len(s) -> Words \cup Nat]
    BY <1>2
  <2> QED BY <2>1, <2>2
<1>4. <<w>> \o s \in Seq(Words \cup Nat) /\ Len(<<w>> \o s) = 1 + Len(s) /\ (<<w>> \o s)[1] = w
  BY <1>3
<1>5. Len(s) \in Nat
  BY <1>3
<1>6. n \in Seq(Words \cup Nat) /\ Len(n) # 0 /\ n[1] = w
  BY <1>2, <1>4, <1>5
<1> QED BY <1>2, <1>6 DEF Names

(* A function on words changes the word and keeps the numbers.             *)
LEMMA NamedFacts ==
    ASSUME NEW f \in OnWords, NEW n \in Names
    PROVE  /\ Named(f, n) \in Names
           /\ Len(Named(f, n)) = Len(n) /\ Len(n) \in Nat /\ Len(n) > 0
           /\ Named(f, n)[1] = f[n[1]]
           /\ \A k \in 2..Len(n) : Named(f, n)[k] = n[k]
<1>1. n \in Seq(Words \cup Nat) /\ n # <<>> /\ n[1] \in Words
  BY DEF Names
<1>2. Len(n) \in Nat /\ Len(n) > 0 /\ 1 \in DOMAIN n /\ DOMAIN n = 1..Len(n)
  BY <1>1
<1>3. f[n[1]] \in Words
  BY <1>1 DEF OnWords
<1>4. Named(f, n) = [n EXCEPT ![1] = f[n[1]]]
  BY DEF Named
<1>5. [n EXCEPT ![1] = f[n[1]]] \in Seq(Words \cup Nat)
  BY <1>1, <1>3
<1>6. Len([n EXCEPT ![1] = f[n[1]]]) = Len(n) /\ [n EXCEPT ![1] = f[n[1]]][1] = f[n[1]]
  BY <1>1, <1>2
<1>7. \A k \in 2..Len(n) : [n EXCEPT ![1] = f[n[1]]][k] = n[k]
  BY <1>1, <1>2
<1>8. Named(f, n) # <<>>
  BY <1>2, <1>4, <1>6
<1> QED BY <1>1, <1>2, <1>3, <1>4, <1>5, <1>6, <1>7, <1>8 DEF Names

(* Two names are one when their words and their numbers are.               *)
LEMMA NamesEqual ==
    ASSUME NEW m \in Names, NEW n \in Names, Len(m) = Len(n), m[1] = n[1],
           \A k \in 2..Len(n) : m[k] = n[k]
    PROVE  m = n
<1>1. m \in Seq(Words \cup Nat) /\ n \in Seq(Words \cup Nat)
  BY DEF Names
<1>2. \A k \in 1..Len(n) : m[k] = n[k]
  <2>1. ASSUME NEW k \in 1..Len(n) PROVE k = 1 \/ k \in 2..Len(n)
    BY <1>1
  <2> QED BY <2>1
<1> QED BY <1>1, <1>2

LEMMA NamedTwice ==
    ASSUME NEW f \in OnWords, NEW g \in OnWords, NEW n \in Names
    PROVE  LET h == [w \in Words |-> g[f[w]]] IN
           h \in OnWords /\ Named(g, Named(f, n)) = Named(h, n)
<1> DEFINE h == [w \in Words |-> g[f[w]]]
<1>1. h \in OnWords
  BY DEF OnWords
<1>2. n[1] \in Words /\ h[n[1]] = g[f[n[1]]]
  BY DEF Names
<1> HIDE DEF h
<1> DEFINE a == Named(f, n)
           b == Named(g, a)
           c == Named(h, n)
<1>3. a \in Names /\ Len(a) = Len(n) /\ a[1] = f[n[1]] /\ \A k \in 2..Len(n) : a[k] = n[k]
  BY NamedFacts
<1>4. c \in Names /\ Len(c) = Len(n) /\ c[1] = h[n[1]] /\ \A k \in 2..Len(n) : c[k] = n[k]
  BY <1>1, NamedFacts
<1> HIDE DEF a
<1>5. b \in Names /\ Len(b) = Len(a) /\ b[1] = g[a[1]] /\ \A k \in 2..Len(a) : b[k] = a[k]
  BY <1>3, NamedFacts
<1> HIDE DEF b, c
<1>6. b = c
  <2>1. Len(b) = Len(c) /\ b[1] = c[1]
    BY <1>2, <1>3, <1>4, <1>5
  <2>2. \A k \in 2..Len(c) : b[k] = c[k]
    BY <1>3, <1>4, <1>5
  <2> QED BY <1>4, <1>5, <2>1, <2>2, NamesEqual
<1> QED BY <1>1, <1>6 DEF a, b, c, h


(* Numbers: with another number it is another name, and the numbers stay.  *)
LEMMA SuffixedFacts ==
    ASSUME NEW n \in Names, NEW i \in Nat
    PROVE  /\ Suffixed(n, i) \in Names
           /\ \A f \in OnWords : Named(f, Suffixed(n, i)) = Suffixed(Named(f, n), i)
<1>1. n \in Seq(Words \cup Nat) /\ n # <<>> /\ n[1] \in Words
  BY DEF Names
<1>2. CASE i = 0
  BY <1>2 DEF Suffixed
<1>3. CASE i # 0
  <2> DEFINE a == Append(n, i)
  <2>1. /\ a \in Seq(Words \cup Nat) /\ Len(a) = Len(n) + 1 /\ Len(n) \in Nat /\ Len(n) > 0
        /\ a[Len(n) + 1] = i /\ \A k \in 1..Len(n) : a[k] = n[k]
    BY <1>1
  <2>2. a \in Names
    <3>1. a[1] = n[1] /\ a # <<>>
      BY <2>1
    <3> HIDE DEF a
    <3> QED BY <1>1, <2>1, <3>1 DEF Names
  <2>3. ASSUME NEW f \in OnWords PROVE Named(f, a) = Append(Named(f, n), i)
    <3> DEFINE b == Named(f, a)
               c == Named(f, n)
               d == Append(c, i)
    <3>1. b \in Names /\ Len(b) = Len(a) /\ b[1] = f[a[1]] /\ \A k \in 2..Len(a) : b[k] = a[k]
      BY <2>2, NamedFacts
    <3>2. c \in Names /\ Len(c) = Len(n) /\ c[1] = f[n[1]] /\ \A k \in 2..Len(n) : c[k] = n[k]
      BY NamedFacts
    <3> HIDE DEF a, b, c
    <3>3. c \in Seq(Words \cup Nat) /\ c[1] \in Words /\ c # <<>>
      BY <3>2 DEF Names
    <3>4. /\ d \in Seq(Words \cup Nat) /\ Len(d) = Len(n) + 1
          /\ d[Len(n) + 1] = i /\ \A k \in 1..Len(n) : d[k] = c[k]
      BY <3>2, <3>3
    <3> HIDE DEF d
    <3>5. d[1] = c[1]
      BY <2>1, <3>4
    <3>6. d \in Names
      BY <2>1, <3>3, <3>4, <3>5 DEF Names
    <3>7. Len(d) = Len(b) /\ d[1] = b[1]
      BY <2>1, <3>1, <3>2, <3>4, <3>5
    <3>8. ASSUME NEW k \in 2..Len(b) PROVE d[k] = b[k]
      <4>1. k \in 2..Len(a) /\ (k = Len(n) + 1 \/ k \in 2..Len(n)) /\ k \in Nat
        BY <2>1, <3>1
      <4>2. CASE k = Len(n) + 1
        BY <2>1, <3>1, <3>4, <4>1, <4>2
      <4>3. CASE k \in 2..Len(n)
        <5>1. k \in 1..Len(n)
          BY <4>3
        <5> QED BY <2>1, <3>1, <3>2, <3>4, <4>1, <4>3, <5>1
      <4> QED BY <4>1, <4>2, <4>3
    <3>9. d = b
      BY <3>1, <3>6, <3>7, <3>8, NamesEqual
    <3> QED BY <3>9 DEF a, b, c, d
  <2> QED BY <1>3, <2>2, <2>3 DEF Suffixed
<1> QED BY <1>2, <1>3

LEMMA SuffixedApart ==
    ASSUME NEW n \in Names, NEW i \in Nat, NEW j \in Nat, Suffixed(n, i) = Suffixed(n, j)
    PROVE  i = j
<1>1. n \in Seq(Words \cup Nat)
  BY DEF Names
<1>2. \A k \in Nat : Len(Append(n, k)) = Len(n) + 1 /\ Append(n, k)[Len(n) + 1] = k /\ Len(n) \in Nat
  BY <1>1
<1>3. \A k \in Nat : k # 0 => Append(n, k) # n
  BY <1>2
<1>4. CASE i = 0 \/ j = 0
  BY <1>3, <1>4 DEF Suffixed
<1>5. CASE i # 0 /\ j # 0
  BY <1>2, <1>5 DEF Suffixed
<1> QED BY <1>4, <1>5

-----------------------------------------------------------------------------
(* The roots of the sender.                                                *)

(* A set of numbers that is not empty has a least one.                     *)
LEMMA LeastOne ==
    ASSUME NEW T \in SUBSET Nat, T # {}
    PROVE  \E n \in T : \A m \in T : n <= m
<1> DEFINE R == OpToRel(<, Nat)
<1>1. PICK x \in T : \A y \in T : ~(<<y, x>> \in R)
  BY WFMin, NatLessThanWellFounded
<1>2. \A y \in Nat : y < x => <<y, x>> \in R
  BY DEF OpToRel
<1> HIDE DEF R
<1>3. ASSUME NEW m \in T PROVE x <= m
  <2>1. ~(m < x)
    BY <1>1, <1>2
  <2> QED BY <2>1
<1> QED BY <1>3

LEMMA LoweredFinite ==
    ASSUME NEW E, IsFiniteSet(E)
    PROVE  LET L == {Named(Lower, e) : e \in E} IN
           IsFiniteSet(L) /\ Cardinality(L) <= Cardinality(E)
<1> DEFINE L == {Named(Lower, e) : e \in E}
           f == [e \in E |-> Named(Lower, e)]
<1>1. f \in Surjection(E, L)
  BY DEF Surjection
<1> QED BY <1>1, FS_Surjection

(* unique_manifest_root gives a name that the earlier roots have not,      *)
(* whatever the case of its letters.                                       *)
LEMMA UniqueRootFacts ==
    ASSUME NEW name \in Names, NEW E \in SUBSET Names, IsFiniteSet(E)
    PROVE  /\ UniqueRoot(name, E) \in Names
           /\ \A e \in E : Named(Lower, UniqueRoot(name, E)) # Named(Lower, e)
<1> DEFINE L      == {Named(Lower, e) : e \in E}
           C      == Cardinality(E)
           New(i) == Named(Lower, Suffixed(name, i)) \notin L
           T      == {i \in 0..C : New(i)}
           i0     == CHOOSE i \in 0..C : New(i) /\ \A j \in 0..(i - 1) : ~New(j)
<1>1. IsFiniteSet(L) /\ Cardinality(L) <= C /\ Cardinality(L) \in Nat /\ C \in Nat
  BY LoweredFinite, FS_CardinalityType
<1>2. Lower \in OnWords /\ Named(Lower, name) \in Names
  BY Functions4, NamedFacts
<1>3. ASSUME \A i \in 0..C : ~New(i) PROVE FALSE
  <2> DEFINE S == 0..C
             f == [i \in S |-> Named(Lower, Suffixed(name, i))]
  <2>1. f \in [S -> L]
    BY <1>3
  <2>2. IsFiniteSet(S) /\ Cardinality(S) = C + 1
    <3>1. 0 \in Int /\ C \in Int
      BY <1>1
    <3>2. IsFiniteSet(0..C) /\ Cardinality(0..C) = IF 0 > C THEN 0 ELSE C - 0 + 1
      BY <3>1, FS_Interval
    <3> QED BY <1>1, <3>2
  <2>3. Cardinality(L) < Cardinality(S)
    BY <1>1, <2>2
  <2>f. \A i \in S : f[i] = Named(Lower, Suffixed(name, i))
    OBVIOUS
  <2> HIDE DEF S, L, f
  <2>4. PICK i \in S, j \in S : i # j /\ f[i] = f[j]
    BY <1>1, <2>1, <2>2, <2>3, FS_PigeonHole
  <2>5. i \in Nat /\ j \in Nat
    BY <1>1 DEF S
  <2>6. Suffixed(Named(Lower, name), i) = Suffixed(Named(Lower, name), j)
    BY <1>2, <2>f, <2>4, <2>5, SuffixedFacts
  <2> QED BY <1>2, <2>4, <2>5, <2>6, SuffixedApart
<1>4. T # {} /\ T \in SUBSET Nat
  BY <1>1, <1>3
<1>5. PICK i \in T : \A j \in T : i <= j
  BY <1>4, LeastOne
<1>6. i \in 0..C /\ New(i) /\ \A j \in 0..(i - 1) : ~New(j)
  <2>1. i \in 0..C /\ New(i)
    BY <1>5
  <2>2. ASSUME NEW j \in 0..(i - 1), New(j) PROVE FALSE
    <3>1. j \in 0..C /\ ~(i <= j)
      BY <1>1, <2>1
    <3>2. j \in T
      BY <2>2, <3>1
    <3> QED BY <1>5, <3>1, <3>2
  <2> QED BY <2>1, <2>2
<1>7. i0 \in 0..C /\ New(i0)
  BY <1>6
<1>8. UniqueRoot(name, E) = Suffixed(name, i0)
  BY DEF UniqueRoot
<1>9. i0 \in Nat
  BY <1>1, <1>7
<1> HIDE DEF i0
<1> QED BY <1>7, <1>8, <1>9, SuffixedFacts

(* What is sent: a source of Selections.                                   *)
LEMMA SourceFacts ==
    ASSUME NEW s \in Selections, NEW i \in 1..Len(s)
    PROVE  /\ Len(s) \in Nat /\ DOMAIN s = 1..Len(s)
           /\ s[i].name \in Names /\ s[i].inside \subseteq Names
           /\ s[i].kind \in {"file", "folder"} /\ (s[i].kind = "file" => s[i].inside = {})
           /\ Named(Safe, s[i].name) \in Names
<1>1. Len(s) \in Nat /\ DOMAIN s = 1..Len(s)
  BY FinalPathsAssumption
<1>2. /\ IsName(s[i].name) /\ \A n \in s[i].inside : IsName(n)
      /\ s[i].kind \in {"file", "folder"} /\ (s[i].kind = "file" => s[i].inside = {})
  BY <1>1, FinalPathsAssumption
<1>3. s[i].name \in Names /\ s[i].inside \subseteq Names
  BY <1>2, IsNameNames
<1> QED BY <1>1, <1>2, <1>3, Functions4, NamedFacts

(* The root of the i-th source, when f lists those before it.              *)
NextRoot(f, s, i) ==
    IF s[i].picked THEN Named(Safe, s[i].name)
    ELSE UniqueRoot(Named(Safe, s[i].name), Range(f))

(* The recursion of Roots as far as n.                                     *)
ListsRoots(f, s, n) ==
    f = [i \in 0..n |-> IF i = 0 THEN <<>> ELSE Append(f[i - 1], NextRoot(f[i - 1], s, i))]

LEMMA RootsListed ==
    ASSUME NEW s
    PROVE  \A n \in Nat : \E f : ListsRoots(f, s, n)
<1> DEFINE T == {n \in Nat : ~\E f : ListsRoots(f, s, n)}
<1> SUFFICES ASSUME T # {} PROVE FALSE
  OBVIOUS
<1>1. PICK n \in T : \A m \in T : n <= m
  BY LeastOne
<1>2. CASE n = 0
  <2>1. ListsRoots([i \in 0..0 |-> <<>>], s, 0)
    BY DEF ListsRoots
  <2> QED BY <1>1, <1>2, <2>1
<1>3. CASE n # 0
  <2>1. n - 1 \in Nat /\ n - 1 \notin T
    BY <1>1, <1>3
  <2>2. PICK f : ListsRoots(f, s, n - 1)
    BY <2>1
  <2> DEFINE g == [i \in 0..n |-> IF i = n THEN Append(f[n - 1], NextRoot(f[n - 1], s, n)) ELSE f[i]]
  <2>3. ASSUME NEW i \in 0..n
        PROVE g[i] = IF i = 0 THEN <<>> ELSE Append(g[i - 1], NextRoot(g[i - 1], s, i))
    <3>1. CASE i = n
      <4>1. g[n - 1] = f[n - 1] /\ g[n] = Append(f[n - 1], NextRoot(f[n - 1], s, n))
        BY <1>1, <2>1
      <4> HIDE DEF g
      <4> QED BY <1>3, <3>1, <4>1
    <3>2. CASE i # n
      <4>1. i \in 0..(n - 1) /\ g[i] = f[i] /\ (i # 0 => g[i - 1] = f[i - 1])
        BY <1>1, <3>2
      <4>2. f[i] = IF i = 0 THEN <<>> ELSE Append(f[i - 1], NextRoot(f[i - 1], s, i))
        BY <2>2, <4>1 DEF ListsRoots
      <4> HIDE DEF g
      <4> QED BY <4>1, <4>2
    <3> QED BY <3>1, <3>2
  <2>4. ListsRoots(g, s, n)
    BY <2>3 DEF ListsRoots
  <2> QED BY <1>1, <2>4
<1> QED BY <1>2, <1>3

(* The roots of the first k sources: a picked one keeps its name, another  *)
(* has one no earlier root has.                                            *)
RootsRight(r, s, k) ==
    /\ r \in Seq(Names) /\ Len(r) = k
    /\ \A i \in 1..k :
          IF s[i].picked THEN r[i] = Named(Safe, s[i].name)
          ELSE \A j \in 1..(i - 1) : Named(Lower, r[i]) # Named(Lower, r[j])

LEMMA OneMoreRoot ==
    ASSUME NEW s \in Selections, NEW k \in 1..Len(s), NEW r, RootsRight(r, s, k - 1)
    PROVE  RootsRight(Append(r, NextRoot(r, s, k)), s, k)
<1>1. Len(s) \in Nat /\ k \in Nat /\ k - 1 \in Nat
  BY SourceFacts
<1>2. r \in Seq(Names) /\ Len(r) = k - 1
  BY DEF RootsRight
<1>3. Range(r) \in SUBSET Names /\ IsFiniteSet(Range(r)) /\ \A j \in 1..(k - 1) : r[j] \in Range(r)
  <2>1. r \in [1..(k - 1) -> Names]
    BY <1>2
  <2>2. Range(r) \in SUBSET Names /\ \A j \in 1..(k - 1) : r[j] \in Range(r)
    BY <2>1 DEF Range
  <2>3. r \in Surjection(1..(k - 1), Range(r))
    BY <2>1 DEF Surjection, Range
  <2>4. IsFiniteSet(1..(k - 1))
    BY <1>1, FS_Interval
  <2> QED BY <2>2, <2>3, <2>4, FS_Surjection
<1> DEFINE x == NextRoot(r, s, k)
           a == Append(r, x)
<1>4. /\ x \in Names
      /\ s[k].picked => x = Named(Safe, s[k].name)
      /\ ~s[k].picked => \A e \in Range(r) : Named(Lower, x) # Named(Lower, e)
  <2>1. Named(Safe, s[k].name) \in Names
    BY SourceFacts
  <2> QED BY <1>3, <2>1, UniqueRootFacts DEF NextRoot
<1> HIDE DEF x
<1>5. a \in Seq(Names) /\ Len(a) = k /\ a[k] = x /\ \A j \in 1..(k - 1) : a[j] = r[j]
  BY <1>1, <1>2, <1>4
<1> HIDE DEF a
<1>6. ASSUME NEW i \in 1..k
      PROVE  IF s[i].picked THEN a[i] = Named(Safe, s[i].name)
             ELSE \A j \in 1..(i - 1) : Named(Lower, a[i]) # Named(Lower, a[j])
  <2>1. CASE i = k
    BY <1>3, <1>4, <1>5, <2>1
  <2>2. CASE i # k
    <3>1. i \in 1..(k - 1) /\ \A j \in 1..(i - 1) : j \in 1..(k - 1)
      BY <1>1, <2>2
    <3>2. IF s[i].picked THEN r[i] = Named(Safe, s[i].name)
          ELSE \A j \in 1..(i - 1) : Named(Lower, r[i]) # Named(Lower, r[j])
      BY <3>1 DEF RootsRight
    <3> QED BY <1>5, <3>1, <3>2
  <2> QED BY <2>1, <2>2
<1> QED BY <1>5, <1>6 DEF RootsRight, a, x

LEMMA RootsFacts ==
    ASSUME NEW s \in Selections
    PROVE  RootsRight(Roots(s), s, Len(s))
<1>0. Len(s) \in Nat
  BY FinalPathsAssumption
<1> DEFINE f == CHOOSE f : ListsRoots(f, s, Len(s))
<1>1. ListsRoots(f, s, Len(s))
  BY <1>0, RootsListed
<1>2. Roots(s) = f[Len(s)]
  BY DEF Roots, ListsRoots, NextRoot
<1> HIDE DEF f
<1> DEFINE T == {k \in 0..Len(s) : ~RootsRight(f[k], s, k)}
<1>3. ASSUME T # {} PROVE FALSE
  <2>1. T \in SUBSET Nat
    BY <1>0
  <2>2. PICK k \in T : \A m \in T : k <= m
    BY <1>3, <2>1, LeastOne
  <2>3. k \in 0..Len(s) /\ ~RootsRight(f[k], s, k)
    OBVIOUS
  <2>4. f[k] = IF k = 0 THEN <<>> ELSE Append(f[k - 1], NextRoot(f[k - 1], s, k))
    BY <1>1, <2>3 DEF ListsRoots
  <2>5. CASE k = 0
    <3>1. RootsRight(<<>>, s, 0)
      BY DEF RootsRight
    <3> QED BY <2>3, <2>4, <2>5, <3>1
  <2>6. CASE k # 0
    <3>1. k \in 1..Len(s) /\ k - 1 \in 0..Len(s) /\ ~(k <= k - 1)
      BY <1>0, <2>3, <2>6
    <3>2. RootsRight(f[k - 1], s, k - 1)
      BY <2>2, <3>1
    <3> QED BY <2>3, <2>4, <2>6, <3>1, <3>2, OneMoreRoot
  <2> QED BY <2>5, <2>6
<1> QED BY <1>0, <1>2, <1>3

-----------------------------------------------------------------------------
(* The paths of the sender.                                                *)

LEMMA ItemsFacts ==
    ASSUME NEW s \in Selections, NEW it \in Items(s)
    PROVE  /\ it # NoItem /\ it[1] \in 1..Len(s) /\ <<it[1]>> \in Items(s)
           /\ Len(it) \in {1, 2}
           /\ Len(it) = 1 => it = <<it[1]>>
           /\ Len(it) = 2 => /\ it = <<it[1], it[2]>> /\ it[2] \in Names
                             /\ it[2] \in s[it[1]].inside /\ s[it[1]].kind = "folder"
<1>1. Len(s) \in Nat /\ DOMAIN s = 1..Len(s)
  BY FinalPathsAssumption
<1>2. CASE \E i \in DOMAIN s : it = <<i>>
  BY <1>1, <1>2 DEF Items, NoItem
<1>3. CASE \E i \in DOMAIN s : \E n \in s[i].inside : it = <<i, n>>
  <2>0. PICK i \in DOMAIN s : \E n \in s[i].inside : it = <<i, n>>
    BY <1>3
  <2>1. PICK n \in s[i].inside : it = <<i, n>>
    BY <2>0
  <2>2. Len(it) = 2 /\ it[1] = i /\ it[2] = n /\ it # NoItem
    BY <2>1 DEF NoItem
  <2>3. <<i>> \in Items(s)
    BY DEF Items
  <2>4. n \in Names /\ s[i].kind = "folder"
    BY <1>1, <2>1, SourceFacts
  <2> QED BY <1>1, <2>1, <2>2, <2>3, <2>4
<1> QED BY <1>2, <1>3 DEF Items

LEMMA ScannedFacts ==
    ASSUME NEW s \in Selections, NEW it \in Items(s)
    PROVE  /\ DOMAIN Scanned(s) = Items(s)
           /\ Roots(s)[it[1]] \in Names
           /\ Len(it) = 1 => Scanned(s)[it] = <<Roots(s)[it[1]]>>
           /\ Len(it) = 2 => Scanned(s)[it] = <<Roots(s)[it[1]], Named(Safe, it[2])>>
           /\ Scanned(s)[it][1] = Roots(s)[it[1]]
           /\ Len(Scanned(s)[it]) = Len(it)
           /\ DOMAIN Scanned(s)[it] = 1..Len(it)
<1>1. it[1] \in 1..Len(s) /\ Len(it) \in {1, 2}
  BY ItemsFacts
<1>2. Roots(s) \in Seq(Names) /\ Len(Roots(s)) = Len(s)
  BY RootsFacts DEF RootsRight
<1>3. Roots(s)[it[1]] \in Names
  BY <1>1, <1>2
<1>4. /\ DOMAIN Scanned(s) = Items(s)
      /\ Len(it) = 1 => Scanned(s)[it] = <<Roots(s)[it[1]]>>
      /\ Len(it) = 2 => Scanned(s)[it] = <<Roots(s)[it[1]], Named(Safe, it[2])>>
  BY <1>1 DEF Scanned
<1>5. CASE Len(it) = 1
  BY <1>3, <1>4, <1>5
<1>6. CASE Len(it) = 2
  BY <1>3, <1>4, <1>6
<1> QED BY <1>1, <1>5, <1>6

(* Two sources have one root only when both were picked on Android under   *)
(* one name.                                                               *)
LEMMA RootsApart ==
    ASSUME NEW s \in Selections, NEW i \in 1..Len(s), NEW j \in 1..Len(s), i # j,
           Roots(s)[i] = Roots(s)[j]
    PROVE  /\ s[i].picked /\ s[j].picked
           /\ Named(Safe, s[i].name) = Named(Safe, s[j].name)
<1>0. Len(s) \in Nat /\ DOMAIN s = 1..Len(s) /\ s[i].picked \in BOOLEAN /\ s[i].picked = s[j].picked
  <2>1. Len(s) \in Nat /\ DOMAIN s = 1..Len(s)
    BY FinalPathsAssumption
  <2> QED BY <2>1, FinalPathsAssumption
<1> DEFINE R == Roots(s)
<1>1. RootsRight(R, s, Len(s))
  BY RootsFacts
<1> HIDE DEF R
<1>2. /\ \A k \in 1..Len(s) :
            IF s[k].picked THEN R[k] = Named(Safe, s[k].name)
            ELSE \A l \in 1..(k - 1) : Named(Lower, R[k]) # Named(Lower, R[l])
  BY <1>1 DEF RootsRight
<1>3. R[i] = R[j]
  BY DEF R
<1>4. CASE s[i].picked
  BY <1>0, <1>2, <1>3, <1>4
<1>5. CASE ~s[i].picked
  <2>1. ~s[j].picked
    BY <1>0, <1>5
  <2>2. i \in 1..(j - 1) \/ j \in 1..(i - 1)
    BY <1>0
  <2> QED BY <1>2, <1>3, <1>5, <2>1, <2>2
<1> QED BY <1>0, <1>4, <1>5

(* What makes two items have one path.                                     *)
LEMMA RefusedForCause ==
    ASSUME NEW s \in Selections, ~Valid(Scanned(s))
    PROVE  \/ \E it1, it2 \in Items(s) :
                 /\ it1 # it2 /\ Len(it1) = 2 /\ Len(it2) = 2 /\ it1[1] = it2[1]
                 /\ Named(Safe, it1[2]) = Named(Safe, it2[2])
           \/ \E i, j \in DOMAIN s :
                 /\ i # j /\ s[i].picked /\ s[j].picked
                 /\ Named(Safe, s[i].name) = Named(Safe, s[j].name)
<1>0. DOMAIN s = 1..Len(s)
  BY FinalPathsAssumption
<1>2. DOMAIN Scanned(s) = Items(s)
  BY DEF Scanned
<1>3. PICK it1 \in Items(s), it2 \in Items(s) : it1 # it2 /\ Scanned(s)[it1] = Scanned(s)[it2]
  BY <1>2 DEF Valid, IsInjective
<1>4. /\ Len(it1) = Len(it2) /\ Roots(s)[it1[1]] = Roots(s)[it2[1]]
      /\ it1[1] \in 1..Len(s) /\ it2[1] \in 1..Len(s)
  <2>1. ASSUME NEW it \in Items(s)
        PROVE  /\ Len(Scanned(s)[it]) = Len(it) /\ Scanned(s)[it][1] = Roots(s)[it[1]]
               /\ it[1] \in 1..Len(s)
    BY ScannedFacts, ItemsFacts
  <2>2. /\ Len(Scanned(s)[it1]) = Len(it1) /\ Scanned(s)[it1][1] = Roots(s)[it1[1]]
        /\ Len(Scanned(s)[it2]) = Len(it2) /\ Scanned(s)[it2][1] = Roots(s)[it2[1]]
        /\ it1[1] \in 1..Len(s) /\ it2[1] \in 1..Len(s)
    BY <2>1
  <2> QED BY <1>3, <2>2
<1>5. CASE it1[1] # it2[1]
  BY <1>0, <1>4, <1>5, RootsApart
<1>6. CASE it1[1] = it2[1]
  <2>1. Len(it1) # 1
    <3>1. \A it \in Items(s) : Len(it) = 1 => it = <<it[1]>>
      BY ItemsFacts
    <3> QED BY <1>3, <1>4, <1>6, <3>1
  <2>2. Len(it1) = 2 /\ Len(it2) = 2
    BY <1>4, <2>1, ItemsFacts
  <2>3. /\ Scanned(s)[it1] = <<Roots(s)[it1[1]], Named(Safe, it1[2])>>
        /\ Scanned(s)[it2] = <<Roots(s)[it2[1]], Named(Safe, it2[2])>>
    BY <2>2, ScannedFacts
  <2>4. Named(Safe, it1[2]) = Named(Safe, it2[2])
    <3>1. \A a, b, c, d : <<a, b>> = <<c, d>> => b = d
      OBVIOUS
    <3> QED BY <1>3, <2>3, <3>1
  <2> QED BY <1>3, <1>6, <2>2, <2>4
<1> QED BY <1>5, <1>6

(* In a manifest that is sent every root is of one source.                 *)
LEMMA OneSource ==
    ASSUME NEW s \in Selections, Valid(Scanned(s)), NEW i \in 1..Len(s), NEW j \in 1..Len(s),
           Roots(s)[i] = Roots(s)[j]
    PROVE  i = j
<1>1. DOMAIN s = 1..Len(s)
  BY FinalPathsAssumption
<1>2. <<i>> \in Items(s) /\ <<j>> \in Items(s)
  BY <1>1 DEF Items
<1>3. Scanned(s)[<<i>>] = Scanned(s)[<<j>>]
  BY <1>2, ScannedFacts
<1>4. <<i>> = <<j>>
  BY <1>2, <1>3 DEF Valid, IsInjective, Scanned
<1> QED BY <1>4

-----------------------------------------------------------------------------
(* The invariant.                                                          *)

IsTable(f) == f = [t \in Transfers |-> f[t]]

Tables ==
    /\ picked \in [Transfers -> Selections]
    /\ pc \in [Transfers -> {"scan", "refused", "allocate", "files", "rename", "done", "failed"}]
    /\ retries \in 0..MaxRetries
    /\ IsTable(manifest) /\ IsTable(roots) /\ IsTable(final)
    /\ IsTable(todo) /\ IsTable(item) /\ IsTable(seen)

(* A manifest that was refused is not stored; one that is sent is valid.   *)
SenderInv(t) ==
    /\ pc[t] \in {"scan", "refused"} =>
          manifest[t] = Empty /\ roots[t] = Empty /\ final[t] = Empty
    /\ pc[t] = "refused" => ~Valid(Scanned(picked[t]))
    /\ pc[t] \notin {"scan", "refused"} =>
          manifest[t] = Scanned(picked[t]) /\ Valid(Scanned(picked[t]))

(* The name of the root an item is under, on the sender.                   *)
RootOf(t, it) == Roots(picked[t])[it[1]]

(* The target roots differ for the file system, and a final path is the    *)
(* target root and the cleaned name.                                       *)
NamesInv(t) ==
    /\ \A s \in DOMAIN roots[t] : roots[t][s] \in Names
    /\ \A r, s \in DOMAIN roots[t] :
          Named(Fold, roots[t][r]) = Named(Fold, roots[t][s]) => r = s
    /\ DOMAIN final[t] \subseteq Items(picked[t])
    /\ \A it \in DOMAIN final[t] :
          /\ RootOf(t, it) \in DOMAIN roots[t]
          /\ Len(it) = 1 => final[t][it] = <<roots[t][RootOf(t, it)]>>
          /\ Len(it) = 2 => final[t][it] = <<roots[t][RootOf(t, it)], Named(Clean, Named(Safe, it[2]))>>

TodoInv(t) ==
    /\ todo[t] \subseteq Items(picked[t])
    /\ pc[t] \in {"scan", "refused", "allocate", "done"} => todo[t] = {}
    /\ pc[t] \in {"files", "rename", "done", "failed"} => DOMAIN final[t] = Items(picked[t])
    /\ pc[t] = "rename" => item[t] \in todo[t] /\ todo[t] \cap Directories(t) = {}
    /\ pc[t] # "rename" => item[t] = NoItem

(* Where an item is, for the file system.                                  *)
Key(t, it) == Folded(final[t][it])

(* What has been dealt with is on the disk, and nobody else's.             *)
PlacedInv(t) ==
    pc[t] \in {"files", "rename", "done"} =>
       \A it \in Items(picked[t]) \ todo[t] :
          /\ Key(t, it) \in DOMAIN disk
          /\ \/ Key(t, it) \in raced
             \/ disk[Key(t, it)].kind = "folder"
             \/ disk[Key(t, it)] = [by |-> t, kind |-> "file", item |-> it]

(* A file that is there when the rename comes was not there at the check.  *)
SeenInv(t) == pc[t] = "rename" => Key(t, item[t]) \notin seen[t]

(* Under the roots of this attempt the transfer itself has put only items  *)
(* of this attempt.                                                        *)
OwnInv(t) ==
    \A q \in DOMAIN disk :
       disk[q].by = t /\ (\E s \in DOMAIN roots[t] : q[1] = Named(Fold, roots[t][s])) =>
          /\ pc[t] \in {"files", "rename", "done", "failed"}
          /\ disk[q].item \in Items(picked[t]) \ todo[t]
          /\ Key(t, disk[q].item) = q

(* What a failure is put down to.                                          *)
CauseInv(t) ==
    pc[t] = "failed" =>
       \/ Merge(t, Received)
       \/ \E it \in Items(picked[t]) : Key(t, it) \in DOMAIN disk /\ disk[Key(t, it)].by # t

TransferInv(t) ==
    /\ SenderInv(t) /\ NamesInv(t) /\ TodoInv(t)
    /\ PlacedInv(t) /\ SeenInv(t) /\ OwnInv(t) /\ CauseInv(t)

(* Files of other programs stay theirs, and what is in a folder is in one  *)
(* that is there.                                                          *)
DiskInv ==
    /\ foreign \cup raced \subseteq DOMAIN disk
    /\ \A q \in DOMAIN disk : disk[q].by \in Transfers \cup {Program}
    /\ \A q \in foreign \ raced : disk[q].by = Program
    /\ \A q \in DOMAIN disk : <<q[1]>> \in DOMAIN disk

PathsInv == Tables /\ DiskInv /\ \A t \in Transfers : TransferInv(t)

-----------------------------------------------------------------------------
(* Places.                                                                 *)

LEMMA FoldedFacts ==
    ASSUME NEW a, NEW b
    PROVE  /\ Folded(<<a>>) = <<Named(Fold, a)>>
           /\ Folded(<<a, b>>) = <<Named(Fold, a), Named(Fold, b)>>
<1>1. DOMAIN <<a>> = 1..1 /\ DOMAIN <<a, b>> = 1..2
  OBVIOUS
<1>2. [i \in 1..1 |-> Named(Fold, <<a>>[i])] = <<Named(Fold, a)>>
  OBVIOUS
<1>3. [i \in 1..2 |-> Named(Fold, <<a, b>>[i])] = <<Named(Fold, a), Named(Fold, b)>>
  OBVIOUS
<1> QED BY <1>1, <1>2, <1>3 DEF Folded

LEMMA ReceivedFacts ==
    ASSUME NEW n \in Names
    PROVE  Named(Fold, Named(Clean, Named(Safe, n))) = Named(Received, n)
<1> DEFINE h == [w \in Words |-> Clean[Safe[w]]]
           k == [w \in Words |-> Fold[h[w]]]
<1>1. h \in OnWords /\ Named(Clean, Named(Safe, n)) = Named(h, n)
  BY Functions4, NamedTwice
<1>2. k = Received
  <2>1. \A w \in Words : h[w] = Clean[Safe[w]]
    OBVIOUS
  <2> QED BY <2>1 DEF Received
<1> HIDE DEF h
<1>3. Named(Fold, Named(h, n)) = Named(k, n)
  BY <1>1, Functions4, NamedTwice
<1> QED BY <1>1, <1>2, <1>3

(* Where an item is: under the root of its source, by its own name when it *)
(* is in a folder.                                                         *)
LEMMA KeyFacts ==
    ASSUME NEW t \in Transfers, Tables, NamesInv(t), NEW it \in DOMAIN final[t]
    PROVE  /\ it \in Items(picked[t]) /\ RootOf(t, it) \in DOMAIN roots[t]
           /\ Key(t, it)[1] = Named(Fold, roots[t][RootOf(t, it)])
           /\ Len(Key(t, it)) = Len(it)
           /\ Len(it) = 1 => Key(t, it) = <<Key(t, it)[1]>>
           /\ Len(it) = 2 => Key(t, it) = <<Key(t, it)[1], Named(Received, it[2])>>
<1> DEFINE R == roots[t][RootOf(t, it)]
           F == Named(Fold, R)
           N == Named(Clean, Named(Safe, it[2]))
<1>1. picked[t] \in Selections /\ it \in Items(picked[t]) /\ RootOf(t, it) \in DOMAIN roots[t]
  BY DEF Tables, NamesInv
<1>2. Len(it) \in {1, 2} /\ (Len(it) = 2 => it[2] \in Names)
  BY <1>1, ItemsFacts
<1>3. CASE Len(it) = 1
  <2>1. final[t][it] = <<R>>
    BY <1>3 DEF NamesInv
  <2>2. Key(t, it) = <<F>>
    BY <2>1, FoldedFacts DEF Key
  <2>3. Len(<<F>>) = 1 /\ <<F>>[1] = F
    OBVIOUS
  <2> QED BY <1>1, <1>3, <2>2, <2>3
<1>4. CASE Len(it) = 2
  <2>1. final[t][it] = <<R, N>>
    BY <1>4 DEF NamesInv
  <2>2. Key(t, it) = <<F, Named(Fold, N)>>
    BY <2>1, FoldedFacts DEF Key
  <2>3. Named(Fold, N) = Named(Received, it[2])
    BY <1>2, <1>4, ReceivedFacts
  <2> DEFINE M == Named(Received, it[2])
  <2>4. Len(<<F, M>>) = 2 /\ <<F, M>>[1] = F
    OBVIOUS
  <2> QED BY <1>1, <1>4, <2>2, <2>3, <2>4
<1> QED BY <1>2, <1>3, <1>4

(* Two items of an attempt that are at one place are files of one folder.  *)
LEMMA SameKey ==
    ASSUME NEW t \in Transfers, Tables, NamesInv(t), Valid(Scanned(picked[t])),
           NEW it1 \in DOMAIN final[t], NEW it2 \in DOMAIN final[t],
           it1 # it2, Key(t, it1) = Key(t, it2)
    PROVE  Merge(t, Received)
<1>1. picked[t] \in Selections /\ it1 \in Items(picked[t]) /\ it2 \in Items(picked[t])
  BY KeyFacts DEF Tables
<1>2. /\ it1[1] \in 1..Len(picked[t]) /\ it2[1] \in 1..Len(picked[t])
      /\ Len(it1) \in {1, 2} /\ (Len(it1) = 1 => it1 = <<it1[1]>>)
      /\ Len(it2) \in {1, 2} /\ (Len(it2) = 1 => it2 = <<it2[1]>>)
  BY <1>1, ItemsFacts
<1>3. Len(it1) = Len(it2)
  BY KeyFacts
<1>4. RootOf(t, it1) = RootOf(t, it2)
  <2>1. Named(Fold, roots[t][RootOf(t, it1)]) = Named(Fold, roots[t][RootOf(t, it2)])
    BY KeyFacts
  <2>2. RootOf(t, it1) \in DOMAIN roots[t] /\ RootOf(t, it2) \in DOMAIN roots[t]
    BY KeyFacts
  <2> QED BY <2>1, <2>2 DEF NamesInv
<1>5. it1[1] = it2[1]
  BY <1>1, <1>2, <1>4, OneSource DEF RootOf
<1>6. Len(it1) = 2 /\ Len(it2) = 2
  BY <1>2, <1>3, <1>5
<1>7. Named(Received, it1[2]) = Named(Received, it2[2])
  <2>1. \A a, b, c, d : <<a, b>> = <<c, d>> => b = d
    OBVIOUS
  <2>2. /\ Key(t, it1) = <<Key(t, it1)[1], Named(Received, it1[2])>>
        /\ Key(t, it2) = <<Key(t, it2)[1], Named(Received, it2[2])>>
    BY <1>6, KeyFacts
  <2> QED BY <2>1, <2>2
<1> QED BY <1>1, <1>5, <1>6, <1>7 DEF Merge

(* What a transfer has put under a root of its attempt, at the place of an *)
(* item it has still to deal with, is a file of the same folder.           *)
LEMMA OwnAtPlace ==
    ASSUME NEW t \in Transfers, Tables, TransferInv(t), NEW it \in todo[t],
           Key(t, it) \in DOMAIN disk, disk[Key(t, it)].by = t,
           pc[t] \in {"files", "rename"}
    PROVE  Merge(t, Received) /\ Len(it) = 2
<1> DEFINE q == Key(t, it)
           other == disk[q].item
<1>1. DOMAIN final[t] = Items(picked[t]) /\ it \in DOMAIN final[t]
  BY DEF TransferInv, TodoInv
<1>2. NamesInv(t) /\ Valid(Scanned(picked[t]))
  BY DEF TransferInv, SenderInv
<1>3. q \in DOMAIN disk /\ disk[q].by = t /\ \E s \in DOMAIN roots[t] : q[1] = Named(Fold, roots[t][s])
  BY <1>1, <1>2, KeyFacts
<1>4. other \in Items(picked[t]) \ todo[t] /\ Key(t, other) = q
  BY <1>3 DEF TransferInv, OwnInv
<1>5. other # it /\ other \in DOMAIN final[t]
  BY <1>1, <1>4
<1>6. Merge(t, Received)
  BY <1>1, <1>2, <1>4, <1>5, SameKey
<1>7. Len(it) # 1
  <2>1. SUFFICES ASSUME Len(it) = 1 PROVE FALSE
    OBVIOUS
  <2>2. Len(other) = 1
    BY <1>1, <1>2, <1>4, <1>5, <2>1, KeyFacts
  <2>3. picked[t] \in Selections
    BY DEF Tables
  <2>4. /\ it = <<it[1]>> /\ other = <<other[1]>>
        /\ it[1] \in 1..Len(picked[t]) /\ other[1] \in 1..Len(picked[t])
    BY <1>1, <1>4, <2>1, <2>2, <2>3, ItemsFacts
  <2>5. RootOf(t, it) = RootOf(t, other)
    <3>1. Named(Fold, roots[t][RootOf(t, it)]) = Named(Fold, roots[t][RootOf(t, other)])
      BY <1>1, <1>2, <1>4, <1>5, KeyFacts
    <3>2. RootOf(t, it) \in DOMAIN roots[t] /\ RootOf(t, other) \in DOMAIN roots[t]
      BY <1>1, <1>2, <1>5, KeyFacts
    <3> QED BY <1>2, <3>1, <3>2 DEF NamesInv
  <2>6. it[1] = other[1]
    BY <1>2, <2>3, <2>4, <2>5, OneSource DEF RootOf
  <2> QED BY <1>5, <2>4, <2>6
<1>8. Len(it) \in {1, 2}
  <2>1. picked[t] \in Selections /\ it \in Items(picked[t])
    BY <1>1 DEF Tables
  <2> QED BY <2>1, ItemsFacts
<1> QED BY <1>6, <1>7, <1>8

-----------------------------------------------------------------------------
(* Steps.                                                                  *)

(* Nothing of t changes,                                                   *)
Still(t) ==
    /\ picked' = picked /\ manifest'[t] = manifest[t] /\ pc'[t] = pc[t]
    /\ roots'[t] = roots[t] /\ final'[t] = final[t] /\ todo'[t] = todo[t]
    /\ item'[t] = item[t] /\ seen'[t] = seen[t]

(* and on the disk only what somebody else puts there, at a place that was *)
(* free or is counted as raced for.                                        *)
Spares(t) ==
    /\ raced \subseteq raced' /\ DOMAIN disk \subseteq DOMAIN disk'
    /\ \A q \in DOMAIN disk : disk'[q] = disk[q] \/ (q \in raced' /\ disk'[q].by # t)
    /\ \A q \in DOMAIN disk' \ DOMAIN disk : disk'[q].by # t

LEMMA OthersKeep ==
    ASSUME NEW t \in Transfers, TransferInv(t), Still(t), Spares(t)
    PROVE  TransferInv(t)'
<1> USE DEF Still
<1>1. /\ Directories(t)' = Directories(t) /\ Merge(t, Received)' = Merge(t, Received)
      /\ \A it : Key(t, it)' = Key(t, it)
  BY DEF Directories, Merge, Key
<1>2. SenderInv(t)' /\ NamesInv(t)'
  BY DEF TransferInv, SenderInv, NamesInv, RootOf
<1>3. TodoInv(t)' /\ SeenInv(t)'
  BY <1>1 DEF TransferInv, TodoInv, SeenInv
<1>4. PlacedInv(t)'
  <2>1. SUFFICES ASSUME pc[t] \in {"files", "rename", "done"},
                        NEW it \in Items(picked[t]) \ todo[t]
                 PROVE  /\ Key(t, it) \in DOMAIN disk'
                        /\ \/ Key(t, it) \in raced' \/ disk'[Key(t, it)].kind = "folder"
                           \/ disk'[Key(t, it)] = [by |-> t, kind |-> "file", item |-> it]
    BY <1>1 DEF PlacedInv
  <2>2. /\ Key(t, it) \in DOMAIN disk
        /\ \/ Key(t, it) \in raced \/ disk[Key(t, it)].kind = "folder"
           \/ disk[Key(t, it)] = [by |-> t, kind |-> "file", item |-> it]
    BY <2>1 DEF TransferInv, PlacedInv
  <2> QED BY <2>2 DEF Spares
<1>5. OwnInv(t)'
  <2>1. SUFFICES ASSUME NEW q \in DOMAIN disk', disk'[q].by = t,
                        \E s \in DOMAIN roots[t] : q[1] = Named(Fold, roots[t][s])
                 PROVE  /\ pc[t] \in {"files", "rename", "done", "failed"}
                        /\ disk'[q].item \in Items(picked[t]) \ todo[t]
                        /\ Key(t, disk'[q].item) = q
    BY <1>1 DEF OwnInv
  <2>2. q \in DOMAIN disk /\ disk'[q] = disk[q]
    BY <2>1 DEF Spares
  <2> QED BY <2>1, <2>2 DEF TransferInv, OwnInv
<1>6. CauseInv(t)'
  <2>1. SUFFICES ASSUME pc[t] = "failed", ~Merge(t, Received)
                 PROVE  \E it \in Items(picked[t]) :
                           Key(t, it) \in DOMAIN disk' /\ disk'[Key(t, it)].by # t
    BY <1>1 DEF CauseInv
  <2>2. PICK it \in Items(picked[t]) : Key(t, it) \in DOMAIN disk /\ disk[Key(t, it)].by # t
    BY <2>1 DEF TransferInv, CauseInv
  <2> QED BY <2>2 DEF Spares
<1> QED BY <1>2, <1>3, <1>4, <1>5, <1>6 DEF TransferInv

LEMMA DiskStays ==
    ASSUME disk' = disk, raced' = raced, NEW t
    PROVE  Spares(t)
BY DEF Spares

LEMMA OneRow ==
    ASSUME PathsInv, NEW t \in Transfers, Tables', DiskInv', TransferInv(t)',
           \A u \in Transfers \ {t} : Still(u) /\ Spares(u)
    PROVE  PathsInv'
<1>1. \A u \in Transfers : TransferInv(u)'
  BY OthersKeep DEF PathsInv
<1> QED BY <1>1 DEF PathsInv

(* A place is put on the disk, over nothing or over what was raced for.    *)
LEMMA PutFacts ==
    ASSUME DiskInv, NEW path, NEW what, Put(path, what), what.by \in Transfers \cup {Program},
           raced \subseteq raced', raced' \subseteq raced \cup {Folded(path)},
           Exists(path) => Folded(path) \in raced',
           foreign' = foreign \/ (foreign' = foreign \cup {Folded(path)} /\ what.by = Program),
           <<Folded(path)[1]>> \in DOMAIN disk \cup {Folded(path)}
    PROVE  /\ DOMAIN disk' = DOMAIN disk \cup {Folded(path)} /\ disk'[Folded(path)] = what
           /\ \A q \in DOMAIN disk : q # Folded(path) => disk'[q] = disk[q]
           /\ DiskInv' /\ \A u \in Transfers : what.by # u => Spares(u)
<1> DEFINE k == Folded(path)
<1>1. /\ DOMAIN disk' = DOMAIN disk \cup {k} /\ disk'[k] = what
      /\ \A q \in DOMAIN disk : q # k => disk'[q] = disk[q]
  BY DEF Put, Over
<1>2. Exists(path) <=> k \in DOMAIN disk
  BY DEF Exists
<1> HIDE DEF k
<1>3. (foreign \cup raced)' \subseteq DOMAIN disk'
  BY <1>1 DEF DiskInv, k
<1>4. \A q \in DOMAIN disk' : disk'[q].by \in Transfers \cup {Program}
  BY <1>1 DEF DiskInv
<1>5. \A q \in foreign' \ raced' : disk'[q].by = Program
  <2> SUFFICES ASSUME NEW q \in foreign' \ raced' PROVE disk'[q].by = Program
    OBVIOUS
  <2>1. CASE q = k
    BY <1>1, <1>2, <2>1 DEF DiskInv, k
  <2>2. CASE q # k
    BY <1>1, <2>2 DEF DiskInv, k
  <2> QED BY <2>1, <2>2
<1>6. \A q \in DOMAIN disk' : <<q[1]>> \in DOMAIN disk'
  <2>1. \A q \in DOMAIN disk : <<q[1]>> \in DOMAIN disk
    BY DEF DiskInv
  <2>2. <<k[1]>> \in DOMAIN disk \cup {k}
    BY DEF k
  <2> HIDE DEF k
  <2> QED BY <1>1, <2>1, <2>2
<1>7. DiskInv'
  BY <1>3, <1>4, <1>5, <1>6 DEF DiskInv
<1>8. \A u \in Transfers : what.by # u => Spares(u)
  BY <1>1, <1>2 DEF Spares, k
<1> QED BY <1>1, <1>7, <1>8 DEF k

LEMMA PathsInvStart == Init => PathsInv
<1> SUFFICES ASSUME Init PROVE PathsInv
  OBVIOUS
<1>1. Tables
  BY FinalPathsAssumption DEF Init, Tables, IsTable
<1>2. DiskInv
  BY DEF Init, DiskInv, Empty
<1>3. ASSUME NEW t \in Transfers PROVE TransferInv(t)
  <2>1. /\ pc[t] = "scan" /\ manifest[t] = Empty /\ roots[t] = Empty /\ final[t] = Empty
        /\ todo[t] = {} /\ item[t] = NoItem /\ disk = Empty /\ DOMAIN Empty = {}
    BY DEF Init, Empty
  <2>2. SenderInv(t) /\ NamesInv(t) /\ TodoInv(t)
    BY <2>1 DEF SenderInv, NamesInv, TodoInv
  <2>3. PlacedInv(t) /\ SeenInv(t) /\ OwnInv(t) /\ CauseInv(t)
    BY <2>1 DEF PlacedInv, SeenInv, OwnInv, CauseInv
  <2> QED BY <2>2, <2>3 DEF TransferInv
<1> QED BY <1>1, <1>2, <1>3 DEF PathsInv

LEMMA ScanKeeps ==
    ASSUME NEW t \in Transfers, PathsInv, Scan(t)
    PROVE  PathsInv'
<1>1. Tables /\ DiskInv /\ TransferInv(t)
  BY DEF PathsInv
<1>2. /\ UNCHANGED <<picked, retries, roots, final, todo, item, seen, disk, foreign, raced>>
      /\ pc[t] = "scan"
      /\ pc' = [pc EXCEPT ![t] = pc'[t]] /\ manifest' = [manifest EXCEPT ![t] = manifest'[t]]
      /\ \/ /\ Valid(Scanned(picked[t])) /\ pc'[t] = "allocate"
            /\ manifest'[t] = Scanned(picked[t])
         \/ /\ ~Valid(Scanned(picked[t])) /\ pc'[t] = "refused"
            /\ manifest'[t] = manifest[t]
  <2>1. pc \in [Transfers -> {"scan", "refused", "allocate", "files", "rename", "done", "failed"}]
        /\ IsTable(manifest)
    BY <1>1 DEF Tables
  <2>2. CASE Valid(Scanned(picked[t]))
    BY <2>1, <2>2 DEF Scan, Goto, scanned, directory, IsTable
  <2>3. CASE ~Valid(Scanned(picked[t]))
    BY <2>1, <2>3 DEF Scan, Goto, scanned, directory, IsTable
  <2> QED BY <2>2, <2>3
<1>3. Tables'
  BY <1>1, <1>2 DEF Tables, IsTable
<1>4. DiskInv'
  BY <1>1, <1>2 DEF DiskInv
<1>5. \A u \in Transfers \ {t} : Still(u) /\ Spares(u)
  BY <1>1, <1>2, DiskStays DEF Still, Tables, IsTable
<1>6. /\ manifest[t] = Empty /\ roots[t] = Empty /\ final[t] = Empty /\ DOMAIN Empty = {}
      /\ todo[t] = {} /\ item[t] = NoItem
  BY <1>1, <1>2 DEF TransferInv, SenderInv, TodoInv, Empty
<1>7. TransferInv(t)'
  <2>1. SenderInv(t)'
    BY <1>2, <1>6 DEF SenderInv
  <2>2. NamesInv(t)' /\ TodoInv(t)'
    BY <1>2, <1>6 DEF NamesInv, TodoInv
  <2>3. PlacedInv(t)' /\ SeenInv(t)' /\ OwnInv(t)' /\ CauseInv(t)'
    BY <1>2, <1>6 DEF PlacedInv, SeenInv, OwnInv, CauseInv
  <2> QED BY <2>1, <2>2, <2>3 DEF TransferInv
<1> QED BY <1>3, <1>4, <1>5, <1>7, OneRow

(* The steps that change only how far t is.                                *)
LEMMA CompleteKeeps ==
    ASSUME NEW t \in Transfers, PathsInv, Complete(t)
    PROVE  PathsInv'
<1>1. Tables /\ DiskInv /\ TransferInv(t)
  BY DEF PathsInv
<1>2. /\ UNCHANGED <<picked, manifest, retries, roots, final, item, seen, disk, foreign, raced>>
      /\ pc[t] = "allocate" /\ DOMAIN final[t] = DOMAIN manifest[t]
      /\ pc' = [pc EXCEPT ![t] = "files"] /\ todo' = [todo EXCEPT ![t] = Items(picked[t])]
  BY DEF Complete, Goto, scanned, directory
<1>3. Tables' /\ pc'[t] = "files" /\ todo'[t] = Items(picked[t])
  BY <1>1, <1>2 DEF Tables, IsTable
<1>4. DiskInv'
  BY <1>1, <1>2 DEF DiskInv
<1>5. \A u \in Transfers \ {t} : Still(u) /\ Spares(u)
  BY <1>1, <1>2, DiskStays DEF Still, Tables, IsTable
<1>6. TransferInv(t)'
  <2>1. SenderInv(t)' /\ NamesInv(t)'
    BY <1>1, <1>2, <1>3 DEF TransferInv, SenderInv, NamesInv, RootOf
  <2>2. DOMAIN final[t] = Items(picked[t])
    BY <1>1, <1>2 DEF TransferInv, SenderInv, Scanned
  <2>3. TodoInv(t)'
    BY <1>1, <1>2, <1>3, <2>2 DEF TransferInv, TodoInv
  <2>4. OwnInv(t)'
    BY <1>1, <1>2 DEF TransferInv, OwnInv
  <2>5. PlacedInv(t)' /\ SeenInv(t)' /\ CauseInv(t)'
    BY <1>2, <1>3 DEF PlacedInv, SeenInv, CauseInv
  <2> QED BY <2>1, <2>3, <2>4, <2>5 DEF TransferInv
<1> QED BY <1>3, <1>4, <1>5, <1>6, OneRow

LEMMA FinishKeeps ==
    ASSUME NEW t \in Transfers, PathsInv, Finish(t)
    PROVE  PathsInv'
<1>1. Tables /\ DiskInv /\ TransferInv(t)
  BY DEF PathsInv
<1>2. /\ UNCHANGED <<picked, manifest, retries, roots, final, todo, item, seen, disk, foreign, raced>>
      /\ pc[t] = "files" /\ todo[t] = {} /\ pc' = [pc EXCEPT ![t] = "done"]
  BY DEF Finish, Goto, scanned, directory
<1>3. Tables' /\ pc'[t] = "done"
  BY <1>1, <1>2 DEF Tables, IsTable
<1>4. DiskInv'
  BY <1>1, <1>2 DEF DiskInv
<1>5. \A u \in Transfers \ {t} : Still(u) /\ Spares(u)
  BY <1>1, <1>2, DiskStays DEF Still, Tables, IsTable
<1>6. TransferInv(t)'
  <2>1. SenderInv(t)' /\ NamesInv(t)' /\ TodoInv(t)'
    BY <1>1, <1>2, <1>3 DEF TransferInv, SenderInv, NamesInv, TodoInv, RootOf
  <2>2. PlacedInv(t)' /\ OwnInv(t)'
    BY <1>1, <1>2, <1>3 DEF TransferInv, PlacedInv, OwnInv, Key
  <2>3. SeenInv(t)' /\ CauseInv(t)'
    BY <1>3 DEF SeenInv, CauseInv
  <2> QED BY <2>1, <2>2, <2>3 DEF TransferInv
<1> QED BY <1>3, <1>4, <1>5, <1>6, OneRow

LEMMA RetryKeeps ==
    ASSUME NEW t \in Transfers, PathsInv, Retry(t)
    PROVE  PathsInv'
<1>1. Tables /\ DiskInv /\ TransferInv(t)
  BY DEF PathsInv
<1>2. /\ UNCHANGED <<picked, manifest, item, seen, disk, foreign, raced>>
      /\ pc[t] \in {"allocate", "failed"} /\ retries < MaxRetries /\ retries' = retries + 1
      /\ roots' = [roots EXCEPT ![t] = Empty] /\ final' = [final EXCEPT ![t] = Empty]
      /\ todo' = [todo EXCEPT ![t] = {}] /\ pc' = [pc EXCEPT ![t] = "allocate"]
  BY DEF Retry, Goto, scanned, directory
<1>3. /\ Tables' /\ pc'[t] = "allocate" /\ todo'[t] = {} /\ roots'[t] = Empty
      /\ final'[t] = Empty /\ DOMAIN Empty = {}
  <2>1. MaxRetries \in Nat
    BY FinalPathsAssumption
  <2>2. retries' \in 0..MaxRetries
    BY <1>1, <1>2, <2>1 DEF Tables
  <2> QED BY <1>1, <1>2, <2>2 DEF Tables, IsTable, Empty
<1>4. DiskInv'
  BY <1>1, <1>2 DEF DiskInv
<1>5. \A u \in Transfers \ {t} : Still(u) /\ Spares(u)
  BY <1>1, <1>2, DiskStays DEF Still, Tables, IsTable
<1>6. TransferInv(t)'
  <2>1. SenderInv(t)' /\ NamesInv(t)' /\ TodoInv(t)'
    BY <1>1, <1>2, <1>3 DEF TransferInv, SenderInv, NamesInv, TodoInv
  <2>2. PlacedInv(t)' /\ OwnInv(t)'
    BY <1>3 DEF PlacedInv, OwnInv
  <2>3. SeenInv(t)' /\ CauseInv(t)'
    BY <1>3 DEF SeenInv, CauseInv
  <2> QED BY <2>1, <2>2, <2>3 DEF TransferInv
<1> QED BY <1>3, <1>4, <1>5, <1>6, OneRow

LEMMA ForeignKeeps ==
    ASSUME NEW w \in Words, PathsInv, Foreign(w)
    PROVE  PathsInv'
<1>1. Tables /\ DiskInv
  BY DEF PathsInv
<1> DEFINE path == <<<<w>>>>
           what == [by |-> Program, kind |-> "file", item |-> NoItem]
<1>2. /\ UNCHANGED <<picked, manifest, pc, retries, roots, final, todo, item, seen, raced>>
      /\ ~Exists(path) /\ Put(path, what) /\ foreign' = foreign \cup {Folded(path)}
  BY DEF Foreign, scanned
<1>3. <<Folded(path)[1]>> = Folded(path)
  <2>1. Folded(path) = <<Named(Fold, <<w>>)>>
    BY FoldedFacts
  <2>2. \A x : <<x>>[1] = x
    OBVIOUS
  <2> QED BY <2>1, <2>2
<1>4. what.by = Program
  OBVIOUS
<1> HIDE DEF path, what
<1>5. DiskInv' /\ \A u \in Transfers : Spares(u)
  BY <1>1, <1>2, <1>3, <1>4, PutFacts, FinalPathsAssumption
<1>6. \A u \in Transfers : Still(u)
  BY <1>2 DEF Still
<1>7. Tables'
  BY <1>1, <1>2 DEF Tables, IsTable
<1> QED BY <1>5, <1>6, <1>7, OthersKeep DEF PathsInv

LEMMA CheckKeeps ==
    ASSUME NEW t \in Transfers, NEW it \in Items(picked[t]), PathsInv, Check(t, it)
    PROVE  PathsInv'
<1>1. Tables /\ DiskInv /\ TransferInv(t)
  BY DEF PathsInv
<1>2. /\ UNCHANGED <<picked, manifest, retries, roots, final, todo, disk, foreign, raced>>
      /\ pc[t] = "files" /\ it \in todo[t] /\ todo[t] \cap Directories(t) = {}
  BY DEF Check, scanned, directory
<1>3. DiskInv'
  BY <1>1, <1>2 DEF DiskInv
<1>4. /\ Directories(t)' = Directories(t) /\ Merge(t, Received)' = Merge(t, Received)
      /\ \A i : Key(t, i)' = Key(t, i)
  BY <1>2 DEF Directories, Merge, Key
<1>5. NamesInv(t)'
  BY <1>1, <1>2 DEF TransferInv, NamesInv, RootOf
<1>6. CASE Exists(final[t][it])
  <2>1. pc' = [pc EXCEPT ![t] = "failed"] /\ UNCHANGED <<item, seen>>
    BY <1>6 DEF Check, Goto
  <2>2. Tables' /\ pc'[t] = "failed"
    BY <1>1, <1>2, <2>1 DEF Tables, IsTable
  <2>3. \A u \in Transfers \ {t} : Still(u) /\ Spares(u)
    BY <1>1, <1>2, <2>1, DiskStays DEF Still, Tables, IsTable
  <2>4. SenderInv(t)' /\ TodoInv(t)'
    BY <1>1, <1>2, <2>1, <2>2 DEF TransferInv, SenderInv, TodoInv
  <2>5. OwnInv(t)' /\ PlacedInv(t)' /\ SeenInv(t)'
    BY <1>1, <1>2, <1>4, <2>1, <2>2 DEF TransferInv, OwnInv, PlacedInv, SeenInv
  <2>6. CauseInv(t)'
    <3>1. Key(t, it) \in DOMAIN disk
      BY <1>6 DEF Exists, Key
    <3>2. CASE disk[Key(t, it)].by # t
      BY <1>2, <1>4, <3>1, <3>2 DEF CauseInv
    <3>3. CASE disk[Key(t, it)].by = t
      BY <1>1, <1>2, <1>4, <3>1, <3>3, OwnAtPlace DEF CauseInv
    <3> QED BY <3>2, <3>3
  <2>7. TransferInv(t)'
    BY <1>5, <2>4, <2>5, <2>6 DEF TransferInv
  <2> QED BY <1>3, <2>2, <2>3, <2>7, OneRow
<1>7. CASE ~Exists(final[t][it])
  <2>1. /\ pc' = [pc EXCEPT ![t] = "rename"] /\ item' = [item EXCEPT ![t] = it]
        /\ seen' = [seen EXCEPT ![t] = DOMAIN disk]
    BY <1>7 DEF Check, Goto
  <2>2. Tables' /\ pc'[t] = "rename" /\ item'[t] = it /\ seen'[t] = DOMAIN disk
    BY <1>1, <1>2, <2>1 DEF Tables, IsTable
  <2>3. \A u \in Transfers \ {t} : Still(u) /\ Spares(u)
    BY <1>1, <1>2, <2>1, DiskStays DEF Still, Tables, IsTable
  <2>4. SenderInv(t)' /\ TodoInv(t)'
    BY <1>1, <1>2, <1>4, <2>2 DEF TransferInv, SenderInv, TodoInv
  <2>5. PlacedInv(t)' /\ OwnInv(t)' /\ CauseInv(t)'
    BY <1>1, <1>2, <1>4, <2>2 DEF TransferInv, PlacedInv, OwnInv, CauseInv
  <2>6. SeenInv(t)'
    BY <1>4, <1>7, <2>2 DEF SeenInv, Exists, Key
  <2>7. TransferInv(t)'
    BY <1>5, <2>4, <2>5, <2>6 DEF TransferInv
  <2> QED BY <1>3, <2>2, <2>3, <2>7, OneRow
<1> QED BY <1>6, <1>7

(* A folder is made, or is there already; a file in its place is somebody  *)
(* else's.                                                                 *)
LEMMA MakeFolderKeeps ==
    ASSUME NEW t \in Transfers, NEW it \in Items(picked[t]), PathsInv, MakeFolder(t, it)
    PROVE  PathsInv'
<1> DEFINE k    == Key(t, it)
           made == [by |-> t, kind |-> "folder", item |-> it]
<1>1. Tables /\ DiskInv /\ TransferInv(t)
  BY DEF PathsInv
<1>2. /\ UNCHANGED <<picked, manifest, retries, roots, final, item, seen, foreign, raced>>
      /\ pc[t] = "files" /\ it \in todo[t] /\ Len(it) = 1 /\ todo[t] \subseteq Items(picked[t])
  BY <1>1 DEF MakeFolder, scanned, Directories, TransferInv, TodoInv
<1>3. /\ Directories(t)' = Directories(t) /\ Merge(t, Received)' = Merge(t, Received)
      /\ \A i : Key(t, i)' = Key(t, i)
  BY <1>2 DEF Directories, Merge, Key
<1>4. NamesInv(t)'
  BY <1>1, <1>2 DEF TransferInv, NamesInv, RootOf
<1>5. CASE k \in DOMAIN disk /\ disk[k].kind # "folder"
  <2>1. pc' = [pc EXCEPT ![t] = "failed"] /\ UNCHANGED <<todo, disk>>
    BY <1>5 DEF MakeFolder, Goto, Exists, Key
  <2>2. Tables' /\ pc'[t] = "failed" /\ DiskInv'
    BY <1>1, <1>2, <2>1 DEF Tables, IsTable, DiskInv
  <2>3. \A u \in Transfers \ {t} : Still(u) /\ Spares(u)
    BY <1>1, <1>2, <2>1, DiskStays DEF Still, Tables, IsTable
  <2>4. SenderInv(t)' /\ TodoInv(t)'
    BY <1>1, <1>2, <2>1, <2>2 DEF TransferInv, SenderInv, TodoInv
  <2>5. OwnInv(t)' /\ PlacedInv(t)' /\ SeenInv(t)'
    BY <1>1, <1>2, <1>3, <2>1, <2>2 DEF TransferInv, OwnInv, PlacedInv, SeenInv
  <2>6. disk[k].by # t
    <3>1. 1 # 2
      OBVIOUS
    <3> QED BY <1>1, <1>2, <1>5, <3>1, OwnAtPlace
  <2>7. CauseInv(t)'
    BY <1>2, <1>3, <1>5, <2>1, <2>6 DEF CauseInv
  <2>8. TransferInv(t)'
    BY <1>4, <2>4, <2>5, <2>7 DEF TransferInv
  <2> QED BY <2>2, <2>3, <2>8, OneRow
<1>6. CASE k \notin DOMAIN disk \/ disk[k].kind = "folder"
  <2>1. /\ UNCHANGED pc /\ todo' = [todo EXCEPT ![t] = @ \ {it}]
        /\ IF k \in DOMAIN disk THEN UNCHANGED disk ELSE Put(final[t][it], made)
    BY <1>6 DEF MakeFolder, Exists, Key
  <2>2. Tables' /\ pc'[t] = "files" /\ todo'[t] = todo[t] \ {it}
    BY <1>1, <1>2, <2>1 DEF Tables, IsTable
  <2>3. it \in DOMAIN final[t] /\ NamesInv(t)
    BY <1>1, <1>2 DEF TransferInv, TodoInv
  <2>4. <<k[1]>> = k
    BY <1>1, <1>2, <2>3, KeyFacts
  <2> HIDE DEF k, made
  <2>5. /\ DOMAIN disk' = DOMAIN disk \cup {k} /\ DiskInv'
        /\ \A q \in DOMAIN disk : disk'[q] = disk[q]
        /\ (k \notin DOMAIN disk => disk'[k] = made)
        /\ \A u \in Transfers : u # t => Spares(u)
    <3>1. CASE k \in DOMAIN disk
      <4>1. DiskInv'
        BY <1>1, <1>2, <2>1, <3>1 DEF DiskInv
      <4> QED BY <1>2, <2>1, <3>1, <4>1, DiskStays
    <3>2. CASE k \notin DOMAIN disk
      <4>1. Put(final[t][it], made) /\ k = Folded(final[t][it])
        BY <2>1, <3>2 DEF k, Key
      <4>2. made.by = t
        BY DEF made
      <4>3. ~Exists(final[t][it])
        BY <3>2, <4>1 DEF Exists
      <4>4. <<Folded(final[t][it])[1]>> \in DOMAIN disk \cup {Folded(final[t][it])}
        BY <2>4, <4>1
      <4>5. /\ DOMAIN disk' = DOMAIN disk \cup {k} /\ disk'[k] = made
            /\ \A q \in DOMAIN disk : q # k => disk'[q] = disk[q]
            /\ DiskInv' /\ \A u \in Transfers : made.by # u => Spares(u)
        BY <1>1, <1>2, <4>1, <4>2, <4>3, <4>4, PutFacts
      <4> QED BY <3>2, <4>2, <4>5
    <3> QED BY <3>1, <3>2
  <2>6. \A u \in Transfers \ {t} : Still(u) /\ Spares(u)
    BY <1>1, <1>2, <2>1, <2>5 DEF Still, Tables, IsTable
  <2>7. SenderInv(t)' /\ TodoInv(t)' /\ SeenInv(t)' /\ CauseInv(t)'
    BY <1>1, <1>2, <1>3, <2>1, <2>2 DEF TransferInv, SenderInv, TodoInv, SeenInv, CauseInv
  <2>8. made.kind = "folder" /\ made.item = it
    BY DEF made
  <2>9. PlacedInv(t)'
    <3> SUFFICES ASSUME NEW i \in Items(picked[t]) \ todo'[t]
                 PROVE  /\ Key(t, i) \in DOMAIN disk'
                        /\ \/ Key(t, i) \in raced \/ disk'[Key(t, i)].kind = "folder"
                           \/ disk'[Key(t, i)] = [by |-> t, kind |-> "file", item |-> i]
      BY <1>2, <1>3 DEF PlacedInv
    <3>1. CASE i = it
      <4>1. Key(t, i) = k /\ k \in DOMAIN disk'
        BY <2>5, <3>1 DEF k
      <4>2. disk'[k].kind = "folder"
        BY <1>6, <2>5, <2>8
      <4> QED BY <4>1, <4>2
    <3>2. CASE i # it
      <4>1. i \in Items(picked[t]) \ todo[t]
        BY <2>2, <3>2
      <4>2. /\ Key(t, i) \in DOMAIN disk
            /\ \/ Key(t, i) \in raced \/ disk[Key(t, i)].kind = "folder"
               \/ disk[Key(t, i)] = [by |-> t, kind |-> "file", item |-> i]
        BY <1>1, <1>2, <4>1 DEF TransferInv, PlacedInv
      <4> QED BY <2>5, <4>2
    <3> QED BY <3>1, <3>2
  <2>10. OwnInv(t)'
    <3> SUFFICES ASSUME NEW q \in DOMAIN disk', disk'[q].by = t,
                        \E s \in DOMAIN roots[t] : q[1] = Named(Fold, roots[t][s])
                 PROVE  /\ disk'[q].item \in Items(picked[t]) \ todo'[t]
                        /\ Key(t, disk'[q].item) = q
      BY <1>2, <1>3, <2>2 DEF OwnInv
    <3>1. CASE q \in DOMAIN disk
      <4>1. disk'[q] = disk[q]
        BY <2>5, <3>1
      <4>2. disk[q].item \in Items(picked[t]) \ todo[t] /\ Key(t, disk[q].item) = q
        BY <1>1, <3>1, <4>1 DEF TransferInv, OwnInv
      <4> QED BY <2>2, <4>1, <4>2
    <3>2. CASE q \notin DOMAIN disk
      <4>1. q = k /\ disk'[q] = made
        BY <2>5, <3>2
      <4> QED BY <2>2, <2>8, <4>1 DEF k
    <3> QED BY <3>1, <3>2
  <2>11. TransferInv(t)'
    BY <1>4, <2>7, <2>9, <2>10 DEF TransferInv
  <2> QED BY <2>2, <2>5, <2>6, <2>11, OneRow
<1> QED BY <1>5, <1>6

(* A name that is taken at the rename was taken after the check.           *)
LEMMA RenameKeeps ==
    ASSUME NEW t \in Transfers, PathsInv, Rename(t)
    PROVE  PathsInv'
<1> DEFINE it   == item[t]
           k    == Key(t, it)
           file == [by |-> t, kind |-> "file", item |-> it]
<1>1. Tables /\ DiskInv /\ TransferInv(t)
  BY DEF PathsInv
<1>2. /\ UNCHANGED <<picked, manifest, retries, roots, final, foreign>>
      /\ pc[t] = "rename" /\ item' = [item EXCEPT ![t] = NoItem]
      /\ seen' = [seen EXCEPT ![t] = {}]
  BY DEF Rename, scanned
<1>3. /\ Directories(t)' = Directories(t) /\ Merge(t, Received)' = Merge(t, Received)
      /\ \A i : Key(t, i)' = Key(t, i)
  BY <1>2 DEF Directories, Merge, Key
<1>4. NamesInv(t)'
  BY <1>1, <1>2 DEF TransferInv, NamesInv, RootOf
<1>5. /\ it \in todo[t] /\ todo[t] \subseteq Items(picked[t]) /\ k \notin seen[t]
      /\ todo[t] \cap Directories(t) = {} /\ DOMAIN final[t] = Items(picked[t])
  BY <1>1, <1>2 DEF TransferInv, TodoInv, SeenInv
<1>6. CASE k \in DOMAIN disk /\ disk[k].kind = "folder"
  <2>1. pc' = [pc EXCEPT ![t] = "failed"] /\ UNCHANGED <<todo, disk, raced>>
    BY <1>6 DEF Rename, Goto, Exists, Key
  <2>2. /\ Tables' /\ DiskInv' /\ pc'[t] = "failed" /\ item'[t] = NoItem
    BY <1>1, <1>2, <2>1 DEF Tables, IsTable, DiskInv
  <2>3. \A u \in Transfers \ {t} : Still(u) /\ Spares(u)
    BY <1>1, <1>2, <2>1, DiskStays DEF Still, Tables, IsTable
  <2>4. SenderInv(t)' /\ TodoInv(t)'
    BY <1>1, <1>2, <2>1, <2>2 DEF TransferInv, SenderInv, TodoInv
  <2>5. OwnInv(t)' /\ PlacedInv(t)' /\ SeenInv(t)'
    BY <1>1, <1>2, <1>3, <2>1, <2>2 DEF TransferInv, OwnInv, PlacedInv, SeenInv
  <2>6. CauseInv(t)'
    <3>1. disk[k].by = t => Merge(t, Received)
      BY <1>1, <1>2, <1>5, <1>6, OwnAtPlace
    <3>2. it \in Items(picked[t])
      BY <1>5
    <3> HIDE DEF it, k
    <3>3. Key(t, it) = k
      BY DEF k
    <3> QED BY <1>2, <1>3, <1>6, <2>1, <3>1, <3>2, <3>3 DEF CauseInv
  <2>7. TransferInv(t)'
    BY <1>4, <2>4, <2>5, <2>6 DEF TransferInv
  <2> QED BY <2>2, <2>3, <2>7, OneRow
<1>7. CASE k \notin DOMAIN disk \/ disk[k].kind # "folder"
  <2>1. /\ pc' = [pc EXCEPT ![t] = "files"] /\ todo' = [todo EXCEPT ![t] = @ \ {it}]
        /\ Put(final[t][it], file) /\ k = Folded(final[t][it])
        /\ raced' = IF k \in DOMAIN disk THEN raced \cup {k} ELSE raced
    BY <1>5, <1>7 DEF Rename, Goto, Exists, Key
  <2>2. /\ Tables' /\ pc'[t] = "files" /\ todo'[t] = todo[t] \ {it} /\ item'[t] = NoItem
    BY <1>1, <1>2, <2>1 DEF Tables, IsTable
  <2>3. <<k[1]>> \in DOMAIN disk \cup {k}
    <3>1. picked[t] \in Selections /\ it \in Items(picked[t]) /\ NamesInv(t) /\ it \in DOMAIN final[t]
      BY <1>1, <1>5 DEF Tables, TransferInv
    <3>2. CASE Len(it) = 1
      BY <1>1, <3>1, <3>2, KeyFacts
    <3>3. CASE Len(it) = 2
      <4> DEFINE top == <<it[1]>>
      <4>1. /\ top \in Items(picked[t]) /\ picked[t][it[1]].kind = "folder"
        BY <3>1, <3>3, ItemsFacts
      <4>2. Len(top) = 1 /\ top[1] = it[1]
        OBVIOUS
      <4>3. top \in Directories(t)
        BY <4>1, <4>2 DEF Directories
      <4>4. top \in Items(picked[t]) \ todo[t] /\ top \in DOMAIN final[t]
        BY <1>5, <4>1, <4>3
      <4> HIDE DEF top
      <4>5. Key(t, top) \in DOMAIN disk
        BY <1>1, <1>2, <4>4 DEF TransferInv, PlacedInv
      <4>6. RootOf(t, top) = RootOf(t, it)
        BY <4>2 DEF RootOf
      <4>7. Key(t, top) = <<k[1]>>
        BY <1>1, <3>1, <4>2, <4>4, <4>6, KeyFacts
      <4> QED BY <4>5, <4>7
    <3>4. Len(it) \in {1, 2}
      BY <3>1, ItemsFacts
    <3> QED BY <3>2, <3>3, <3>4
  <2>4. file.by = t /\ file.item = it
    OBVIOUS
  <2>5. it \in Items(picked[t])
    BY <1>5
  <2> HIDE DEF it, k, file
  <2>6. /\ DOMAIN disk' = DOMAIN disk \cup {k} /\ disk'[k] = file
        /\ \A q \in DOMAIN disk : q # k => disk'[q] = disk[q]
        /\ DiskInv' /\ \A u \in Transfers : file.by # u => Spares(u)
    <3>1. Exists(final[t][it]) <=> k \in DOMAIN disk
      BY <2>1 DEF Exists
    <3> QED BY <1>1, <1>2, <2>1, <2>3, <2>4, <3>1, PutFacts
  <2>7. \A u \in Transfers \ {t} : Still(u) /\ Spares(u)
    BY <1>1, <1>2, <2>1, <2>4, <2>6 DEF Still, Tables, IsTable
  <2>8. SenderInv(t)' /\ TodoInv(t)' /\ SeenInv(t)' /\ CauseInv(t)'
    BY <1>1, <1>2, <1>3, <1>5, <2>1, <2>2 DEF TransferInv, SenderInv, TodoInv, SeenInv, CauseInv
  <2>9. PlacedInv(t)'
    <3> SUFFICES ASSUME NEW i \in Items(picked[t]) \ todo'[t]
                 PROVE  /\ Key(t, i) \in DOMAIN disk'
                        /\ \/ Key(t, i) \in raced' \/ disk'[Key(t, i)].kind = "folder"
                           \/ disk'[Key(t, i)] = [by |-> t, kind |-> "file", item |-> i]
      BY <1>2, <1>3 DEF PlacedInv
    <3>1. CASE i = it
      BY <2>6, <3>1 DEF k, file
    <3>2. CASE i # it
      <4>1. i \in Items(picked[t]) \ todo[t]
        BY <2>2, <3>2
      <4>2. /\ Key(t, i) \in DOMAIN disk
            /\ \/ Key(t, i) \in raced \/ disk[Key(t, i)].kind = "folder"
               \/ disk[Key(t, i)] = [by |-> t, kind |-> "file", item |-> i]
        BY <1>1, <1>2, <4>1 DEF TransferInv, PlacedInv
      <4>3. CASE Key(t, i) = k
        BY <2>1, <2>6, <4>2, <4>3
      <4>4. CASE Key(t, i) # k
        BY <2>1, <2>6, <4>2, <4>4
      <4> QED BY <4>3, <4>4
    <3> QED BY <3>1, <3>2
  <2>10. OwnInv(t)'
    <3> SUFFICES ASSUME NEW q \in DOMAIN disk', disk'[q].by = t,
                        \E s \in DOMAIN roots[t] : q[1] = Named(Fold, roots[t][s])
                 PROVE  /\ disk'[q].item \in Items(picked[t]) \ todo'[t]
                        /\ Key(t, disk'[q].item) = q
      BY <1>2, <1>3, <2>2 DEF OwnInv
    <3>1. CASE q = k
      BY <2>2, <2>4, <2>5, <2>6, <3>1 DEF k
    <3>2. CASE q # k
      <4>1. q \in DOMAIN disk /\ disk'[q] = disk[q]
        BY <2>6, <3>2
      <4>2. disk[q].item \in Items(picked[t]) \ todo[t] /\ Key(t, disk[q].item) = q
        BY <1>1, <4>1 DEF TransferInv, OwnInv
      <4> QED BY <2>2, <4>1, <4>2
    <3> QED BY <3>1, <3>2
  <2>11. TransferInv(t)'
    BY <1>4, <2>8, <2>9, <2>10 DEF TransferInv
  <2> QED BY <2>2, <2>6, <2>7, <2>11, OneRow
<1> QED BY <1>6, <1>7

(* The root given is free: nothing on the disk is at it, or in it.         *)
LEMMA AllocateKeeps ==
    ASSUME NEW t \in Transfers, NEW source, PathsInv, Allocate(t, source)
    PROVE  PathsInv'
<1> DEFINE its == {it \in DOMAIN manifest[t] : manifest[t][it][1] = source}
           cleaned(path) == [j \in DOMAIN path |-> Named(Clean, path[j])]
<1>1. Tables /\ DiskInv /\ TransferInv(t)
  BY DEF PathsInv
<1>2. /\ UNCHANGED <<picked, manifest, pc, retries, todo, item, seen, disk, foreign, raced>>
      /\ pc[t] = "allocate" /\ \E it \in DOMAIN manifest[t] : manifest[t][it][1] = source
      /\ source \notin DOMAIN roots[t]
  BY DEF Allocate, scanned, directory
<1>3. PICK i \in 0..MaxSuffix :
         /\ Free(t, Suffixed(Named(Clean, source), i))
         /\ roots' = [roots EXCEPT ![t] =
                        Over([s \in {source} |-> Suffixed(Named(Clean, source), i)], @)]
         /\ final' = [final EXCEPT ![t] =
                        Over([it \in its |-> Target(Suffixed(Named(Clean, source), i),
                                                    cleaned(manifest[t][it]))], @)]
  BY DEF Allocate, Unique
<1> DEFINE root == Suffixed(Named(Clean, source), i)
<1>4. /\ picked[t] \in Selections /\ manifest[t] = Scanned(picked[t])
      /\ DOMAIN manifest[t] = Items(picked[t])
  BY <1>1, <1>2 DEF Tables, TransferInv, SenderInv, Scanned
<1>5. root \in Names
  <2>1. source \in Names
    BY <1>2, <1>4, ScannedFacts
  <2>2. i \in Nat
    BY FinalPathsAssumption
  <2> QED BY <2>1, <2>2, Functions4, NamedFacts, SuffixedFacts
<1> DEFINE new == [it \in its |-> Target(root, cleaned(manifest[t][it]))]
<1>6. /\ roots'[t] = Over([s \in {source} |-> root], roots[t]) /\ final'[t] = Over(new, final[t])
      /\ \A u \in Transfers \ {t} : roots'[u] = roots[u] /\ final'[u] = final[u]
      /\ Tables'
  BY <1>1, <1>2, <1>3 DEF Tables, IsTable
<1>7. \A it \in its :
         /\ it \in Items(picked[t]) /\ RootOf(t, it) = source
         /\ Len(it) = 1 => new[it] = <<root>>
         /\ Len(it) = 2 => new[it] = <<root, Named(Clean, Named(Safe, it[2]))>>
  <2> SUFFICES ASSUME NEW it \in its
               PROVE  /\ it \in Items(picked[t]) /\ RootOf(t, it) = source
                      /\ Len(it) = 1 => new[it] = <<root>>
                      /\ Len(it) = 2 => new[it] = <<root, Named(Clean, Named(Safe, it[2]))>>
    OBVIOUS
  <2> DEFINE path == manifest[t][it]
             RO == Roots(picked[t])[it[1]]
             N == Named(Safe, it[2])
  <2>1. /\ it \in Items(picked[t]) /\ path[1] = source /\ path[1] = RO
        /\ Len(it) = 1 => path = <<RO>>
        /\ Len(it) = 2 => path = <<RO, N>>
    BY <1>4, ScannedFacts
  <2>2. new[it] = Target(root, cleaned(path))
    OBVIOUS
  <2> HIDE DEF path, RO, N, new, root
  <2>3. \A a : Target(root, cleaned(<<a>>)) = <<root>>
    <3> SUFFICES ASSUME NEW a PROVE Target(root, cleaned(<<a>>)) = <<root>>
      OBVIOUS
    <3>1. cleaned(<<a>>) = <<Named(Clean, a)>>
      <4>1. DOMAIN <<a>> = 1..1
        OBVIOUS
      <4>2. [j \in 1..1 |-> Named(Clean, <<a>>[j])] = <<Named(Clean, a)>>
        OBVIOUS
      <4> QED BY <4>1, <4>2
    <3>2. \A b : [<<b>> EXCEPT ![1] = root] = <<root>>
      OBVIOUS
    <3> QED BY <3>1, <3>2 DEF Target
  <2>4. \A a, b : Target(root, cleaned(<<a, b>>)) = <<root, Named(Clean, b)>>
    <3> SUFFICES ASSUME NEW a, NEW b
                 PROVE  Target(root, cleaned(<<a, b>>)) = <<root, Named(Clean, b)>>
      OBVIOUS
    <3>1. cleaned(<<a, b>>) = <<Named(Clean, a), Named(Clean, b)>>
      <4>1. DOMAIN <<a, b>> = 1..2
        OBVIOUS
      <4>2. [j \in 1..2 |-> Named(Clean, <<a, b>>[j])] = <<Named(Clean, a), Named(Clean, b)>>
        OBVIOUS
      <4> QED BY <4>1, <4>2
    <3>2. \A c, d : [<<c, d>> EXCEPT ![1] = root] = <<root, d>>
      OBVIOUS
    <3> QED BY <3>1, <3>2 DEF Target
  <2>5. RootOf(t, it) = source
    BY <2>1 DEF RootOf, RO
  <2> QED BY <2>1, <2>2, <2>3, <2>4, <2>5 DEF N
<1>8. /\ <<Named(Fold, root)>> \notin DOMAIN disk
      /\ \A s \in DOMAIN roots[t] : Named(Fold, root) # Named(Fold, roots[t][s])
  <2>1. Free(t, root)
    BY <1>3
  <2> HIDE DEF root
  <2>2. \A r : Folded(<<r>>) = <<Named(Fold, r)>>
    BY FoldedFacts
  <2>3. \A s \in DOMAIN roots[t] : roots[t][s] \in Range(roots[t])
    BY DEF Range
  <2> QED BY <2>1, <2>2, <2>3 DEF Free, Exists
<1> HIDE DEF root, new, its
<1>9. /\ DOMAIN roots'[t] = {source} \cup DOMAIN roots[t] /\ roots'[t][source] = root
      /\ \A s \in DOMAIN roots[t] : roots'[t][s] = roots[t][s]
  BY <1>2, <1>6 DEF Over
<1>10. DOMAIN final'[t] = its \cup DOMAIN final[t]
       /\ \A it \in DOMAIN final'[t] :
             final'[t][it] = IF it \in its THEN new[it] ELSE final[t][it]
  BY <1>6 DEF Over, new
<1>11. NamesInv(t)'
  <2>1. NamesInv(t)
    BY <1>1 DEF TransferInv
  <2>2. \A s \in DOMAIN roots'[t] : roots'[t][s] \in Names
    BY <1>5, <1>9, <2>1 DEF NamesInv
  <2>3. \A r, s \in DOMAIN roots'[t] :
           Named(Fold, roots'[t][r]) = Named(Fold, roots'[t][s]) => r = s
    <3>1. \A r, s \in DOMAIN roots[t] :
             Named(Fold, roots[t][r]) = Named(Fold, roots[t][s]) => r = s
      BY <2>1 DEF NamesInv
    <3> QED BY <1>8, <1>9, <3>1
  <2>4. DOMAIN final'[t] \subseteq Items(picked[t])
    BY <1>7, <1>10, <2>1 DEF NamesInv
  <2>5. ASSUME NEW it \in DOMAIN final'[t]
        PROVE  /\ RootOf(t, it) \in DOMAIN roots'[t]
               /\ Len(it) = 1 => final'[t][it] = <<roots'[t][RootOf(t, it)]>>
               /\ Len(it) = 2 => final'[t][it] =
                     <<roots'[t][RootOf(t, it)], Named(Clean, Named(Safe, it[2]))>>
    <3>1. CASE it \in its
      BY <1>7, <1>9, <1>10, <3>1
    <3>2. CASE it \notin its
      <4>1. it \in DOMAIN final[t] /\ final'[t][it] = final[t][it]
        BY <1>10, <3>2
      <4>2. /\ RootOf(t, it) \in DOMAIN roots[t]
            /\ Len(it) = 1 => final[t][it] = <<roots[t][RootOf(t, it)]>>
            /\ Len(it) = 2 => final[t][it] =
                  <<roots[t][RootOf(t, it)], Named(Clean, Named(Safe, it[2]))>>
        BY <2>1, <4>1 DEF NamesInv
      <4> QED BY <1>9, <4>1, <4>2
    <3> QED BY <3>1, <3>2
  <2>6. \A it : RootOf(t, it)' = RootOf(t, it)
    BY <1>2 DEF RootOf
  <2> QED BY <1>2, <2>2, <2>3, <2>4, <2>5, <2>6 DEF NamesInv
<1>12. OwnInv(t)'
  <2> SUFFICES ASSUME NEW q \in DOMAIN disk, disk[q].by = t,
                      NEW s \in DOMAIN roots'[t], q[1] = Named(Fold, roots'[t][s])
               PROVE  FALSE
    BY <1>2 DEF OwnInv
  <2>1. CASE s = source
    BY <1>1, <1>8, <1>9, <2>1 DEF DiskInv
  <2>2. CASE s \in DOMAIN roots[t]
    BY <1>1, <1>2, <1>9, <2>2 DEF TransferInv, OwnInv
  <2> QED BY <1>9, <2>1, <2>2
<1>13. TransferInv(t)'
  <2>1. SenderInv(t)' /\ TodoInv(t)'
    BY <1>1, <1>2 DEF TransferInv, SenderInv, TodoInv
  <2>2. PlacedInv(t)' /\ SeenInv(t)' /\ CauseInv(t)'
    BY <1>2 DEF PlacedInv, SeenInv, CauseInv
  <2> QED BY <1>11, <1>12, <2>1, <2>2 DEF TransferInv
<1>14. DiskInv'
  BY <1>1, <1>2 DEF DiskInv
<1>15. \A u \in Transfers \ {t} : Still(u) /\ Spares(u)
  BY <1>2, <1>6, DiskStays DEF Still
<1> QED BY <1>6, <1>13, <1>14, <1>15, OneRow

LEMMA PathsInvKept == PathsInv /\ [Next]_vars => PathsInv'
<1> SUFFICES ASSUME PathsInv, [Next]_vars PROVE PathsInv'
  OBVIOUS
<1>1. CASE UNCHANGED vars
  <2>1. UNCHANGED <<picked, manifest, pc, retries, roots, final, todo, item, seen, disk, foreign, raced>>
    BY <1>1 DEF vars, scanned, directory
  <2>2. \A t \in Transfers : Still(t) /\ Spares(t)
    BY <2>1, DiskStays DEF Still
  <2>3. Tables' /\ DiskInv'
    BY <2>1 DEF PathsInv, Tables, IsTable, DiskInv
  <2> QED BY <2>2, <2>3, OthersKeep DEF PathsInv
<1>2. ASSUME NEW t \in Transfers, Step(t) PROVE PathsInv'
  BY <1>2, ScanKeeps, CompleteKeeps, RenameKeeps, FinishKeeps, RetryKeeps, MakeFolderKeeps,
     CheckKeeps, AllocateKeeps DEF Step
<1>3. ASSUME NEW w \in Words, Foreign(w) PROVE PathsInv'
  BY <1>3, ForeignKeeps
<1> QED BY <1>1, <1>2, <1>3 DEF Next

-----------------------------------------------------------------------------
(* The theorems.                                                           *)

LEMMA AlwaysPathsInv == Spec => []PathsInv
<1> QED BY PathsInvStart, PathsInvKept, PTL DEF Spec

(* The manifest, the allocated paths and the list of finalize_incoming are *)
(* of the items that were picked, and only a file that is neither renamed  *)
(* nor a folder is being renamed.                                          *)
THEOREM TypesKept == Spec => []TypeOK
<1>1. PathsInv => TypeOK
  <2> SUFFICES ASSUME PathsInv PROVE TypeOK
    OBVIOUS
  <2>1. ASSUME NEW t \in Transfers
        PROVE  /\ DOMAIN manifest[t] = IF pc[t] \in {"scan", "refused"} THEN {} ELSE Items(picked[t])
               /\ DOMAIN final[t] \subseteq Items(picked[t])
               /\ todo[t] \subseteq Items(picked[t])
               /\ (pc[t] = "rename") <=> (item[t] \in todo[t] \ Directories(t))
    <3>1. SenderInv(t) /\ NamesInv(t) /\ TodoInv(t) /\ picked[t] \in Selections
      BY DEF PathsInv, TransferInv, Tables
    <3>2. DOMAIN manifest[t] = IF pc[t] \in {"scan", "refused"} THEN {} ELSE Items(picked[t])
      BY <3>1 DEF SenderInv, Scanned, Empty
    <3>3. NoItem \notin Items(picked[t])
      BY <3>1, ItemsFacts
    <3> QED BY <3>1, <3>2, <3>3 DEF NamesInv, TodoInv
  <2> QED BY <2>1 DEF PathsInv, Tables, DiskInv, TypeOK
<1> QED BY <1>1, AlwaysPathsInv, PTL

(* A file of another program stays, and so does every file of a transfer   *)
(* that ended well, at a place of its own, unless it appeared between      *)
(* finalize_incoming's check of a name and its rename to it.               *)
THEOREM FilesAreKept == Spec => []Kept
<1>1. PathsInv => Kept
  <2> SUFFICES ASSUME PathsInv PROVE Kept
    OBVIOUS
  <2>1. \A q \in foreign \ raced : disk[q].by = Program
    BY DEF PathsInv, DiskInv
  <2>2. ASSUME NEW t \in Transfers, pc[t] = "done", NEW it \in Items(picked[t])
        PROVE  \/ Folded(final[t][it]) \in raced
               \/ disk[Folded(final[t][it])].kind = "folder"
               \/ disk[Folded(final[t][it])] = [by |-> t, kind |-> "file", item |-> it]
    <3>1. PlacedInv(t) /\ todo[t] = {}
      BY <2>2 DEF PathsInv, TransferInv, TodoInv
    <3> QED BY <2>2, <3>1 DEF PlacedInv, Key
  <2> QED BY <2>1, <2>2 DEF Kept
<1> QED BY <1>1, AlwaysPathsInv, PTL

(* A manifest is refused, or an attempt fails on a name, only for names    *)
(* that become one inside a folder, files of one name picked on Android,   *)
(* or somebody else's file at an allocated path.                           *)
THEOREM FailsOnlyForCause == Spec => []FailsForCause
<1>1. PathsInv => FailsForCause
  <2> SUFFICES ASSUME PathsInv, NEW t \in Transfers
               PROVE  /\ pc[t] = "refused" => Merge(t, Safe) \/ PickedTwice(t)
                      /\ pc[t] = "failed" =>
                            \/ Merge(t, Received)
                            \/ \E it \in Items(picked[t]) :
                                  Exists(final[t][it]) /\ disk[Folded(final[t][it])].by # t
    BY DEF FailsForCause
  <2>1. picked[t] \in Selections /\ SenderInv(t) /\ CauseInv(t)
    BY DEF PathsInv, Tables, TransferInv
  <2>2. ASSUME pc[t] = "refused" PROVE Merge(t, Safe) \/ PickedTwice(t)
    BY <2>1, <2>2, RefusedForCause DEF SenderInv, Merge, PickedTwice
  <2>3. ASSUME pc[t] = "failed"
        PROVE  \/ Merge(t, Received)
               \/ \E it \in Items(picked[t]) :
                     Exists(final[t][it]) /\ disk[Folded(final[t][it])].by # t
    BY <2>1, <2>3 DEF CauseInv, Key, Exists
  <2> QED BY <2>2, <2>3
<1> QED BY <1>1, AlwaysPathsInv, PTL
=============================================================================
