-------------------------- MODULE ChunkPlanProofs --------------------------
(***************************************************************************)
(* The four properties of ChunkPlan for every width of words and bytes,    *)
(* every size of file and chunk and every order of calls.                  *)
(*                                                                         *)
(* The arithmetic of a plan is in CeilFacts and SpecFacts.  What the loops *)
(* compute is given in closed form: MapOf is the map of a set of chunks,   *)
(* BytesOf the bytes of one, and each is shown to be what the fold         *)
(* computes, by a least counterexample.  MapInv then says that the map is  *)
(* the map of a set of stored rows.                                        *)
(***************************************************************************)
EXTENDS ChunkPlan, FiniteSetTheorems, WellFoundedInduction, TLAPS

-----------------------------------------------------------------------------
(* Arithmetic.                                                             *)

(* A number is a quotient and a remainder, and in one way only.            *)
LEMMA Quotient ==
    ASSUME NEW n \in Nat, NEW d \in Nat \ {0}
    PROVE  /\ n \div d \in Nat /\ n % d \in 0..(d - 1)
           /\ n = d * (n \div d) + (n % d)
OBVIOUS

LEMMA QuotientUnique ==
    ASSUME NEW q \in Nat, NEW d \in Nat \ {0}, NEW r \in 0..(d - 1), NEW n, n = q * d + r
    PROVE  n \div d = q /\ n % d = r
OBVIOUS

LEMMA Neighbours ==
    ASSUME NEW a \in Int, NEW c \in Int
    PROVE  (a + 1) * c = a * c + c /\ (a - 1) * c = a * c - c
OBVIOUS

LEMMA TimesMonotone ==
    ASSUME NEW a \in Int, NEW b \in Int, NEW c \in Nat, a <= b
    PROVE  a * c <= b * c
OBVIOUS

(* Rounding up: enough pieces of d, and not one too many.                  *)
LEMMA CeilFacts ==
    ASSUME NEW n \in Nat, NEW d \in Nat \ {0}
    PROVE  /\ DivCeil(n, d) \in Nat
           /\ n <= DivCeil(n, d) * d
           /\ DivCeil(n, d) * d < n + d
<1> DEFINE m == n + d - 1
<1>1. m \in Nat
  OBVIOUS
<1>2. m \div d \in Nat /\ m % d \in 0..(d - 1) /\ m = d * (m \div d) + (m % d)
  BY <1>1, Quotient
<1>3. DivCeil(n, d) = m \div d
  BY DEF DivCeil
<1> QED BY <1>2, <1>3

(* The piece a number below n falls into.                                  *)
LEMMA PieceOf ==
    ASSUME NEW n \in Nat, NEW d \in Nat \ {0}, NEW i \in 0..(n - 1)
    PROVE  i \div d \in 0..(DivCeil(n, d) - 1) /\ i % d \in 0..(d - 1)
<1>1. i \in Nat /\ i \div d \in Nat /\ i % d \in 0..(d - 1) /\ i = d * (i \div d) + (i % d)
  <2>1. i \in Nat
    OBVIOUS
  <2> QED BY <2>1, Quotient
<1>2. DivCeil(n, d) \in Nat /\ n <= DivCeil(n, d) * d
  BY CeilFacts
<1>3. ASSUME DivCeil(n, d) <= i \div d PROVE FALSE
  <2>1. DivCeil(n, d) * d <= (i \div d) * d
    BY <1>1, <1>2, <1>3, TimesMonotone
  <2> QED BY <1>1, <1>2, <2>1
<1> QED BY <1>1, <1>2, <1>3

-----------------------------------------------------------------------------
(* Plans.                                                                  *)

(* The plan of a file that fits.                                           *)
Planned(p) ==
    \E size \in 0..MaxSize, chunk \in 1..MaxChunk : Fits(size, chunk) /\ p = NewPlan(size, chunk)

(* The last chunk is the one that may be short.                            *)
LEMMA PlanFacts ==
    ASSUME NEW p, Planned(p)
    PROVE  /\ p.size \in Nat /\ p.chunk \in 1..MaxChunk /\ p.count \in Nat
           /\ p.size <= p.count * p.chunk
           /\ p.count * p.chunk < p.size + p.chunk
<1>1. PICK size \in 0..MaxSize, chunk \in 1..MaxChunk : p = NewPlan(size, chunk)
  BY DEF Planned
<1>2. size \in Nat /\ chunk \in Nat \ {0}
  BY ChunkPlanAssumption
<1>3. p.size = size /\ p.chunk = chunk /\ p.count = DivCeil(size, chunk)
  BY <1>1 DEF NewPlan
<1> QED BY <1>2, <1>3, CeilFacts

LEMMA SpecFacts ==
    ASSUME NEW p, Planned(p), NEW i \in Indices(p)
    PROVE  LET s == ChunkSpec(p, i) IN
           /\ i \in Nat /\ s.index = i /\ s.offset = i * p.chunk /\ s.offset \in Nat
           /\ s.length \in 1..p.chunk
           /\ s.offset + s.length <= p.size
           /\ i # p.count - 1 => s.length = p.chunk
           /\ i = p.count - 1 => s.offset + s.length = p.size
<1>1. /\ p.size \in Nat /\ p.chunk \in Nat /\ p.chunk # 0 /\ p.count \in Nat
      /\ p.size <= p.count * p.chunk
      /\ p.count * p.chunk < p.size + p.chunk
  BY PlanFacts, ChunkPlanAssumption
<1>2. i \in Nat /\ i <= p.count - 1
  BY <1>1 DEF Indices
<1>3. i * p.chunk \in Nat /\ i * p.chunk <= (p.count - 1) * p.chunk
  BY <1>1, <1>2, TimesMonotone
<1>4. (p.count - 1) * p.chunk = p.count * p.chunk - p.chunk
  BY <1>1, Neighbours
<1>5. i * p.chunk < p.size
  BY <1>1, <1>3, <1>4
<1>6. ASSUME i # p.count - 1 PROVE p.size - i * p.chunk >= p.chunk
  <2>1. (i + 1) * p.chunk <= (p.count - 1) * p.chunk
    BY <1>1, <1>2, <1>6, TimesMonotone
  <2>2. (i + 1) * p.chunk = i * p.chunk + p.chunk
    <3>1. i \in Int /\ p.chunk \in Int
      BY <1>1, <1>2
    <3> QED BY <3>1, Neighbours
  <2> QED BY <1>1, <1>3, <1>4, <2>1, <2>2
<1>7. ASSUME i = p.count - 1 PROVE p.size - i * p.chunk <= p.chunk
  BY <1>1, <1>3, <1>4, <1>7
<1> DEFINE o == i * p.chunk
<1>8. ChunkSpec(p, i) = [index |-> i, offset |-> o, length |-> IF p.size - o < p.chunk THEN p.size - o ELSE p.chunk]
  BY DEF ChunkSpec, Least
<1>9. o \in Nat /\ o < p.size /\ (i # p.count - 1 => p.size - o >= p.chunk)
      /\ (i = p.count - 1 => p.size - o <= p.chunk)
  BY <1>3, <1>5, <1>6, <1>7
<1> HIDE DEF o
<1> QED BY <1>1, <1>2, <1>8, <1>9 DEF o

(* The chunk a byte of the file is in.                                     *)
LEMMA ChunkOfByte ==
    ASSUME NEW p, Planned(p), NEW b \in 0..(p.size - 1), NEW i \in Indices(p)
    PROVE  ChunkSpec(p, i).offset <= b /\ b < ChunkSpec(p, i).offset + ChunkSpec(p, i).length
               <=> i = b \div p.chunk
<1>1. /\ p.size \in Nat /\ p.chunk \in Nat \ {0} /\ p.count \in Nat
      /\ p.size <= p.count * p.chunk
  BY PlanFacts, ChunkPlanAssumption
<1> DEFINE o == ChunkSpec(p, i).offset
           l == ChunkSpec(p, i).length
<1>2. /\ i \in Nat /\ o = i * p.chunk /\ o \in Nat /\ l \in 1..p.chunk
      /\ i # p.count - 1 => l = p.chunk
      /\ i = p.count - 1 => o + l = p.size
  BY SpecFacts
<1>3. b \in Nat /\ b < p.size
  BY <1>1
<1> HIDE DEF o, l
<1>4. ASSUME o <= b, b < o + l PROVE i = b \div p.chunk
  <2>1. b - o \in 0..(p.chunk - 1) /\ b = i * p.chunk + (b - o)
    BY <1>1, <1>2, <1>3, <1>4
  <2> QED BY <1>1, <1>2, <2>1, QuotientUnique
<1>5. ASSUME i = b \div p.chunk PROVE o <= b /\ b < o + l
  <2>1. b % p.chunk \in 0..(p.chunk - 1) /\ b = p.chunk * i + (b % p.chunk)
    BY <1>1, <1>3, <1>5, Quotient
  <2>2. p.chunk * i = o
    BY <1>1, <1>2
  <2>3. o <= b /\ b < o + p.chunk
    BY <1>1, <1>2, <1>3, <2>1, <2>2
  <2> QED BY <1>1, <1>2, <1>3, <2>3
<1> QED BY <1>4, <1>5 DEF o, l

(* The plan of a file never changes.                                       *)
LEMMA PlanKept == Spec => []Planned(plan)
<1>1. Init => Planned(plan)
  BY DEF Init, Planned
<1>2. Planned(plan) /\ [Next]_vars => Planned(plan)'
  <2> SUFFICES ASSUME Planned(plan), [Next]_vars PROVE Planned(plan)'
    OBVIOUS
  <2>1. plan' = plan
    BY DEF Next, Arrive, Rebuild, Resume, vars
  <2> QED BY <2>1 DEF Planned
<1> QED BY <1>1, <1>2, PTL DEF Spec

(* Every byte of a file is in exactly one chunk of its plan, no chunk is   *)
(* empty or too long, and none goes beyond the end.                        *)
THEOREM ChunksTile == Spec => []Tiles
<1>1. ASSUME Planned(plan) PROVE Tiles
  <2>1. /\ plan.size \in Nat /\ plan.chunk \in Nat \ {0} /\ plan.count \in Nat
        /\ plan.size <= plan.count * plan.chunk
    BY <1>1, PlanFacts, ChunkPlanAssumption
  <2>2. ASSUME NEW b \in 0..(plan.size - 1)
        PROVE Cardinality({i \in Indices(plan) :
                 LET s == ChunkSpec(plan, i) IN s.offset <= b /\ b < s.offset + s.length}) = 1
    <3> DEFINE q == b \div plan.chunk
    <3>1. b \in Nat /\ b < plan.size
      BY <2>1
    <3>2. q \in Nat /\ b = plan.chunk * q + (b % plan.chunk) /\ b % plan.chunk \in Nat
      <4>1. /\ b \div plan.chunk \in Nat /\ b % plan.chunk \in 0..(plan.chunk - 1)
            /\ b = plan.chunk * (b \div plan.chunk) + (b % plan.chunk)
        BY <2>1, <3>1, Quotient
      <4>2. b % plan.chunk \in Nat
        BY <2>1, <4>1
      <4> QED BY <4>1, <4>2
    <3> HIDE DEF q
    <3>3. q < plan.count
      <4>1. ASSUME plan.count <= q PROVE FALSE
        <5>1. plan.count * plan.chunk <= q * plan.chunk
          BY <2>1, <3>2, <4>1, TimesMonotone
        <5>2. q * plan.chunk = plan.chunk * q /\ q * plan.chunk \in Nat
          BY <2>1, <3>2
        <5> QED BY <2>1, <3>1, <3>2, <5>1, <5>2
      <4> QED BY <2>1, <3>2, <4>1
    <3>4. q \in Indices(plan)
      BY <2>1, <3>2, <3>3 DEF Indices
    <3>5. {i \in Indices(plan) :
              LET s == ChunkSpec(plan, i) IN s.offset <= b /\ b < s.offset + s.length} = {q}
      BY <1>1, <3>4, ChunkOfByte DEF q
    <3> QED BY <3>5, FS_Singleton
  <2>3. \A i \in Indices(plan) :
           ChunkSpec(plan, i).length \in 1..plan.chunk
           /\ ChunkSpec(plan, i).offset + ChunkSpec(plan, i).length <= plan.size
    BY <1>1, SpecFacts
  <2> QED BY <2>2, <2>3 DEF Tiles
<1> QED BY <1>1, PlanKept, PTL

(* A header passes the receiver's tests when it is that of a chunk of the  *)
(* plan, and only then.                                                    *)
THEOREM HeadersAreExact == Spec => []HeaderExact
<1>1. ASSUME Planned(plan) PROVE HeaderExact
  <2> SUFFICES ASSUME NEW h \in [index : 0..(plan.count + 1), offset : 0..(plan.size + 1), length : 0..(MaxChunk + 1)]
               PROVE  Accepts(plan, h) <=> h.index < plan.count /\ h = ChunkSpec(plan, h.index)
    BY DEF HeaderExact
  <2>1. /\ plan.size \in Nat /\ plan.chunk \in 1..MaxChunk /\ plan.count \in Nat
    BY <1>1, PlanFacts
  <2>2. h.index < plan.count => h.index \in Indices(plan)
    BY <2>1 DEF Indices
  <2>3. h = [index |-> h.index, offset |-> h.offset, length |-> h.length]
    OBVIOUS
  <2>4. ASSUME Accepts(plan, h) PROVE h.index < plan.count /\ h = ChunkSpec(plan, h.index)
    BY <2>3, <2>4 DEF Accepts, ChunkSpec
  <2>5. ASSUME h.index < plan.count, h = ChunkSpec(plan, h.index) PROVE Accepts(plan, h)
    <3>1. h.length \in 1..plan.chunk /\ h.offset + h.length <= plan.size
      BY <1>1, <2>2, <2>5, SpecFacts
    <3>2. h.length # 0 /\ h.length <= MaxChunk
      BY <2>1, <3>1, ChunkPlanAssumption
    <3> QED BY <2>5, <3>1, <3>2 DEF Accepts
  <2> QED BY <2>4, <2>5
<1> QED BY <1>1, PlanKept, PTL

-----------------------------------------------------------------------------
(* Resume maps.                                                            *)

(* The chunks of a plan by their number.                                   *)
Below(count) == 0..(count - 1)

(* The map of a set of chunks.                                             *)
MapOf(count, T) ==
    [words     |-> [w \in 0..(DivCeil(count, WordBits) - 1) |->
                       {k \in 0..(WordBits - 1) : w * WordBits + k \in T}],
     completed |-> Cardinality(T)]

(* The one word and bit of a chunk.                                        *)
LEMMA PlaceOf ==
    ASSUME NEW d \in Nat \ {0}, NEW w \in Nat, NEW k \in 0..(d - 1), NEW i \in Nat
    PROVE  w * d + k = i <=> w = i \div d /\ k = i % d
<1>1. ASSUME w * d + k = i PROVE w = i \div d /\ k = i % d
  BY <1>1, QuotientUnique
<1>2. ASSUME w = i \div d, k = i % d PROVE w * d + k = i
  <2>1. i = d * w + k
    BY <1>2, Quotient
  <2> QED BY <2>1
<1> QED BY <1>1, <1>2

LEMMA Widths == WordBits \in Nat \ {0} /\ ByteBits \in Nat \ {0} /\ MaxChunk \in Nat \ {0}
BY ChunkPlanAssumption

LEMMA BelowFinite ==
    ASSUME NEW count \in Nat, NEW T \in SUBSET Below(count)
    PROVE  IsFiniteSet(T) /\ Cardinality(T) \in Nat
<1>1. IsFiniteSet(0..(count - 1))
  BY FS_Interval
<1>2. IsFiniteSet(T)
  BY <1>1, FS_Subset DEF Below
<1> QED BY <1>2, FS_CardinalityType

(* contains answers whether the chunk is in the set, for any number.       *)
LEMMA ContainsMeans ==
    ASSUME NEW count \in Nat, NEW T \in SUBSET Below(count), NEW i \in Nat
    PROVE  /\ Contains(MapOf(count, T), count, i) <=> i \in T
           /\ i < count => (i % WordBits \in MapOf(count, T).words[i \div WordBits] <=> i \in T)
<1>1. CASE i < count
  <2>1. i \in 0..(count - 1)
    BY <1>1
  <2>2. i \div WordBits \in 0..(DivCeil(count, WordBits) - 1) /\ i % WordBits \in 0..(WordBits - 1)
    BY <2>1, PieceOf, Widths
  <2>3. i \div WordBits \in Nat
    BY Quotient, Widths
  <2>4. (i \div WordBits) * WordBits + (i % WordBits) = i
    BY <2>2, <2>3, PlaceOf, Widths
  <2>5. MapOf(count, T).words[i \div WordBits] =
          {k \in 0..(WordBits - 1) : (i \div WordBits) * WordBits + k \in T}
    BY <2>2 DEF MapOf
  <2> QED BY <1>1, <2>2, <2>4, <2>5 DEF Contains
<1>2. CASE ~(i < count)
  BY <1>2 DEF Contains, Below
<1> QED BY <1>1, <1>2

LEMMA NewMapMeans ==
    ASSUME NEW count \in Nat
    PROVE  NewMap(count) = MapOf(count, {})
BY FS_EmptySet DEF NewMap, MapOf

(* mark_complete adds one chunk, and counts it once.                       *)
LEMMA MarkedMeans ==
    ASSUME NEW count \in Nat, NEW T \in SUBSET Below(count), NEW i \in 0..(count - 1)
    PROVE  Marked(MapOf(count, T), i) = MapOf(count, T \cup {i})
<1>0. i \in Nat /\ i < count
  OBVIOUS
<1>1. i % WordBits \in MapOf(count, T).words[i \div WordBits] <=> i \in T
  BY <1>0, ContainsMeans
<1>2. CASE i \in T
  <2>1. T \cup {i} = T
    BY <1>2
  <2> QED BY <1>1, <1>2, <2>1 DEF Marked
<1>3. CASE i \notin T
  <2> DEFINE words  == MapOf(count, T).words
             words2 == MapOf(count, T \cup {i}).words
             D      == 0..(DivCeil(count, WordBits) - 1)
  <2>1. DivCeil(count, WordBits) \in Nat
    BY CeilFacts, Widths
  <2>2. ASSUME NEW w \in D, NEW k \in 0..(WordBits - 1)
        PROVE  w * WordBits + k = i <=> w = i \div WordBits /\ k = i % WordBits
    <3>1. w \in Nat
      BY <2>1
    <3> QED BY <1>0, <3>1, PlaceOf, Widths DEF Below
  <2>3. i \div WordBits \in D /\ i % WordBits \in 0..(WordBits - 1)
    BY PieceOf, Widths
  <2>4. ASSUME NEW w \in D
        PROVE  words2[w] = IF w = i \div WordBits THEN words[w] \cup {i % WordBits} ELSE words[w]
    <3>1. /\ words[w] = {k \in 0..(WordBits - 1) : w * WordBits + k \in T}
          /\ words2[w] = {k \in 0..(WordBits - 1) : w * WordBits + k \in T \cup {i}}
      BY DEF MapOf
    <3> HIDE DEF words, words2
    <3>2. CASE w = i \div WordBits
      BY <2>2, <2>3, <3>1, <3>2
    <3>3. CASE w # i \div WordBits
      BY <2>2, <3>1, <3>3
    <3> QED BY <3>2, <3>3
  <2>5. words = [w \in D |-> words[w]] /\ words2 = [w \in D |-> words2[w]]
    BY DEF MapOf
  <2>6. words2 = [words EXCEPT ![i \div WordBits] = @ \cup {i % WordBits}]
    <3> HIDE DEF words, words2, D
    <3> QED BY <2>3, <2>4, <2>5
  <2>7. Cardinality(T \cup {i}) = Cardinality(T) + 1
    <3>1. IsFiniteSet(T)
      BY BelowFinite
    <3> QED BY <1>3, <3>1, FS_AddElement
  <2>8. Marked(MapOf(count, T), i) =
          [words |-> [words EXCEPT ![i \div WordBits] = @ \cup {i % WordBits}], completed |-> Cardinality(T) + 1]
    BY <1>1, <1>3 DEF Marked, MapOf
  <2>9. MapOf(count, T \cup {i}) = [words |-> words2, completed |-> Cardinality(T \cup {i})]
    BY DEF MapOf
  <2> QED BY <2>6, <2>7, <2>8, <2>9
<1> QED BY <1>2, <1>3

-----------------------------------------------------------------------------
(* The folds.                                                              *)

(* A set of finite sets that is not empty has one of the fewest elements.  *)
LEMMA FewestOne ==
    ASSUME NEW S, IsFiniteSet(S)
    PROVE  \A F \in SUBSET (SUBSET S) :
              F # {} => \E s \in F : \A t \in F : ~(t \subseteq s /\ t # s)
<1> SUFFICES ASSUME NEW F \in SUBSET (SUBSET S), F # {}
             PROVE  \E s \in F : \A t \in F : ~(t \subseteq s /\ t # s)
  OBVIOUS
<1>1. IsWellFoundedOn(StrictSubsetOrdering(S), FiniteSubsetsOf(S))
  BY FS_StrictSubsetOrderingWellFounded
<1>2. FiniteSubsetsOf(S) = SUBSET S
  BY FS_FiniteSubsetsOfFinite
<1>3. PICK s \in F : \A t \in F : ~(<<t, s>> \in StrictSubsetOrdering(S))
  BY <1>1, <1>2, WFMin
<1>4. ASSUME NEW t \in F, t \subseteq s, t # s PROVE FALSE
  BY <1>3, <1>4 DEF StrictSubsetOrdering
<1> QED BY <1>4

(* The recursion of MarkedAll.                                             *)
MarksAll(f, m, S) ==
    f = [s \in SUBSET S |->
            IF s = {} THEN m ELSE LET x == CHOOSE y \in s : TRUE IN Marked(f[s \ {x}], x)]

(* What a loop over mark_complete leaves: the map of the chunks it went    *)
(* over, in whatever order.                                                *)
LEMMA MarkedAllMeans ==
    ASSUME NEW count \in Nat, NEW S \in SUBSET Below(count)
    PROVE  MarkedAll(NewMap(count), S) = MapOf(count, S)
<1>0. \A F \in SUBSET (SUBSET S) : F # {} => \E s \in F : \A t \in F : ~(t \subseteq s /\ t # s)
  <2>1. IsFiniteSet(S)
    BY BelowFinite
  <2> QED BY <2>1, FewestOne
<1> DEFINE m    == NewMap(count)
           g    == [s \in SUBSET S |-> MapOf(count, s)]
           f    == CHOOSE f : MarksAll(f, m, S)
           Wrong == {s \in SUBSET S : f[s] # MapOf(count, s)}
<1>1. ASSUME NEW s \in SUBSET S, s # {}
      PROVE  LET x == CHOOSE y \in s : TRUE IN
             x \in s /\ s \ {x} \in SUBSET S /\ Marked(MapOf(count, s \ {x}), x) = MapOf(count, s)
  <2> DEFINE x == CHOOSE y \in s : TRUE
  <2>1. x \in s
    BY <1>1
  <2> HIDE DEF x
  <2>2. s \ {x} \in SUBSET Below(count) /\ x \in 0..(count - 1) /\ (s \ {x}) \cup {x} = s
    BY <2>1 DEF Below
  <2>3. Marked(MapOf(count, s \ {x}), x) = MapOf(count, s)
    BY <2>2, MarkedMeans
  <2> QED BY <2>1, <2>3 DEF x
<1>2. MarksAll(g, m, S)
  <2>1. ASSUME NEW s \in SUBSET S
        PROVE  g[s] = IF s = {} THEN m ELSE LET x == CHOOSE y \in s : TRUE IN Marked(g[s \ {x}], x)
    <3>1. CASE s = {}
      BY <3>1, NewMapMeans
    <3>2. CASE s # {}
      BY <1>1, <3>2
    <3> QED BY <3>1, <3>2
  <2> HIDE DEF m
  <2>2. g = [s \in SUBSET S |->
              IF s = {} THEN m ELSE LET x == CHOOSE y \in s : TRUE IN Marked(g[s \ {x}], x)]
    BY <2>1
  <2> HIDE DEF g
  <2> QED BY <2>2 DEF MarksAll
<1>3. MarksAll(f, m, S)
  BY <1>2
<1>4. MarkedAll(m, S) = f[S]
  BY DEF MarkedAll, FoldSet, MapThenFoldSet, MarksAll
<1> HIDE DEF f, m
<1>5. ASSUME Wrong # {} PROVE FALSE
  <2>1. PICK s \in Wrong : \A t \in Wrong : ~(t \subseteq s /\ t # s)
    <3>2. Wrong \in SUBSET (SUBSET S)
      OBVIOUS
    <3> HIDE DEF Wrong
    <3> QED BY <1>0, <1>5, <3>2
  <2>2. s \in SUBSET S /\ f[s] # MapOf(count, s)
    OBVIOUS
  <2>3. f[s] = IF s = {} THEN m ELSE LET x == CHOOSE y \in s : TRUE IN Marked(f[s \ {x}], x)
    BY <1>3, <2>2 DEF MarksAll
  <2>4. CASE s = {}
    BY <2>2, <2>3, <2>4, NewMapMeans DEF m
  <2>5. CASE s # {}
    <3> DEFINE x == CHOOSE y \in s : TRUE
    <3>1. x \in s /\ s \ {x} \in SUBSET S /\ Marked(MapOf(count, s \ {x}), x) = MapOf(count, s)
      BY <1>1, <2>2, <2>5
    <3>2. f[s] = Marked(f[s \ {x}], x)
      BY <2>3, <2>5
    <3> HIDE DEF x
    <3>3. s \ {x} \notin Wrong
      BY <2>1, <3>1
    <3>4. f[s \ {x}] = MapOf(count, s \ {x})
      BY <3>1, <3>3
    <3> QED BY <2>2, <3>1, <3>2, <3>4
  <2> QED BY <2>4, <2>5
<1> QED BY <1>4, <1>5 DEF m

(* The bytes of a set of chunks: whole ones, and perhaps the last.         *)
BytesOf(p, S) ==
    Cardinality(S) * p.chunk - (IF p.count - 1 \in S THEN p.count * p.chunk - p.size ELSE 0)

(* One chunk more.                                                         *)
LEMMA BytesOfOneMore ==
    ASSUME NEW p, Planned(p), NEW S \in SUBSET Indices(p), NEW x \in S
    PROVE  ChunkSpec(p, x).length + BytesOf(p, S \ {x}) = BytesOf(p, S)
<1>1. /\ p.size \in Nat /\ p.chunk \in Nat \ {0} /\ p.count \in Nat
  BY PlanFacts, ChunkPlanAssumption
<1>2. S \in SUBSET (0..(p.count - 1)) /\ S \ {x} \in SUBSET (0..(p.count - 1)) /\ x \in Indices(p)
  BY DEF Indices
<1>3. /\ Cardinality(S) \in Nat /\ Cardinality(S \ {x}) \in Nat
      /\ Cardinality(S \ {x}) = Cardinality(S) - 1
  BY <1>1, <1>2, BelowFinite, FS_RemoveElement DEF Below
<1> DEFINE l == ChunkSpec(p, x).length
           o == ChunkSpec(p, x).offset
<1>4. /\ x \in Nat /\ o = x * p.chunk /\ o \in Nat /\ l \in 1..p.chunk
      /\ x # p.count - 1 => l = p.chunk
      /\ x = p.count - 1 => o + l = p.size
  BY <1>2, SpecFacts
<1>5. Cardinality(S \ {x}) * p.chunk = Cardinality(S) * p.chunk - p.chunk
  BY <1>1, <1>3, Neighbours
<1> HIDE DEF l, o
<1>6. Cardinality(S) * p.chunk \in Int /\ p.count * p.chunk \in Int
  BY <1>1, <1>3
<1>7. CASE x = p.count - 1
  <2>1. o = p.count * p.chunk - p.chunk
    BY <1>1, <1>4, <1>7, Neighbours
  <2>2. BytesOf(p, S \ {x}) = Cardinality(S) * p.chunk - p.chunk
    <3>1. BytesOf(p, S \ {x}) = Cardinality(S \ {x}) * p.chunk - 0
      BY <1>7 DEF BytesOf
    <3> QED BY <1>1, <1>5, <1>6, <3>1
  <2>3. BytesOf(p, S) = Cardinality(S) * p.chunk - (p.count * p.chunk - p.size)
    BY <1>7 DEF BytesOf
  <2> QED BY <1>1, <1>4, <1>6, <1>7, <2>1, <2>2, <2>3 DEF l
<1>8. CASE x # p.count - 1
  <2> DEFINE rest == IF p.count - 1 \in S THEN p.count * p.chunk - p.size ELSE 0
  <2>1. BytesOf(p, S \ {x}) = Cardinality(S) * p.chunk - p.chunk - rest
    BY <1>5, <1>8 DEF BytesOf
  <2>2. BytesOf(p, S) = Cardinality(S) * p.chunk - rest
    BY DEF BytesOf
  <2>3. rest \in Int
    BY <1>1, <1>6
  <2> HIDE DEF rest
  <2> QED BY <1>1, <1>4, <1>6, <1>8, <2>1, <2>2, <2>3 DEF l
<1> QED BY <1>7, <1>8

(* The recursion of Bytes.                                                 *)
SumsBytes(f, p, S) ==
    f = [s \in SUBSET S |->
            IF s = {} THEN 0
            ELSE LET x == CHOOSE y \in s : TRUE IN ChunkSpec(p, x).length + f[s \ {x}]]

(* The sum of the lengths, in whatever order they are added.               *)
LEMMA BytesMeans ==
    ASSUME NEW p, Planned(p), NEW S \in SUBSET Indices(p)
    PROVE  Bytes(p, S) = BytesOf(p, S)
<1> DEFINE g    == [s \in SUBSET S |-> BytesOf(p, s)]
           f    == CHOOSE f : SumsBytes(f, p, S)
           Wrong == {s \in SUBSET S : f[s] # BytesOf(p, s)}
<1>0. p.chunk \in Nat /\ p.count \in Nat
  BY PlanFacts, ChunkPlanAssumption
<1>e. BytesOf(p, {}) = 0
  BY <1>0, FS_EmptySet DEF BytesOf
<1>1. ASSUME NEW s \in SUBSET S, s # {}
      PROVE  LET x == CHOOSE y \in s : TRUE IN
             x \in s /\ s \ {x} \in SUBSET S /\ ChunkSpec(p, x).length + BytesOf(p, s \ {x}) = BytesOf(p, s)
  <2> DEFINE x == CHOOSE y \in s : TRUE
  <2>1. x \in s
    BY <1>1
  <2> HIDE DEF x
  <2>2. s \in SUBSET Indices(p)
    OBVIOUS
  <2>3. ChunkSpec(p, x).length + BytesOf(p, s \ {x}) = BytesOf(p, s)
    BY <2>1, <2>2, BytesOfOneMore
  <2> QED BY <2>1, <2>3 DEF x
<1>2. SumsBytes(g, p, S)
  <2>1. ASSUME NEW s \in SUBSET S
        PROVE  g[s] = IF s = {} THEN 0
                      ELSE LET x == CHOOSE y \in s : TRUE IN ChunkSpec(p, x).length + g[s \ {x}]
    <3>1. CASE s = {}
      BY <1>e, <3>1
    <3>2. CASE s # {}
      BY <1>1, <3>2
    <3> QED BY <3>1, <3>2
  <2>2. g = [s \in SUBSET S |->
              IF s = {} THEN 0
              ELSE LET x == CHOOSE y \in s : TRUE IN ChunkSpec(p, x).length + g[s \ {x}]]
    BY <2>1
  <2> HIDE DEF g
  <2> QED BY <2>2 DEF SumsBytes
<1>3. SumsBytes(f, p, S)
  BY <1>2
<1>4. Bytes(p, S) = f[S]
  BY DEF Bytes, MapThenSumSet, MapThenFoldSet, SumsBytes
<1> HIDE DEF f
<1>5. ASSUME Wrong # {} PROVE FALSE
  <2>1. PICK s \in Wrong : \A t \in Wrong : ~(t \subseteq s /\ t # s)
    <3>1. IsFiniteSet(S)
      BY <1>0, BelowFinite DEF Indices, Below
    <3>2. Wrong \in SUBSET (SUBSET S)
      OBVIOUS
    <3>3. \A F \in SUBSET (SUBSET S) : F # {} => \E s \in F : \A t \in F : ~(t \subseteq s /\ t # s)
      BY <3>1, FewestOne
    <3> HIDE DEF Wrong
    <3> QED BY <1>5, <3>2, <3>3
  <2>2. s \in SUBSET S /\ f[s] # BytesOf(p, s)
    OBVIOUS
  <2>3. f[s] = IF s = {} THEN 0
               ELSE LET x == CHOOSE y \in s : TRUE IN ChunkSpec(p, x).length + f[s \ {x}]
    BY <1>3, <2>2 DEF SumsBytes
  <2>4. CASE s = {}
    BY <1>e, <2>2, <2>3, <2>4
  <2>5. CASE s # {}
    <3> DEFINE x == CHOOSE y \in s : TRUE
    <3>1. x \in s /\ s \ {x} \in SUBSET S /\ ChunkSpec(p, x).length + BytesOf(p, s \ {x}) = BytesOf(p, s)
      BY <1>1, <2>2, <2>5
    <3>2. f[s] = ChunkSpec(p, x).length + f[s \ {x}]
      BY <2>3, <2>5
    <3> HIDE DEF x
    <3>3. s \ {x} \notin Wrong
      BY <2>1, <3>1
    <3>4. f[s \ {x}] = BytesOf(p, s \ {x})
      BY <3>1, <3>3
    <3> QED BY <2>2, <3>1, <3>2, <3>4
  <2> QED BY <2>4, <2>5
<1> QED BY <1>4, <1>5

-----------------------------------------------------------------------------
(* The machine.                                                            *)

(* The map is that of a set of chunks whose rows are stored.               *)
MapInv ==
    /\ Planned(plan)
    /\ rows \subseteq 0..plan.count
    /\ \E T \in SUBSET (rows \cap Indices(plan)) : map = MapOf(plan.count, T)

LEMMA MapInvStart == Init => MapInv
<1> SUFFICES ASSUME Init PROVE MapInv
  OBVIOUS
<1>1. Planned(plan)
  BY DEF Init, Planned
<1>2. plan.count \in Nat
  BY <1>1, PlanFacts
<1>3. map = MapOf(plan.count, {})
  BY <1>2, NewMapMeans DEF Init
<1>4. rows \subseteq 0..plan.count
  BY <1>2 DEF Init
<1> QED BY <1>1, <1>3, <1>4 DEF MapInv

LEMMA MapInvStep == MapInv /\ [Next]_vars => MapInv'
<1> SUFFICES ASSUME MapInv, [Next]_vars PROVE MapInv'
  OBVIOUS
<1>1. plan' = plan /\ Planned(plan) /\ plan.count \in Nat
  BY PlanFacts DEF MapInv, Next, Arrive, Rebuild, Resume, vars
<1>2. PICK T \in SUBSET (rows \cap Indices(plan)) : map = MapOf(plan.count, T)
  BY DEF MapInv
<1>3. rows \subseteq 0..plan.count
  BY DEF MapInv
<1>4. ASSUME NEW index \in Indices(plan), Arrive(index) PROVE MapInv'
  <2>1. T \in SUBSET Below(plan.count) /\ index \in 0..(plan.count - 1)
    BY <1>2 DEF Indices, Below
  <2>2. map' = MapOf(plan.count, T \cup {index})
    BY <1>1, <1>2, <1>4, <2>1, MarkedMeans DEF Arrive
  <2>3. rows' = rows \cup {index} /\ rows' \subseteq 0..plan.count
    BY <1>1, <1>3, <1>4, <2>1 DEF Arrive
  <2>4. T \cup {index} \in SUBSET (rows' \cap Indices(plan))
    BY <1>2, <2>3
  <2> QED BY <1>1, <2>2, <2>3, <2>4 DEF MapInv
<1>5. CASE Rebuild
  <2> DEFINE U == rows \cap Indices(plan)
  <2>1. U \in SUBSET Below(plan.count)
    BY DEF Indices, Below
  <2>2. map' = MapOf(plan.count, U)
    BY <1>1, <1>5, <2>1, MarkedAllMeans DEF Rebuild
  <2>3. rows' = rows
    BY <1>5 DEF Rebuild
  <2> QED BY <1>1, <1>3, <2>2, <2>3 DEF MapInv
<1>6. ASSUME rows' = rows, map' = map PROVE MapInv'
  BY <1>1, <1>2, <1>3, <1>6 DEF MapInv
<1>7. CASE \E stray \in SUBSET (0..(ByteBits - 1)) : Resume(stray)
  BY <1>6, <1>7 DEF Resume
<1>8. CASE UNCHANGED vars
  BY <1>6, <1>8 DEF vars
<1> QED BY <1>4, <1>5, <1>7, <1>8 DEF Next

LEMMA MapInvHolds == Spec => []MapInv
<1> QED BY MapInvStart, MapInvStep, PTL DEF Spec

(* A map of some of the chunks lacks the others.                           *)
LEMMA MissingMeans ==
    ASSUME NEW p, Planned(p), NEW T \in SUBSET Indices(p)
    PROVE  /\ {i \in Indices(p) : Contains(MapOf(p.count, T), p.count, i)} = T
           /\ Missing(MapOf(p.count, T), p) = Indices(p) \ T
           /\ Cardinality(T) \in Nat
           /\ Cardinality(Indices(p) \ T) = p.count - Cardinality(T)
<1>1. p.count \in Nat
  BY PlanFacts
<1>2. T \in SUBSET Below(p.count)
  BY DEF Indices, Below
<1>3. ASSUME NEW i \in Indices(p) PROVE Contains(MapOf(p.count, T), p.count, i) <=> i \in T
  <2>1. i \in Nat
    BY <1>1 DEF Indices
  <2> QED BY <1>1, <1>2, <2>1, ContainsMeans
<1>4. IsFiniteSet(Indices(p)) /\ Cardinality(Indices(p)) = p.count
  <2>1. 0 \in Int /\ p.count - 1 \in Int
    BY <1>1
  <2>2. /\ IsFiniteSet(0..(p.count - 1))
        /\ Cardinality(0..(p.count - 1)) = IF 0 > p.count - 1 THEN 0 ELSE (p.count - 1) - 0 + 1
    BY <2>1, FS_Interval
  <2> QED BY <1>1, <2>2 DEF Indices
<1>5. Indices(p) \cap T = T
  OBVIOUS
<1>6. Cardinality(Indices(p) \ T) = p.count - Cardinality(T)
  BY <1>4, <1>5, FS_Difference
<1>7. Cardinality(T) \in Nat
  BY <1>1, <1>2, BelowFinite
<1> QED BY <1>3, <1>6, <1>7 DEF Missing

(* The words, the masks and the counter mean the chunks that have arrived, *)
(* and a map is complete when nothing is missing: for every width, size    *)
(* and order of chunks, repetitions and rebuilds.                          *)
THEOREM MapsMeanSets == Spec => []MapMeansSet
<1>1. ASSUME MapInv PROVE MapMeansSet
  <2>1. Planned(plan) /\ plan.count \in Nat
    BY <1>1, PlanFacts DEF MapInv
  <2>2. PICK T \in SUBSET (rows \cap Indices(plan)) : map = MapOf(plan.count, T)
    BY <1>1 DEF MapInv
  <2>3. T \in SUBSET Indices(plan) /\ T \in SUBSET Below(plan.count)
    BY <2>2 DEF Indices, Below
  <2>4. /\ {i \in Indices(plan) : Contains(map, plan.count, i)} = T
        /\ Missing(map, plan) = Indices(plan) \ T
        /\ Cardinality(T) \in Nat
        /\ Cardinality(Indices(plan) \ T) = plan.count - Cardinality(T)
    BY <2>1, <2>2, <2>3, MissingMeans
  <2>5. map.completed = Cardinality(T)
    BY <2>2 DEF MapOf
  <2>6. ASSUME NEW i \in 0..(plan.count + WordBits), Contains(map, plan.count, i)
        PROVE  i \in rows \cap Indices(plan)
    <3>1. i \in Nat
      BY <2>1, Widths
    <3> QED BY <2>1, <2>2, <2>3, <2>6, <3>1, ContainsMeans
  <2>7. IsComplete(map, plan.count) <=> Missing(map, plan) = {}
    <3>1. IsFiniteSet(Indices(plan) \ T)
      <4>1. IsFiniteSet(Indices(plan))
        BY <2>1, FS_Interval DEF Indices
      <4> QED BY <4>1, FS_Difference
    <3>2. Cardinality(Indices(plan) \ T) = 0 <=> Indices(plan) \ T = {}
      BY <3>1, FS_EmptySet
    <3> QED BY <2>1, <2>4, <2>5, <3>2 DEF IsComplete
  <2> QED BY <2>4, <2>5, <2>6, <2>7 DEF MapMeansSet
<1> QED BY <1>1, MapInvHolds, PTL

(* What the sender reads from the bitmap of a map, whatever stands in the  *)
(* bits beyond the last chunk.                                             *)
LEMMA BitmapMeans ==
    ASSUME NEW count \in Nat, NEW T \in SUBSET Below(count), NEW stray,
           LET last == DivCeil(count, ByteBits) - 1
           IN  stray \subseteq {k \in 0..(ByteBits - 1) : last * ByteBits + k >= count}
    PROVE  LET bytes == Bitmap(MapOf(count, T), count)
               last  == DivCeil(count, ByteBits) - 1
               sent  == IF last < 0 THEN bytes ELSE [bytes EXCEPT ![last] = @ \cup stray]
           IN  FromBitmap(sent, count) = MapOf(count, T)
<1> DEFINE last  == DivCeil(count, ByteBits) - 1
           bytes == Bitmap(MapOf(count, T), count)
           sent  == IF last < 0 THEN bytes ELSE [bytes EXCEPT ![last] = @ \cup stray]
<1>1. DivCeil(count, ByteBits) \in Nat /\ last \in Int
  BY CeilFacts, Widths
<1>2. bytes = [b \in 0..last |-> {k \in 0..(ByteBits - 1) : Contains(MapOf(count, T), count, b * ByteBits + k)}]
  BY DEF Bitmap
<1>3. stray \subseteq {k \in 0..(ByteBits - 1) : last * ByteBits + k >= count}
  OBVIOUS
<1> HIDE DEF last, bytes
<1>4. ASSUME NEW i \in Below(count)
      PROVE  i % ByteBits \in sent[i \div ByteBits] <=> i \in T
  <2> DEFINE b == i \div ByteBits
             k == i % ByteBits
  <2>1. i \in Nat /\ i \in 0..(count - 1) /\ i < count
    BY DEF Below
  <2>2. b \in 0..last /\ k \in 0..(ByteBits - 1) /\ b \in Nat
    BY <2>1, PieceOf, Quotient, Widths DEF last
  <2>3. b * ByteBits + k = i
    BY <2>1, <2>2, PlaceOf, Widths
  <2> HIDE DEF b, k
  <2>4. k \in bytes[b] <=> i \in T
    BY <1>2, <2>1, <2>2, <2>3, ContainsMeans
  <2>5. k \in stray => b # last
    BY <1>3, <2>1, <2>2, <2>3
  <2>6. k \in sent[b] <=> k \in bytes[b]
    BY <1>1, <1>2, <2>2, <2>5
  <2> QED BY <2>4, <2>6 DEF b, k
<1>5. {i \in Below(count) : i % ByteBits \in sent[i \div ByteBits]} = T
  BY <1>4
<1>6. FromBitmap(sent, count) = MarkedAll(NewMap(count), T)
  BY <1>5 DEF FromBitmap, Below
<1> QED BY <1>6, MarkedAllMeans DEF last, bytes

(* What is missing and what is there add up to the file.                   *)
LEMMA BytesAddUp ==
    ASSUME NEW p, Planned(p), NEW T \in SUBSET Indices(p)
    PROVE  p.size - Bytes(p, Indices(p) \ T) = Bytes(p, T)
<1>1. /\ p.size \in Nat /\ p.chunk \in Nat \ {0} /\ p.count \in Nat
      /\ p.size <= p.count * p.chunk
      /\ p.count * p.chunk < p.size + p.chunk
  BY PlanFacts, ChunkPlanAssumption
<1> DEFINE t == Cardinality(T)
           u == Cardinality(Indices(p) \ T)
           x == p.count * p.chunk
<1>2. t \in Nat /\ u = p.count - t
  BY MissingMeans
<1>3. /\ Bytes(p, T) = BytesOf(p, T)
      /\ Bytes(p, Indices(p) \ T) = BytesOf(p, Indices(p) \ T)
  BY BytesMeans
<1>4. u * p.chunk = x - t * p.chunk
  <2> HIDE DEF t, u
  <2> QED BY <1>1, <1>2
<1>5. /\ BytesOf(p, T) = t * p.chunk - (IF p.count - 1 \in T THEN x - p.size ELSE 0)
      /\ BytesOf(p, Indices(p) \ T) =
            x - t * p.chunk - (IF p.count - 1 \in Indices(p) \ T THEN x - p.size ELSE 0)
  BY <1>4 DEF BytesOf
<1>6. x \in Nat /\ t * p.chunk \in Nat
  BY <1>1, <1>2
<1>7. CASE p.count = 0
  <2>1. p.count - 1 \notin Indices(p) /\ x = 0 /\ p.size = 0
    BY <1>1, <1>7 DEF Indices
  <2>2. BytesOf(p, T) = t * p.chunk /\ BytesOf(p, Indices(p) \ T) = 0 - t * p.chunk
    BY <1>5, <1>6, <2>1
  <2> QED BY <1>3, <1>6, <2>1, <2>2
<1>8. CASE p.count # 0
  <2>1. p.count - 1 \in Indices(p)
    BY <1>1, <1>8 DEF Indices
  <2>2. CASE p.count - 1 \in T
    <3>1. BytesOf(p, T) = t * p.chunk - (x - p.size) /\ BytesOf(p, Indices(p) \ T) = x - t * p.chunk
      BY <1>5, <1>6, <2>2
    <3> HIDE DEF x
    <3> QED BY <1>1, <1>3, <1>6, <3>1
  <2>3. CASE p.count - 1 \notin T
    <3>1. BytesOf(p, T) = t * p.chunk /\ BytesOf(p, Indices(p) \ T) = x - t * p.chunk - (x - p.size)
      BY <1>5, <1>6, <2>1, <2>3
    <3> HIDE DEF x
    <3> QED BY <1>1, <1>3, <1>6, <3>1
  <2> QED BY <2>2, <2>3
<1> QED BY <1>7, <1>8

(* The sender asks for exactly the chunks the receiver lacks, and the two  *)
(* show the same progress: for every width, plan and stray bit.            *)
THEOREM ResumesExactly == Spec => ResumeExact
<1>1. ASSUME MapInv, NEW stray \in SUBSET (0..(ByteBits - 1)), Resume(stray)
      PROVE  asked' = map /\ shown'.sender = shown'.receiver
  <2>1. Planned(plan) /\ plan.count \in Nat
    BY <1>1, PlanFacts DEF MapInv
  <2>2. PICK T \in SUBSET Indices(plan) : map = MapOf(plan.count, T)
    BY <1>1 DEF MapInv
  <2>3. T \in SUBSET Below(plan.count)
    BY <2>2 DEF Indices, Below
  <2>4. asked' = map
    BY <1>1, <2>1, <2>2, <2>3, BitmapMeans DEF Resume
  <2>5. /\ Missing(asked', plan) = Indices(plan) \ T
        /\ CompletedBytes(map, plan) = Bytes(plan, T)
    <3>1. /\ {i \in Indices(plan) : Contains(MapOf(plan.count, T), plan.count, i)} = T
          /\ Missing(MapOf(plan.count, T), plan) = Indices(plan) \ T
      BY <2>1, <2>2, MissingMeans
    <3> QED BY <2>2, <2>4, <3>1 DEF CompletedBytes
  <2>6. shown' = [sender   |-> plan.size - Bytes(plan, Missing(asked', plan)),
                  receiver |-> CompletedBytes(map, plan)]
    BY <1>1 DEF Resume
  <2> QED BY <2>1, <2>2, <2>4, <2>5, <2>6, BytesAddUp
<1>2. MapInv /\ [Next]_vars =>
         [\A stray \in SUBSET (0..(ByteBits - 1)) :
             Resume(stray) => asked' = map /\ shown'.sender = shown'.receiver]_vars
  BY <1>1
<1> QED BY <1>2, MapInvHolds, PTL DEF Spec, ResumeExact
=============================================================================
