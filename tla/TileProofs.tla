----------------------------- MODULE TileProofs -----------------------------
(***************************************************************************)
(* Proofs about a level's tiles: the valves that make one fit (SizeValve), *)
(* whatever its members, its fill and the sizes its encoder reports; and   *)
(* the store its members come from (LevelRead), whatever the file, the     *)
(* plan and the way it is read.                                            *)
(***************************************************************************)
EXTENDS LevelRead, SizeValve, SumProofs

-----------------------------------------------------------------------------
(* Numbers and finite sets *)

LEMMA MinOf ==
  ASSUME NEW S \in SUBSET Nat, S # {}
  PROVE  Min(S) \in S /\ \A y \in S : Min(S) <= y
BY Smallest DEF Min

LEMMA MaxOf ==
  ASSUME NEW n \in Nat, NEW S \in SUBSET 0..n, S # {}
  PROVE  Max(S) \in S /\ \A y \in S : y <= Max(S)
<1>1. DEFINE D == {n - x : x \in S}
<1>2. D \in SUBSET Nat /\ D # {}
  <2>1. \A x \in S : n - x \in Nat
    OBVIOUS
  <2>2. \E x \in S : n - x \in D
    OBVIOUS
  <2> QED  BY <2>1, <2>2
<1>3. PICK d \in D : \A e \in D : d <= e
  BY <1>2, Smallest
<1>4. PICK x \in S : d = n - x
  BY <1>3
<1>5. ASSUME NEW y \in S  PROVE y <= x
  <2>1. n - y \in D
    OBVIOUS
  <2>2. n - x <= n - y
    BY <1>3, <1>4, <2>1
  <2> QED  BY <2>2
<1>6. \E m \in S : \A y \in S : m >= y
  BY <1>5
<1>7. Max(S) \in S /\ \A y \in S : Max(S) >= y
  BY <1>6 DEF Max
<1> QED  BY <1>7

LEMMA MinPair ==
  ASSUME NEW a \in Int, NEW b \in Int
  PROVE  Min({a, b}) = IF a <= b THEN a ELSE b
BY DEF Min

LEMMA MaxPair ==
  ASSUME NEW a \in Int, NEW b \in Int
  PROVE  Max({a, b}) = IF a <= b THEN b ELSE a
BY DEF Max

\* An order on a finite set has an element that nothing comes before.
LEMMA First ==
  ASSUME NEW S, IsFiniteSet(S), S # {}, NEW R,
         \A x \in S : <<x, x>> \notin R,
         \A x, y, w \in S : <<x, y>> \in R /\ <<y, w>> \in R => <<x, w>> \in R
  PROVE  \E x \in S : {y \in S : <<y, x>> \in R} = {}
<1> DEFINE Earlier(x) == {y \in S : <<y, x>> \in R}
           Ranks == {Cardinality(Earlier(x)) : x \in S}
<1>1. ASSUME NEW x \in S
      PROVE  IsFiniteSet(Earlier(x)) /\ Cardinality(Earlier(x)) \in Nat
  <2>1. Earlier(x) \in SUBSET S
    OBVIOUS
  <2> QED  BY <2>1, FS_Subset, FS_CardinalityType
<1> HIDE DEF Earlier
<1>2. Ranks \in SUBSET Nat /\ Ranks # {}
  <2>1. PICK x \in S : TRUE
    OBVIOUS
  <2>2. Cardinality(Earlier(x)) \in Ranks
    BY <2>1
  <2> QED  BY <1>1, <2>2
<1>3. PICK m \in Ranks : \A r \in Ranks : m <= r
  BY <1>2, Smallest
<1>4. PICK x \in S : m = Cardinality(Earlier(x))
  BY <1>3
<1>5. ASSUME NEW y \in Earlier(x)  PROVE FALSE
  <2>1. Earlier(y) \in SUBSET Earlier(x) /\ y \notin Earlier(y) /\ y \in S
    BY <1>5 DEF Earlier
  <2>2. Cardinality(Earlier(y)) <= Cardinality(Earlier(x))
        /\ Cardinality(Earlier(y)) # Cardinality(Earlier(x))
    BY <1>1, <1>5, <2>1, FS_Subset
  <2>3. Cardinality(Earlier(x)) <= Cardinality(Earlier(y))
    BY <1>3, <1>4, <2>1
  <2> QED  BY <1>1, <2>1, <2>2, <2>3
<1> QED  BY <1>5 DEF Earlier

\* A set and the set of its singletons.
LEMMA Singletons ==
  ASSUME NEW S, IsFiniteSet(S)
  PROVE  /\ IsFiniteSet({{x} : x \in S})
         /\ Cardinality({{x} : x \in S}) = Cardinality(S)
<1> DEFINE T == {{x} : x \in S}
           f == [x \in S |-> {x}]
<1>1. f \in Bijection(S, T)
  BY DEF Bijection, Injection, Surjection, IsInjective
<1>2. ExistsBijection(S, T)
  BY <1>1 DEF ExistsBijection
<1> QED  BY <1>2, FS_Bijection

LEMMA TileShape ==
  ASSUME tile \in TilesIn
  PROVE  /\ Len(tile) \in Nat \ {0} /\ Ids = 1..Len(tile) /\ Ids # {}
         /\ IsFiniteSet(Ids) /\ Cardinality(Ids) = Len(tile)
         /\ \A i \in Ids : tile[i] \in Member
         /\ \A i \in Ids : i \in Nat
<1>1. tile \in Seq(Member) /\ tile # <<>>
  BY ValveAssumption
<1>2. Len(tile) \in Nat \ {0} /\ Ids = 1..Len(tile)
  BY <1>1 DEF Ids
<1>3. IsFiniteSet(Ids) /\ Cardinality(Ids) = Len(tile)
  BY <1>2, FS_Interval
<1> QED  BY <1>1, <1>2, <1>3

\* What a member has, and what a feature of it alone.
LEMMA SizeOne ==
  ASSUME tile \in TilesIn, NEW d \in Ids
  PROVE  /\ SizeOf({d}) = tile[d].size
         /\ tile[d].size \in Nat \ {0} /\ tile[d].gap \in Nat
<1>1. tile[d] \in Member
  BY TileShape
<1>2. tile[d].size \in Nat \ {0} /\ tile[d].gap \in Nat
  BY <1>1 DEF Member
<1> DEFINE Step(g) == [s \in SUBSET {d} |->
             IF s = {} THEN 0
             ELSE tile[CHOOSE x \in s : TRUE].size + g[s \ {CHOOSE x \in s : TRUE}]]
           h == [s \in SUBSET {d} |-> IF s = {} THEN 0 ELSE tile[d].size]
           F == CHOOSE g : g = Step(g)
<1>3. SizeOf({d}) = F[{d}]
  BY DEF SizeOf, MapThenSumSet, MapThenFoldSet
<1>4. h = Step(h)
  <2>1. ASSUME NEW s \in SUBSET {d}  PROVE h[s] = Step(h)[s]
    <3>1. CASE s = {}
      BY <3>1
    <3>2. CASE s = {d}
      <4>1. (CHOOSE x \in s : TRUE) = d /\ s \ {d} = {}
        BY <3>2
      <4>2. Step(h)[s] = tile[d].size + h[{}]
        BY <3>2, <4>1
      <4>3. h[{}] = 0 /\ h[s] = tile[d].size
        BY <3>2
      <4> QED  BY <1>2, <4>2, <4>3
    <3> QED  BY <3>1, <3>2
  <2> QED  BY <2>1
<1>5. F = Step(F)
  BY <1>4
<1> HIDE DEF F
<1>6. F[{}] = 0
  BY <1>5
<1>7. F[{d}] = tile[d].size + F[{}]
  <2>1. (CHOOSE x \in {d} : TRUE) = d /\ {d} \ {d} = {}
    OBVIOUS
  <2>2. Step(F)[{d}] = tile[d].size + F[{}]
    BY <2>1
  <2> QED  BY <1>5, <2>2
<1> QED  BY <1>2, <1>3, <1>6, <1>7

LEMMA FewImages ==
  ASSUME NEW S, IsFiniteSet(S), NEW f
  PROVE  IsFiniteSet({f[x] : x \in S})
<1> DEFINE T == {f[x] : x \in S}
           g == [x \in S |-> f[x]]
<1>1. g \in [S -> T] /\ \A t \in T : \E x \in S : g[x] = t
  OBVIOUS
<1>2. g \in Surjection(S, T)
  BY <1>1 DEF Surjection
<1> QED  BY <1>2, FS_Surjection

-----------------------------------------------------------------------------
(* Choosing *)

\* The ranks of a total order on a finite set.
LEMMA Ranked ==
  ASSUME NEW S, IsFiniteSet(S), S # {}, NEW R,
         \A x \in S : <<x, x>> \notin R,
         \A x, y \in S : x = y \/ <<x, y>> \in R \/ <<y, x>> \in R,
         \A x, y, w \in S : <<x, y>> \in R /\ <<y, w>> \in R => <<x, w>> \in R
  PROVE  /\ \A x \in S : Cardinality({y \in S : <<y, x>> \in R}) \in Nat
         /\ \A x, y \in S : <<x, y>> \in R =>
              Cardinality({w \in S : <<w, x>> \in R})
                <= Cardinality({w \in S : <<w, y>> \in R})
         /\ \E x \in S : \A y \in S :
              Cardinality({w \in S : <<w, y>> \in R}) = 0 <=> y = x
<1> DEFINE Lower(x) == {y \in S : <<y, x>> \in R}
<1>1. ASSUME NEW x \in S
      PROVE  /\ IsFiniteSet(Lower(x)) /\ Cardinality(Lower(x)) \in Nat
             /\ Cardinality(Lower(x)) = 0 <=> Lower(x) = {}
  <2>1. Lower(x) \in SUBSET S
    OBVIOUS
  <2> QED  BY <2>1, FS_Subset, FS_CardinalityType, FS_EmptySet
<1>2. ASSUME NEW x \in S, NEW y \in S, <<x, y>> \in R
      PROVE  Cardinality(Lower(x)) <= Cardinality(Lower(y))
  <2>1. Lower(x) \in SUBSET Lower(y)
    BY <1>2
  <2> QED  BY <1>1, <2>1, FS_Subset
<1>3. PICK x \in S : Lower(x) = {}
  BY First
<1>4. ASSUME NEW y \in S  PROVE Cardinality(Lower(y)) = 0 <=> y = x
  <2>1. y # x => x \in Lower(y)
    BY <1>3
  <2> QED  BY <1>1, <1>3, <2>1
<1> QED  BY <1>1, <1>2, <1>4

\* select_kept_members keeps something, of the largest or of all if they are
\* points, and one when no more is asked for.
LEMMA KeptOf ==
  ASSUME tile \in TilesIn, NEW fs \in SUBSET Whole, fs # {}, NEW count \in Nat
  PROVE  /\ Kept(fs, count) \in SUBSET fs /\ Kept(fs, count) # {}
         /\ \A f \in fs \ Kept(fs, count) : \A g \in Kept(fs, count) :
              SizeOf(f) <= SizeOf(g)
         /\ count <= 1 => Cardinality(Kept(fs, count)) = 1
<1> DEFINE n == Cardinality(fs)
           k == Clamp(count, 1, n)
           At(f) == Cardinality({g \in fs : Min(g) < Min(f)})
           Outranks(g, f) == \/ SizeOf(g) > SizeOf(f)
                             \/ SizeOf(g) = SizeOf(f) /\ Min(g) < Min(f)
           Points == \A f \in fs : SizeOf(f) <= 1
           Strided == {f \in fs : \E i \in 0..(k - 1) : At(f) = (i * n) \div k}
           Leading == {f \in fs : Cardinality({g \in fs : Outranks(g, f)}) < k}
<1>1. IsFiniteSet(fs) /\ n \in Nat \ {0}
  <2>1. IsFiniteSet(Whole)
    BY TileShape, Singletons DEF Whole
  <2>2. IsFiniteSet(fs)
    BY <2>1, FS_Subset
  <2> QED  BY <2>2, FS_CardinalityType, FS_EmptySet
<1>2. k \in Nat \ {0} /\ (count <= 1 => k = 1)
  BY <1>1, MinPair, MaxPair DEF Clamp
<1>3. ASSUME NEW f \in fs
      PROVE  \E d \in Ids : /\ f = {d} /\ Min(f) = d /\ d \in Nat
                            /\ SizeOf(f) \in Nat \ {0}
  <2>1. PICK d \in Ids : f = {d}
    BY DEF Whole
  <2>2. d \in Nat
    BY TileShape
  <2>3. Min(f) = d
    BY <2>1, <2>2, MinOf
  <2> QED  BY <2>1, <2>2, <2>3, SizeOne
<1>4. /\ \A f \in fs : Min(f) \in Nat /\ SizeOf(f) \in Nat \ {0}
      /\ \A f, g \in fs : Min(f) = Min(g) => f = g
  <2>1. \A f \in fs : f = {Min(f)} /\ Min(f) \in Nat
    BY <1>3
  <2>2. \A f \in fs : SizeOf(f) \in Nat \ {0}
    BY <1>3
  <2>3. ASSUME NEW f \in fs, NEW g \in fs, Min(f) = Min(g)  PROVE f = g
    BY <2>1, <2>3, Zenon
  <2> QED  BY <2>1, <2>2, <2>3
<1>5. Kept(fs, count) = IF Points THEN Strided ELSE Leading
  BY DEF Kept
<1>6. CASE Points
  <2> DEFINE R == {p \in fs \X fs : Min(p[1]) < Min(p[2])}
  <2>1. \A f, g \in fs : <<g, f>> \in R <=> Min(g) < Min(f)
    OBVIOUS
  <2>2. \A f \in fs : {g \in fs : <<g, f>> \in R} = {g \in fs : Min(g) < Min(f)}
    BY <2>1
  <2>3. /\ \A f \in fs : <<f, f>> \notin R
        /\ \A f, g \in fs : f = g \/ <<f, g>> \in R \/ <<g, f>> \in R
        /\ \A f, g, h \in fs : <<f, g>> \in R /\ <<g, h>> \in R => <<f, h>> \in R
    BY <1>4, <2>1
  <2> HIDE DEF R
  <2>4. PICK x \in fs : \A f \in fs : At(f) = 0 <=> f = x
    <3>1. PICK x \in fs : \A f \in fs :
                 Cardinality({g \in fs : <<g, f>> \in R}) = 0 <=> f = x
      BY <1>1, <2>3, Ranked
    <3> QED  BY <2>2, <3>1
  <2> HIDE DEF At, k, n
  <2>5. (0 * n) \div k = 0
    BY <1>1, <1>2
  <2>6. x \in Strided
    BY <1>2, <2>4, <2>5
  <2>7. ASSUME count <= 1  PROVE Strided = {x}
    <3>1. k = 1
      BY <1>2, <2>7
    <3>2. \A i \in 0..(k - 1) : i = 0
      BY <3>1
    <3>3. ASSUME NEW f \in Strided  PROVE f = x
      <4>1. f \in fs /\ At(f) = 0
        BY <2>5, <3>2
      <4> QED  BY <2>4, <4>1
    <3> QED  BY <2>6, <3>3
  <2>8. \A f, g \in fs : SizeOf(f) <= SizeOf(g)
    BY <1>4, <1>6
  <2>9. Kept(fs, count) = Strided /\ Strided \in SUBSET fs
    BY <1>5, <1>6
  <2>10. count <= 1 => Cardinality(Strided) = 1
    BY <2>7, FS_Singleton
  <2> QED  BY <2>6, <2>8, <2>9, <2>10
<1>7. CASE ~Points
  <2> DEFINE R == {p \in fs \X fs : Outranks(p[1], p[2])}
  <2>1. \A f, g \in fs : <<g, f>> \in R <=> Outranks(g, f)
    OBVIOUS
  <2>2. \A f \in fs : {g \in fs : <<g, f>> \in R} = {g \in fs : Outranks(g, f)}
    BY <2>1
  <2>3. /\ \A f \in fs : ~Outranks(f, f)
        /\ \A f, g \in fs : f = g \/ Outranks(f, g) \/ Outranks(g, f)
        /\ \A f, g, h \in fs : Outranks(f, g) /\ Outranks(g, h) => Outranks(f, h)
    BY <1>4
  <2>4. /\ \A f \in fs : <<f, f>> \notin R
        /\ \A f, g \in fs : f = g \/ <<f, g>> \in R \/ <<g, f>> \in R
        /\ \A f, g, h \in fs : <<f, g>> \in R /\ <<g, h>> \in R => <<f, h>> \in R
    <3> HIDE DEF R, Outranks
    <3> QED  BY <2>1, <2>3
  <2> HIDE DEF R
  <2> DEFINE Rank(f) == Cardinality({g \in fs : Outranks(g, f)})
  <2>5. /\ \A f \in fs : Rank(f) \in Nat
        /\ \A f, g \in fs : Outranks(f, g) => Rank(f) <= Rank(g)
        /\ \E x \in fs : \A f \in fs : Rank(f) = 0 <=> f = x
    <3>1. /\ \A f \in fs : Cardinality({g \in fs : <<g, f>> \in R}) \in Nat
          /\ \A f, g \in fs : <<f, g>> \in R =>
               Cardinality({h \in fs : <<h, f>> \in R})
                 <= Cardinality({h \in fs : <<h, g>> \in R})
          /\ \E x \in fs : \A f \in fs :
               Cardinality({g \in fs : <<g, f>> \in R}) = 0 <=> f = x
      BY <1>1, <2>4, Ranked
    <3>2. \A f \in fs : Rank(f) = Cardinality({g \in fs : <<g, f>> \in R})
      BY <2>2
    <3> HIDE DEF Outranks, Rank
    <3> QED  BY <2>1, <3>1, <3>2
  <2>6. PICK x \in fs : \A f \in fs : Rank(f) = 0 <=> f = x
    BY <2>5
  <2>7. Leading = {f \in fs : Rank(f) < k}
    OBVIOUS
  <2>8. Outranks(x, x) \in BOOLEAN
    OBVIOUS
  <2>9. \A f, g \in fs : SizeOf(f) > SizeOf(g) => Outranks(f, g)
    OBVIOUS
  <2> HIDE DEF Outranks, Rank, k, Leading
  <2>10. x \in Leading
    BY <1>2, <2>6, <2>7
  <2>11. ASSUME count <= 1  PROVE Leading = {x}
    <3>1. \A f \in Leading : f \in fs /\ Rank(f) = 0
      BY <1>2, <2>5, <2>7, <2>11
    <3> QED  BY <2>6, <2>10, <3>1
  <2>12. ASSUME NEW f \in fs \ Leading, NEW g \in Leading
         PROVE  SizeOf(f) <= SizeOf(g)
    <3>1. Rank(g) < k /\ ~(Rank(f) < k) /\ f \in fs /\ g \in fs
      BY <2>7, <2>12
    <3>2. ~Outranks(f, g)
      BY <1>2, <2>5, <3>1
    <3> QED  BY <1>4, <2>9, <3>1, <3>2
  <2>13. Kept(fs, count) = Leading /\ Leading \in SUBSET fs
    BY <1>5, <1>7, <2>7
  <2>14. count <= 1 => Cardinality(Leading) = 1
    BY <2>11, FS_Singleton
  <2> QED  BY <2>10, <2>12, <2>13, <2>14
<1> QED  BY <1>6, <1>7

-----------------------------------------------------------------------------
(* Merging *)

\* Features that are the members, each once; those drawn as one are alike, and
\* the target of a member is the last there is for it.
Grouping(fs) ==
  /\ fs \subseteq SUBSET Ids /\ {} \notin fs /\ fs # {}
  /\ UNION fs = Ids
  /\ \A f, g \in fs : f # g => f \cap g = {}
  /\ \A f \in fs : \A m \in f \ {Min(f)} :
       /\ Alike(tile[Min(f)], tile[m])
       /\ \A h \in fs : Min(h) \in Min(f)+1 .. m => ~Alike(tile[Min(h)], tile[m])

LEMMA WholeGroups ==
  ASSUME tile \in TilesIn
  PROVE  Grouping(Whole)
<1>1. ASSUME NEW i \in Ids  PROVE Min({i}) = i
  <2>1. i \in Nat
    BY TileShape
  <2> QED  BY <2>1, MinOf
<1>2. \A f \in Whole : f \ {Min(f)} = {}
  BY <1>1 DEF Whole
<1>3. Ids # {}
  BY TileShape
<1>4. /\ Whole \subseteq SUBSET Ids /\ {} \notin Whole /\ Whole # {}
      /\ UNION Whole = Ids
      /\ \A f, g \in Whole : f # g => f \cap g = {}
  BY <1>3 DEF Whole
<1> QED  BY <1>2, <1>4 DEF Grouping

\* coalesce_members groups them, whatever the threshold.
LEMMA CoalescedGroups ==
  ASSUME tile \in TilesIn, NEW g \in Nat
  PROVE  Grouping(Coalesced(g))
<1> DEFINE T == TargetsAt(g)
           Nearer(i) == {t \in T : t < i /\ Alike(tile[t], tile[i])}
           Of == [i \in Ids |-> IF i \in T THEN i ELSE Max(Nearer(i))]
           In(t) == {i \in Ids : Of[i] = t}
<1>1. /\ Len(tile) \in Nat \ {0} /\ Ids = 1..Len(tile) /\ Ids # {}
      /\ \A i \in Ids : i \in Nat
  BY TileShape
<1>2. T \in SUBSET Ids
  BY DEF TargetsAt
<1>3. \A i \in Ids \ T : \E j \in 1..(i - 1) : Alike(tile[j], tile[i])
  BY DEF TargetsAt
<1>4. \A i \in Ids : (\A j \in 1..(i - 1) : ~Alike(tile[j], tile[i])) => i \in T
  BY DEF TargetsAt
<1> HIDE DEF T
<1>5. ASSUME NEW i \in Ids \ T
      PROVE  /\ Of[i] \in T /\ Of[i] < i /\ Alike(tile[Of[i]], tile[i])
             /\ \A t \in T : t < i /\ Alike(tile[t], tile[i]) => t <= Of[i]
  <2> DEFINE S == {j \in 1..(i - 1) : Alike(tile[j], tile[i])}
  <2>1. S \in SUBSET Nat /\ S # {}
    BY <1>3
  <2>2. PICK j \in S : \A k \in S : j <= k
    BY <2>1, Smallest
  <2>3. j \in Ids /\ j < i /\ Alike(tile[j], tile[i])
    BY <1>1, <2>2
  <2>4. \A k \in 1..(j - 1) : ~Alike(tile[k], tile[j])
    <3>1. SUFFICES ASSUME NEW k \in 1..(j - 1), Alike(tile[k], tile[j])
                   PROVE  FALSE
      OBVIOUS
    <3>2. Alike(tile[k], tile[i])
      BY <2>3, <3>1 DEF Alike, MayMerge
    <3>3. k \in S /\ ~(j <= k)
      BY <1>1, <2>3, <3>1, <3>2
    <3> QED  BY <2>2, <3>3
  <2>5. j \in T
    BY <1>4, <2>3, <2>4
  <2>6. Nearer(i) # {}
    BY <2>3, <2>5
  <2>7. i \in Nat /\ Nearer(i) \in SUBSET 0..i
    <3>1. i \in Nat /\ \A t \in T : t \in Nat
      BY <1>1, <1>2
    <3>2. \A t \in T : t < i => t \in 0..i
      BY <3>1
    <3> QED  BY <3>1, <3>2
  <2>8. Of[i] = Max(Nearer(i))
    BY <1>5
  <2> HIDE DEF Of
  <2>9. Of[i] \in Nearer(i) /\ \A t \in Nearer(i) : t <= Of[i]
    BY <2>6, <2>7, <2>8, MaxOf
  <2> QED  BY <2>9
<1>6. \A i \in T : Of[i] = i
  BY <1>2
<1>7. Coalesced(g) = {In(t) : t \in T}
  BY DEF Coalesced, T
<1> HIDE DEF Of
<1>8. \A i \in Ids : Of[i] \in T /\ i \in In(Of[i])
  BY <1>5, <1>6
<1>9. \A t \in T : t \in In(t) /\ In(t) \in SUBSET Ids
  BY <1>2, <1>6
<1>10. \A t \in T : \A i \in In(t) : t <= i
  BY <1>1, <1>2, <1>5, <1>6
<1>11. ASSUME NEW t \in T  PROVE Min(In(t)) = t
  <2>1. In(t) \in SUBSET Nat /\ In(t) # {} /\ t \in Nat
    BY <1>1, <1>2, <1>9
  <2>2. Min(In(t)) \in In(t) /\ \A y \in In(t) : Min(In(t)) <= y
    BY <2>1, MinOf
  <2>3. Min(In(t)) <= t /\ t <= Min(In(t)) /\ Min(In(t)) \in Nat
    BY <1>9, <1>10, <2>1, <2>2
  <2> QED  BY <2>1, <2>3
<1>12. T # {}
  BY <1>1, <1>8
<1>13. /\ Coalesced(g) \subseteq SUBSET Ids /\ {} \notin Coalesced(g)
       /\ Coalesced(g) # {} /\ UNION Coalesced(g) = Ids
       /\ \A f, h \in Coalesced(g) : f # h => f \cap h = {}
  <2>1. Coalesced(g) \subseteq SUBSET Ids /\ {} \notin Coalesced(g)
    BY <1>7, <1>9
  <2>2. Coalesced(g) # {}
    <3>1. PICK t \in T : TRUE
      BY <1>12
    <3>2. In(t) \in Coalesced(g)
      BY <1>7, <3>1
    <3> QED  BY <3>2
  <2>3. Ids \subseteq UNION Coalesced(g)
    BY <1>7, <1>8
  <2>4. \A f, h \in Coalesced(g) : f # h => f \cap h = {}
    BY <1>7
  <2> QED  BY <2>1, <2>2, <2>3, <2>4
<1>14. ASSUME NEW f \in Coalesced(g), NEW m \in f \ {Min(f)}
       PROVE  /\ Alike(tile[Min(f)], tile[m])
              /\ \A h \in Coalesced(g) :
                   Min(h) \in Min(f)+1 .. m => ~Alike(tile[Min(h)], tile[m])
  <2>1. PICK t \in T : f = In(t)
    BY <1>7
  <2>2. Min(f) = t /\ m \in Ids /\ Of[m] = t /\ m # t
    BY <1>11, <1>14, <2>1
  <2>3. m \notin T
    BY <1>6, <2>2
  <2>4. ASSUME NEW h \in Coalesced(g), Min(h) \in t + 1 .. m,
               Alike(tile[Min(h)], tile[m])
        PROVE  FALSE
    <3>1. PICK u \in T : h = In(u)
      BY <1>7
    <3>2. Min(h) = u /\ u \in Nat /\ t \in Nat /\ m \in Nat
      BY <1>1, <1>2, <1>11, <2>2, <3>1
    <3>3. u # m /\ u < m /\ t < u
      BY <2>3, <2>4, <3>1, <3>2
    <3>4. u <= t
      BY <1>5, <2>2, <2>3, <2>4, <3>2, <3>3
    <3> QED  BY <3>2, <3>3, <3>4
  <2> QED  BY <1>5, <2>2, <2>3, <2>4
<1> QED  BY <1>13, <1>14 DEF Grouping

LEMMA QuotientBelow ==
  ASSUME NEW q \in Nat \ {0}, NEW n \in Nat, NEW m \in 0..q
  PROVE  (n * m) \div q \in 0..n
<1>1. \A a, b \in Nat : a * b \in Nat
  OBVIOUS
<1>2. m \in Nat /\ q - m \in Nat
  OBVIOUS
<1>3. n * m \in Nat /\ n * (q - m) \in Nat /\ q * n \in Nat
  BY <1>1, <1>2
<1>4. n * (q - m) = q * n - n * m
  BY <1>2
<1> DEFINE p == n * m
           d == p \div q
<1>5. p \in Nat /\ p <= q * n
  BY <1>3, <1>4
<1> HIDE DEF p
<1>6. d \in Int /\ q * d <= p /\ p < q * d + q
  BY <1>5
<1>7. d >= 0
  <2>1. CASE d <= -1
    <3>1. q * d <= -q
      <4>1. -d - 1 \in Nat
        BY <1>6, <2>1
      <4>2. q * (-d - 1) \in Nat
        BY <1>1, <4>1
      <4>3. q * (-d - 1) = -(q * d) - q
        BY <1>6
      <4> QED  BY <1>6, <4>2, <4>3
    <3> QED  BY <1>5, <1>6, <3>1
  <2> QED  BY <1>6, <2>1
<1>8. d <= n
  <2>1. CASE d >= n + 1
    <3>1. q * (d - (n + 1)) \in Nat
      BY <1>1, <1>6, <2>1
    <3>2. q * (d - (n + 1)) = q * d - q * n - q
      BY <1>6
    <3> QED  BY <1>3, <1>5, <1>6, <3>1, <3>2
  <2> QED  BY <1>6, <2>1
<1> QED  BY <1>6, <1>7, <1>8 DEF p

LEMMA OneType == One \in Nat \ {0}
BY SMT DEF One

\* What is kept is a share, whatever the fit.
LEMMA ShareType ==
  ASSUME NEW s \in 0..One, NEW f \in 0..10
  PROVE  Min({(s * f * 8) \div 100, (8 * One) \div 10}) \in 0..One
<1>1. s * f \in Nat
  <2>1. \A a, b \in Nat : a * b \in Nat
    OBVIOUS
  <2> QED  BY <2>1, OneType
<1> DEFINE p == s * f
<1> HIDE DEF p
<1>2. p \in Nat
  BY <1>1 DEF p
<1>3. (p * 8) \div 100 \in Nat /\ (8 * One) \div 10 \in 0..One
  BY <1>2, OneType
<1>4. Min({(p * 8) \div 100, (8 * One) \div 10}) \in 0..One
  BY <1>3, MinPair, OneType
<1> QED  BY <1>4 DEF p

\* When next_mingap finds no gap, all of them merge already.
LEMMA NoGapLeft ==
  ASSUME tile \in TilesIn, NEW s \in 0..One, NEW c \in Nat
  PROVE  /\ NextMingap(s, c) \in Nat
         /\ NextMingap(s, c) = 0 => \A i \in Gapped : tile[i].gap < c
<1> DEFINE n == Cardinality(Gapped)
           ix == ((n - 1) * (One - s)) \div One
           Through(g) == {i \in Gapped : tile[i].gap <= g}
           at == {g \in {tile[i].gap : i \in Gapped} :
                    g >= c /\ Cardinality(Through(g)) > ix}
<1>1. NextMingap(s, c) = IF at = {} THEN 0 ELSE Min(at) + 1
  BY DEF NextMingap
<1>2. /\ Gapped \in SUBSET Ids /\ IsFiniteSet(Gapped) /\ n \in Nat
      /\ \A i \in Gapped : tile[i].gap \in Nat
      /\ n = 0 <=> Gapped = {}
  <2>1. Gapped \in SUBSET Ids
    BY DEF Gapped
  <2>2. IsFiniteSet(Gapped)
    BY <2>1, TileShape, FS_Subset
  <2> QED  BY <2>1, <2>2, SizeOne, FS_CardinalityType, FS_EmptySet
<1>3. at # {} => Min(at) \in Nat
  <2>1. at \in SUBSET Nat
    BY <1>2
  <2> QED  BY <2>1, MinOf
<1>4. ASSUME at = {}, NEW i \in Gapped, ~(tile[i].gap < c)  PROVE FALSE
  <2> DEFINE R == {p \in Gapped \X Gapped : tile[p[1]].gap > tile[p[2]].gap}
  <2>1. \A j, k \in Gapped : <<j, k>> \in R <=> tile[j].gap > tile[k].gap
    OBVIOUS
  <2>2. /\ \A j \in Gapped : <<j, j>> \notin R
        /\ \A j, k, l \in Gapped : <<j, k>> \in R /\ <<k, l>> \in R => <<j, l>> \in R
    BY <1>2, <2>1
  <2> HIDE DEF R
  <2>3. PICK x \in Gapped : {y \in Gapped : <<y, x>> \in R} = {}
    BY <1>2, <1>4, <2>2, First
  <2>4. ASSUME NEW y \in Gapped  PROVE tile[y].gap <= tile[x].gap
    <3>1. <<y, x>> \notin R
      BY <2>3
    <3>2. ~(tile[y].gap > tile[x].gap)
      BY <2>1, <3>1
    <3> QED  BY <1>2, <3>2
  <2>5. Through(tile[x].gap) = Gapped
    BY <2>4
  <2>6. ix \in 0..(n - 1)
    <3>1. n - 1 \in Nat /\ One - s \in 0..One
      BY <1>2, <1>4, OneType
    <3> QED  BY <3>1, OneType, QuotientBelow
  <2> HIDE DEF ix
  <2>7. Cardinality(Through(tile[x].gap)) > ix
    <3>1. n > ix
      BY <1>2, <2>6
    <3> QED  BY <2>5, <3>1
  <2>8. tile[x].gap >= c
    BY <1>2, <1>4, <2>4
  <2>9. tile[x].gap \in at
    BY <2>7, <2>8
  <2> QED  BY <1>4, <2>9
<1> HIDE DEF at
<1>5. NextMingap(s, c) \in Nat /\ (NextMingap(s, c) = 0 => at = {})
  BY <1>1, <1>3
<1> QED  BY <1>4, <1>5

-----------------------------------------------------------------------------
(* The valve *)

LEMMA GroupSize ==
  ASSUME tile \in TilesIn, NEW fs, Grouping(fs)
  PROVE  /\ IsFiniteSet(fs) /\ Cardinality(fs) \in 1..Len(tile)
         /\ \A sub \in SUBSET fs :
              /\ IsFiniteSet(sub) /\ Cardinality(sub) \in 0..Cardinality(fs)
              /\ Cardinality(fs \ sub) = Cardinality(fs) - Cardinality(sub)
              /\ Cardinality(sub) = 0 <=> sub = {}
<1>1. ASSUME NEW f \in fs  PROVE Min(f) \in f /\ Min(f) \in Ids
  <2>1. f \in SUBSET Ids /\ f # {}
    BY DEF Grouping
  <2>2. f \in SUBSET Nat
    BY <2>1, TileShape
  <2> QED  BY <2>1, <2>2, MinOf
<1> DEFINE m == [f \in fs |-> Min(f)]
<1>2. m \in [fs -> Ids]
  BY <1>1
<1>3. ASSUME NEW f \in fs, NEW g \in fs, m[f] = m[g]  PROVE f = g
  <2>1. Min(f) \in f \cap g
    BY <1>1, <1>3
  <2> QED  BY <2>1 DEF Grouping
<1>4. m \in Injection(fs, Ids)
  BY <1>2, <1>3 DEF Injection, IsInjective
<1>5. IsFiniteSet(fs) /\ Cardinality(fs) <= Cardinality(Ids)
  BY <1>4, TileShape, FS_Injection
<1>6. fs # {}
  BY DEF Grouping
<1>7. Cardinality(fs) \in 1..Len(tile)
  BY <1>5, <1>6, TileShape, FS_CardinalityType, FS_EmptySet
<1>8. ASSUME NEW sub \in SUBSET fs
      PROVE  /\ IsFiniteSet(sub) /\ Cardinality(sub) \in 0..Cardinality(fs)
             /\ Cardinality(fs \ sub) = Cardinality(fs) - Cardinality(sub)
             /\ Cardinality(sub) = 0 <=> sub = {}
  <2>1. IsFiniteSet(sub) /\ Cardinality(sub) <= Cardinality(fs)
    BY <1>5, FS_Subset
  <2>2. Cardinality(sub) \in Nat /\ Cardinality(fs) \in Nat
        /\ (Cardinality(sub) = 0 <=> sub = {})
    BY <1>5, <2>1, FS_CardinalityType, FS_EmptySet
  <2>3. fs \cap sub = sub
    OBVIOUS
  <2>4. Cardinality(fs \ sub) = Cardinality(fs) - Cardinality(fs \cap sub)
    BY <1>5, FS_Difference
  <2> QED  BY <2>1, <2>2, <2>3, <2>4
<1> QED  BY <1>5, <1>7, <1>8

\* The features there would be if nothing was dropped.
All == IF Drops THEN Whole ELSE Coalesced(mingap)

\* What is drawn of them: those that merged, and the larger of the others.
Thinned ==
  /\ feats \subseteq All /\ feats # {}
  /\ Merged(All) \subseteq feats
  /\ \A f \in All \ feats : \A g \in Unmerged(feats) : \A d \in f, e \in g :
       tile[d].size <= tile[e].size

Reported ==
  tally = [merged |-> Len(tile) - Cardinality(All),
           dropped |-> Cardinality(All) - Cardinality(feats)]

AllMerged == \A i \in Gapped : tile[i].gap < mingap

\* The inductive invariant of the valves.  A pass of the merge valve forgets
\* what the one before it drew; every other step starts from features that are
\* thinned and reported.
ValveInv ==
  /\ ValveType
  /\ tile \in TilesIn /\ fill \in Fills
  /\ phase = "drop" => Drops
  /\ phase \in {"merge", "raise", "shed"} => ~Drops
  /\ phase # "merge" => Thinned /\ Reported
  /\ phase = "shed" => keep > 0 /\ Unmerged(All) # {} /\ AllMerged
  /\ filled # 0 => phase \in {"fill", "done"} /\ ~Over(fit)
  /\ phase = "fill" => ~Over(fit)
  /\ LastResort

LEMMA AllGroups ==
  ASSUME tile \in TilesIn, mingap \in Nat
  PROVE  Grouping(All)
BY WholeGroups, CoalescedGroups DEF All

\* What the two properties of the valve come from.
LEMMA ThinnedAndReported ==
  ASSUME tile \in TilesIn, mingap \in Nat, Thinned, Reported
  PROVE  NothingVanishes
<1> DEFINE drawn == UNION feats
           dropped == Ids \ drawn
<1>1. Grouping(All)
  BY AllGroups
<1>2. /\ feats \subseteq All /\ feats # {} /\ Merged(All) \subseteq feats
      /\ All \subseteq SUBSET Ids /\ {} \notin All /\ UNION All = Ids
      /\ \A f, g \in All : f # g => f \cap g = {}
  BY <1>1 DEF Grouping, Thinned
<1>3. ASSUME NEW f \in All \ feats  PROVE \E x \in Ids : f = {x} /\ x \in dropped
  <2>1. f \in SUBSET Ids /\ f # {} /\ f \notin Merged(All)
    <3>1. f \in All /\ f \notin feats
      BY <1>3
    <3>2. Merged(All) \subseteq feats
      BY DEF Thinned
    <3>3. f \notin Merged(All)
      BY <3>1, <3>2
    <3>4. f \in SUBSET Ids /\ f # {}
      BY <1>2, <3>1
    <3> QED  BY <3>3, <3>4
  <2>2. IsFiniteSet(f) /\ Cardinality(f) \in Nat /\ Cardinality(f) # 0
    BY <2>1, TileShape, FS_Subset, FS_CardinalityType, FS_EmptySet
  <2>3. ~(Cardinality(f) > 1)
    BY <2>1 DEF Merged
  <2>4. Cardinality(f) = 1
    BY <2>2, <2>3
  <2>5. PICK x : f = {x}
    BY <2>2, <2>4, FS_Singleton
  <2>6. x \notin drawn
    BY <1>2, <2>5
  <2> QED  BY <2>1, <2>5, <2>6
<1>4. All \ feats = {{d} : d \in dropped}
  <2>1. ASSUME NEW d \in dropped  PROVE {d} \in All \ feats
    <3>1. PICK f \in All : d \in f
      BY <1>2, <2>1
    <3>2. f \notin feats
      BY <2>1, <3>1
    <3> QED  BY <1>3, <3>1, <3>2
  <2> QED  BY <1>3, <2>1
<1>5. IsFiniteSet(Ids) /\ Cardinality(Ids) = Len(tile) /\ Len(tile) \in Nat
  BY TileShape
<1>6. /\ Cardinality(dropped) = Cardinality(All) - Cardinality(feats)
      /\ Cardinality(All) \in Nat /\ Cardinality(feats) \in Nat
  <2>1. IsFiniteSet(dropped)
    BY <1>5, FS_Subset
  <2>2. Cardinality(All \ feats) = Cardinality(dropped)
    BY <1>4, <2>1, Singletons
  <2>3. feats \in SUBSET All
    BY <1>2
  <2> QED  BY <1>1, <2>2, <2>3, GroupSize, FS_CardinalityType
<1>7. Cardinality(drawn) = Len(tile) - Cardinality(dropped)
  <2>1. drawn \in SUBSET Ids
    BY <1>2
  <2>2. Ids \cap drawn = drawn
    BY <2>1
  <2>3. IsFiniteSet(drawn)
    BY <1>5, <2>1, FS_Subset
  <2>4. Cardinality(drawn) \in Nat
    BY <2>3, FS_CardinalityType
  <2>5. Cardinality(dropped) = Cardinality(Ids) - Cardinality(drawn)
    BY <1>5, <2>2, FS_Difference
  <2> QED  BY <1>5, <2>4, <2>5
<1>8. Cardinality(dropped) = tally.dropped
      /\ Cardinality(drawn) - Cardinality(feats) = tally.merged
  <2>1. tally.merged = Len(tile) - Cardinality(All)
        /\ tally.dropped = Cardinality(All) - Cardinality(feats)
    BY DEF Reported
  <2> QED  BY <1>5, <1>6, <1>7, <2>1
<1>9. ASSUME NEW f \in feats, NEW m \in f \ {Min(f)}
      PROVE  LET first == tile[Min(f)]
             IN /\ MayMerge(first) /\ first.kind = tile[m].kind
                /\ first.band = tile[m].band
                /\ ~\E g \in feats : Min(g) \in Min(f)+1 .. m
                                     /\ Alike(tile[Min(g)], tile[m])
  <2>1. f \in All
    BY <1>2
  <2>2. /\ Alike(tile[Min(f)], tile[m])
        /\ \A h \in All : Min(h) \in Min(f)+1 .. m => ~Alike(tile[Min(h)], tile[m])
    BY <1>1, <2>1 DEF Grouping
  <2>3. ~\E g \in feats : Min(g) \in Min(f)+1 .. m /\ Alike(tile[Min(g)], tile[m])
    BY <1>2, <2>2
  <2> QED  BY <2>2, <2>3 DEF Alike
<1>10. ASSUME NEW d \in dropped, NEW f \in Unmerged(feats)
       PROVE  tile[d].size <= SizeOf(f)
  <2>1. f \in feats /\ Cardinality(f) = 1 /\ f \in SUBSET Ids
    BY <1>2 DEF Unmerged
  <2>2. IsFiniteSet(f)
    BY <1>5, <2>1, FS_Subset
  <2>3. PICK e : f = {e}
    BY <2>1, <2>2, FS_Singleton
  <2>4. e \in Ids /\ SizeOf(f) = tile[e].size
    BY <2>1, <2>3, SizeOne
  <2>5. {d} \in All \ feats
    BY <1>4
  <2>6. tile[d].size <= tile[e].size
    BY <2>3, <2>5 DEF Thinned
  <2> QED  BY <2>4, <2>6
<1>11. /\ feats # {} /\ {} \notin feats
       /\ \A f, g \in feats : f # g => f \cap g = {}
  BY <1>2
<1> QED  BY <1>8, <1>9, <1>10, <1>11 DEF NothingVanishes

LEMMA WholeSize ==
  ASSUME tile \in TilesIn
  PROVE  /\ Cardinality(Whole) = Len(tile) /\ Merged(Whole) = {}
         /\ \A f \in Whole : \E i \in Ids : f = {i}
<1>1. Cardinality(Whole) = Len(tile)
  BY TileShape, Singletons DEF Whole
<1>2. \A f \in Whole : Cardinality(f) = 1
  BY FS_Singleton DEF Whole
<1>3. Merged(Whole) = {}
  BY <1>2 DEF Merged
<1> QED  BY <1>1, <1>3 DEF Whole

\* Thinning, of features that stand for one member each.
LEMMA Thinning ==
  ASSUME tile \in TilesIn, NEW fs \in SUBSET Whole, fs # {}, NEW n \in Nat,
         NEW f \in fs \ Kept(fs, n), NEW g \in Kept(fs, n), NEW d \in f, NEW e \in g
  PROVE  tile[d].size <= tile[e].size
<1>1. g \in fs /\ SizeOf(f) <= SizeOf(g)
  BY KeptOf
<1>2. PICK i \in Ids : f = {i}
  BY WholeSize
<1>3. PICK j \in Ids : g = {j}
  BY <1>1, WholeSize
<1>4. d = i /\ e = j
  BY <1>2, <1>3
<1> QED  BY <1>1, <1>2, <1>3, <1>4, SizeOne

LEMMA CallKept ==
  ASSUME UNCHANGED call
  PROVE  /\ UNCHANGED <<tile, valve, fill>> /\ (Drops' <=> Drops)
         /\ Ids' = Ids /\ Whole' = Whole /\ Gapped' = Gapped
         /\ UNCHANGED mingap => All' = All /\ (AllMerged' <=> AllMerged)
<1>1. UNCHANGED <<tile, valve, fill>>
  BY DEF call
<1>2. Ids' = Ids
  BY <1>1 DEF Ids
<1>3. Whole' = Whole
  BY <1>2 DEF Whole
<1>4. Gapped' = Gapped
  BY <1>1, <1>2 DEF Gapped
<1>5. Drops' <=> Drops
  BY <1>1, <1>2 DEF Drops
<1>6. ASSUME UNCHANGED mingap  PROVE All' = All
  <2>1. TargetsAt(mingap)' = TargetsAt(mingap)
    BY <1>1, <1>2, <1>6 DEF TargetsAt
  <2>2. Coalesced(mingap)' = Coalesced(mingap)
    BY <1>1, <1>2, <1>6, <2>1 DEF Coalesced
  <2> QED  BY <1>3, <1>5, <2>2 DEF All
<1>7. ASSUME UNCHANGED mingap  PROVE AllMerged' <=> AllMerged
  BY <1>1, <1>4, <1>7 DEF AllMerged
<1> QED  BY <1>1, <1>2, <1>3, <1>4, <1>5, <1>6, <1>7

LEMMA ValveStart ==
  ValveInit => ValveInv
<1> SUFFICES ASSUME ValveInit  PROVE ValveInv
  OBVIOUS
<1> USE DEF ValveInit
<1>1. tile \in TilesIn /\ fill \in Fills /\ mingap \in Nat
  OBVIOUS
<1>2. Grouping(Whole) /\ Cardinality(Whole) = Len(tile) /\ Merged(Whole) = {}
  BY <1>1, WholeGroups, WholeSize
<1>3. ASSUME Drops  PROVE Thinned /\ Reported
  <2>1. All = Whole /\ feats = Whole
    BY <1>3 DEF All
  <2>2. Thinned
    BY <1>2, <2>1 DEF Thinned, Grouping
  <2>3. Reported
    BY <1>1, <1>2, <2>1, TileShape DEF Reported
  <2> QED  BY <2>2, <2>3
<1>4. /\ (phase = "drop" /\ Drops) \/ (phase = "merge" /\ ~Drops)
      /\ filled = 0
  OBVIOUS
<1>5. LastResort
  BY <1>4 DEF LastResort
<1>6. ValveType
  <2>1. feats \subseteq SUBSET Ids
    BY <1>2 DEF Grouping
  <2>2. keep \in Nat
    BY <1>1, TileShape
  <2>3. share \in 0..One
    BY OneType
  <2>4. tally \in [merged : Nat, dropped : Nat]
    OBVIOUS
  <2> QED  BY <1>4, <2>1, <2>2, <2>3, <2>4 DEF ValveType
<1> QED  BY <1>1, <1>3, <1>4, <1>5, <1>6 DEF ValveInv

LEMMA FitType ==
  \A f \in Fits : f \in Nat /\ f \in 0..10
BY ValveAssumption

\* A pass that ends the valve leaves for the fill, if the tile fits, or ends
\* the call.
LEMMA FittedLeaves ==
  ASSUME fill \in Fills, NEW f \in Fits, Fitted(f)
  PROVE  /\ phase' \in {"fill", "done"} /\ keep' \in Nat
         /\ phase' = "fill" => ~Over(f)
BY ValveAssumption DEF Fitted

LEMMA CountedType ==
  ASSUME NEW n \in Nat
  PROVE  /\ Counted(n, MaxDropPasses) \in Nat
         /\ Counted(n, 2) \in Nat
<1>1. MaxDropPasses \in Nat
  BY ValveAssumption
<1> QED  BY <1>1, MinPair DEF Counted

LEMMA DropKeeps ==
  ValveInv /\ Drop => ValveInv'
<1> SUFFICES ASSUME ValveInv, Drop  PROVE ValveInv'
  OBVIOUS
<1>1. /\ tile \in TilesIn /\ fill \in Fills /\ Drops /\ phase = "drop"
      /\ Thinned /\ Reported /\ filled = 0 /\ mingap \in Nat
      /\ keep \in Nat /\ passes \in Nat /\ fit \in Nat /\ ValveType
  BY FitType DEF ValveInv, ValveType, Drop
<1>2. /\ UNCHANGED call /\ UNCHANGED <<prevFit, stalls, share, mingap, sheds,
                                       filled, fillPass>>
      /\ passes' = Counted(passes, MaxDropPasses)
  BY DEF Drop
<1>3. /\ UNCHANGED <<tile, valve, fill>> /\ (Drops' <=> Drops)
      /\ Ids' = Ids /\ All' = All /\ All = Whole
  BY <1>1, <1>2, CallKept DEF All
<1> DEFINE next == Clamp((keep * fit) \div 10, 1, Max({keep - 1, 1}))
           kept == IF passes = 0 THEN Whole ELSE Kept(Whole, next)
<1>4. PICK f \in Fits :
        /\ fit' = f /\ feats' = kept
        /\ tally' = [tally EXCEPT !.dropped = Len(tile) - Cardinality(kept)]
        /\ IF Over(f) /\ Cardinality(kept) > 1 /\ passes' < MaxDropPasses
             THEN phase' = phase /\ keep' = Cardinality(kept)
             ELSE Fitted(f)
  BY DEF Drop
<1>5. next \in Nat
  <2>1. keep * fit \in Nat
    <3>1. \A a, b \in Nat : a * b \in Nat
      OBVIOUS
    <3> QED  BY <1>1, <3>1
  <2> DEFINE p == keep * fit
  <2> HIDE DEF p
  <2>2. p \in Nat
    BY <2>1 DEF p
  <2>3. Clamp(p \div 10, 1, Max({keep - 1, 1})) \in Nat
    BY <1>1, <2>2, MinPair, MaxPair DEF Clamp
  <2> QED  BY <2>3 DEF p
<1>6. Grouping(Whole) /\ Whole # {}
  BY <1>1, WholeGroups DEF Grouping
<1>7. /\ kept \in SUBSET Whole /\ kept # {}
      /\ \A fs \in Whole \ kept : \A g \in kept : \A d \in fs, e \in g :
           tile[d].size <= tile[e].size
  BY <1>1, <1>5, <1>6, KeptOf, Thinning
<1> HIDE DEF next, kept
<1>8. /\ Cardinality(kept) \in 1..Len(tile) /\ Cardinality(Whole) = Len(tile)
      /\ Len(tile) \in Nat
  <2>1. Cardinality(kept) \in 0..Cardinality(Whole)
        /\ (Cardinality(kept) = 0 <=> kept = {})
    BY <1>1, <1>6, <1>7, GroupSize
  <2> QED  BY <1>1, <1>7, <2>1, WholeSize, TileShape
<1>9. Thinned'
  <2>1. Merged(Whole) = {}
    BY <1>1, WholeSize
  <2>2. Merged(All)' = Merged(Whole)
    BY <1>3 DEF Merged
  <2>3. \A g \in Unmerged(feats)' : g \in kept
    BY <1>4 DEF Unmerged
  <2> QED  BY <1>3, <1>4, <1>7, <2>1, <2>2, <2>3 DEF Thinned
<1>10. Reported'
  <2>1. tally.merged = Len(tile) - Cardinality(Whole)
        /\ tally = [merged |-> tally.merged, dropped |-> tally.dropped]
    BY <1>1, <1>3 DEF Reported
  <2>2. tally' = [merged |-> Len(tile) - Cardinality(Whole),
                  dropped |-> Cardinality(Whole) - Cardinality(kept)]
    BY <1>4, <1>8, <2>1
  <2> QED  BY <1>3, <1>4, <2>2 DEF Reported
<1>11. /\ phase' \in {"drop", "fill", "done"} /\ keep' \in Nat
       /\ phase' = "fill" => ~Over(f)
  BY <1>1, <1>4, <1>8, FittedLeaves
<1>12. LastResort'
  <2>1. SUFFICES ASSUME phase' = "done", Over(f)
                 PROVE  Cardinality(kept) = 1 \/ passes' >= MaxDropPasses
    BY <1>1, <1>2, <1>3, <1>4 DEF LastResort, Over
  <2>2. ~(Over(f) /\ Cardinality(kept) > 1 /\ passes' < MaxDropPasses)
    BY <1>1, <1>4, <2>1
  <2>3. passes' \in Nat /\ MaxDropPasses \in Nat
    BY <1>1, <1>2, CountedType, ValveAssumption
  <2> QED  BY <1>8, <2>1, <2>2, <2>3
<1>13. ValveType'
  <2>1. feats' \subseteq SUBSET Ids'
    BY <1>3, <1>4, <1>6, <1>7 DEF Grouping
  <2>2. tally' \in [merged : Nat, dropped : Nat]
    BY <1>1, <1>4, <1>8 DEF ValveType
  <2>3. fit' \in Fits /\ passes' \in Nat
    BY <1>1, <1>2, <1>4, CountedType
  <2> QED  BY <1>1, <1>2, <1>11, <2>1, <2>2, <2>3 DEF ValveType
<1> QED  BY <1>1, <1>2, <1>3, <1>4, <1>9, <1>10, <1>11, <1>12, <1>13 DEF ValveInv, Over

LEMMA MergeKeeps ==
  ValveInv /\ Merge => ValveInv'
<1> SUFFICES ASSUME ValveInv, Merge  PROVE ValveInv'
  OBVIOUS
<1>1. /\ tile \in TilesIn /\ fill \in Fills /\ ~Drops
      /\ filled = 0 /\ mingap \in Nat /\ keep \in Nat /\ passes \in Nat /\ ValveType
  BY DEF ValveInv, ValveType, Merge
<1>2. /\ UNCHANGED call /\ UNCHANGED <<prevFit, stalls, share, mingap, sheds,
                                       filled, fillPass>>
      /\ passes' = Counted(passes, MaxDropPasses)
      /\ feats' = Coalesced(mingap)
      /\ tally' = [merged |-> Len(tile) - Cardinality(feats'), dropped |-> 0]
  BY DEF Merge
<1>3. /\ UNCHANGED <<tile, valve, fill>> /\ (Drops' <=> Drops)
      /\ Ids' = Ids /\ All' = All /\ feats' = All
  BY <1>1, <1>2, CallKept DEF All
<1>4. PICK f \in Fits :
        /\ fit' = f
        /\ IF Over(f) /\ Cardinality(feats') > 1
             THEN phase' = "raise" /\ keep' = keep
             ELSE Fitted(f)
  BY DEF Merge
<1>5. Grouping(All)
  BY <1>1, AllGroups
<1>6. Cardinality(All) \in 1..Len(tile) /\ Len(tile) \in Nat /\ All # {}
  BY <1>1, <1>5, GroupSize, TileShape DEF Grouping
<1>7. Thinned'
  <2>1. Merged(All)' \subseteq All'
    BY DEF Merged
  <2> QED  BY <1>3, <1>6, <2>1 DEF Thinned
<1>8. Reported'
  <2>1. Cardinality(All) - Cardinality(All) = 0
    BY <1>6
  <2> QED  BY <1>2, <1>3, <2>1 DEF Reported
<1>9. /\ phase' \in {"raise", "fill", "done"} /\ keep' \in Nat
      /\ phase' = "fill" => ~Over(f)
  BY <1>1, <1>4, FittedLeaves
<1>10. LastResort'
  <2>1. SUFFICES ASSUME phase' = "done", Over(f)
                 PROVE  Cardinality(All) = 1
    BY <1>1, <1>2, <1>3, <1>4 DEF LastResort, Over
  <2>2. ~(Cardinality(All) > 1)
    BY <1>3, <1>4, <2>1
  <2> QED  BY <1>6, <2>2
<1>11. ValveType'
  <2>1. feats' \subseteq SUBSET Ids'
    BY <1>3, <1>5 DEF Grouping
  <2>2. tally' \in [merged : Nat, dropped : Nat]
    BY <1>2, <1>3, <1>6
  <2>3. fit' \in Fits /\ passes' \in Nat
    BY <1>1, <1>2, <1>4, CountedType
  <2> QED  BY <1>1, <1>2, <1>9, <2>1, <2>2, <2>3 DEF ValveType
<1> QED  BY <1>1, <1>2, <1>3, <1>4, <1>7, <1>8, <1>9, <1>10, <1>11 DEF ValveInv, Over

LEMMA RaiseKeeps ==
  ValveInv /\ Raise => ValveInv'
<1> SUFFICES ASSUME ValveInv, Raise  PROVE ValveInv'
  OBVIOUS
<1>1. /\ tile \in TilesIn /\ fill \in Fills /\ ~Drops /\ Thinned /\ Reported
      /\ filled = 0 /\ mingap \in Nat /\ keep \in Nat /\ ValveType
      /\ fit \in 0..10 /\ prevFit \in Fits \cup {0} /\ stalls \in Nat /\ share \in 0..One
  BY FitType DEF ValveInv, ValveType, Raise
<1>2. /\ UNCHANGED call
      /\ UNCHANGED <<feats, fit, passes, sheds, tally, filled, fillPass>>
      /\ prevFit' = fit
      /\ keep' = Cardinality(Unmerged(feats))
  BY DEF Raise
<1>3. stalls' \in Nat
  <2>1. stalls' = Counted(stalls, 2) \/ stalls' = 0
    BY DEF Raise
  <2> QED  BY <1>1, <2>1, CountedType
<1>4. share' \in 0..One
  <2>1. \/ share' = 0
        \/ share' = Min({(share * fit * 8) \div 100, (8 * One) \div 10})
    BY DEF Raise
  <2>2. Min({(share * fit * 8) \div 100, (8 * One) \div 10}) \in 0..One
    BY <1>1, ShareType
  <2>3. 0 \in 0..One
    BY OneType
  <2> QED  BY <2>1, <2>2, <2>3
<1>5. PICK s \in 0..One : s = share'
  BY <1>4
<1>6. /\ mingap' = IF NextMingap(s, mingap) = 0 THEN mingap
                   ELSE NextMingap(s, mingap)
      /\ phase' = IF NextMingap(s, mingap) > 0 THEN "merge"
                  ELSE IF Unmerged(feats) = {} THEN "done" ELSE "shed"
  BY <1>5 DEF Raise
<1>7. PICK next \in Nat : next = NextMingap(s, mingap)
  BY <1>1, NoGapLeft
<1>8. mingap' \in Nat /\ phase' \in {"merge", "done", "shed"}
  BY <1>1, <1>6, <1>7
<1>9. /\ UNCHANGED <<tile, valve, fill>> /\ (Drops' <=> Drops) /\ Ids' = Ids
      /\ Gapped' = Gapped
  BY <1>2, CallKept
<1>10. Grouping(All) /\ feats \in SUBSET All
  BY <1>1, AllGroups DEF Thinned
<1>11. IsFiniteSet(Unmerged(feats)) /\ Cardinality(Unmerged(feats)) \in Nat
       /\ (Cardinality(Unmerged(feats)) = 0 <=> Unmerged(feats) = {})
  <2>1. Unmerged(feats) \in SUBSET All
    BY <1>10 DEF Unmerged
  <2> QED  BY <1>1, <1>10, <2>1, GroupSize, FS_CardinalityType
<1>12. ASSUME phase' # "merge"
       PROVE  /\ mingap' = mingap /\ Thinned' /\ Reported' /\ AllMerged'
              /\ (phase' = "done" /\ Unmerged(feats) = {})
                  \/ (phase' = "shed" /\ keep' > 0 /\ Unmerged(All)' # {})
  <2>1. next = 0 /\ mingap' = mingap
    <3>1. ~(next > 0)
      BY <1>6, <1>7, <1>12
    <3> QED  BY <1>6, <1>7, <3>1
  <2>2. All' = All
    BY <1>2, <2>1, CallKept
  <2>3. AllMerged'
    <3>1. AllMerged
      BY <1>1, <1>7, <2>1, NoGapLeft DEF AllMerged
    <3> QED  BY <1>2, <2>1, <3>1, CallKept
  <2>4. Thinned'
    <3>1. Merged(All)' = Merged(All) /\ Unmerged(feats)' = Unmerged(feats)
      BY <1>2, <2>2 DEF Merged, Unmerged
    <3> QED  BY <1>1, <1>2, <1>9, <2>2, <3>1 DEF Thinned
  <2>5. Reported'
    BY <1>1, <1>2, <1>9, <2>2 DEF Reported
  <2>6. (phase' = "done" /\ Unmerged(feats) = {})
          \/ (phase' = "shed" /\ Unmerged(feats) # {})
    BY <1>6, <1>7, <2>1
  <2>7. Unmerged(feats) # {} => keep' > 0
    BY <1>2, <1>11
  <2>8. Unmerged(feats) # {} => Unmerged(All)' # {}
    BY <1>10, <2>2 DEF Unmerged
  <2> QED  BY <2>1, <2>3, <2>4, <2>5, <2>6, <2>7, <2>8
<1>13. LastResort'
  <2>1. SUFFICES ASSUME phase' = "done"
                 PROVE  filled' = 0 /\ AllMerged' /\ ~Drops'
                        /\ Cardinality(Unmerged(feats)') <= 1
    BY DEF LastResort, AllMerged
  <2>2. Unmerged(feats) = {}
    BY <1>12, <2>1
  <2>3. Cardinality(Unmerged(feats)') <= 1
    BY <1>2, <1>11, <2>2 DEF Unmerged
  <2> QED  BY <1>1, <1>2, <1>9, <1>12, <2>1, <2>3
<1>14. ValveType'
  <2>1. /\ feats' \subseteq SUBSET Ids' /\ keep' \in Nat
        /\ fit' \in Fits \cup {0} /\ prevFit' \in Fits \cup {0}
    BY <1>1, <1>2, <1>9, <1>11 DEF ValveType
  <2> QED  BY <1>1, <1>2, <1>3, <1>4, <1>8, <2>1 DEF ValveType
<1> QED  BY <1>1, <1>2, <1>8, <1>9, <1>12, <1>13, <1>14 DEF ValveInv, Over

LEMMA FillKeeps ==
  ValveInv /\ Fill => ValveInv'
<1> SUFFICES ASSUME ValveInv, Fill  PROVE ValveInv'
  OBVIOUS
<1>1. /\ tile \in TilesIn /\ fill \in Fills /\ Thinned /\ Reported /\ ~Over(fit)
      /\ keep \in Nat /\ ValveType /\ fillPass \in Nat
  BY DEF ValveInv, ValveType, Fill
<1>2. /\ UNCHANGED call /\ UNCHANGED <<feats, fit, prevFit, stalls, share, mingap,
                                       passes, sheds, tally>>
      /\ fillPass' = fillPass + 1
  BY DEF Fill
<1>3. /\ UNCHANGED <<tile, valve, fill>> /\ (Drops' <=> Drops)
      /\ Ids' = Ids /\ All' = All
  BY <1>2, CallKept
<1>4. phase' \in {"fill", "done"} /\ keep' \in Nat /\ filled' \in Nat
  <2>1. PICK f \in Fits, next \in 0..(keep - 1) :
          /\ phase' = "fill" \/ phase' = "done"
          /\ keep' = next /\ filled' \in {0, keep}
    BY DEF Fill
  <2> QED  BY <1>1, <2>1
<1>5. Thinned' /\ Reported'
  <2>1. Merged(All)' = Merged(All) /\ Unmerged(feats)' = Unmerged(feats)
    BY <1>2, <1>3 DEF Merged, Unmerged
  <2>2. Thinned'
    BY <1>1, <1>2, <1>3, <2>1 DEF Thinned
  <2> QED  BY <1>1, <1>2, <1>3, <2>2 DEF Reported
<1>6. ~Over(fit')
  BY <1>1, <1>2
<1>7. ValveType'
  BY <1>1, <1>2, <1>3, <1>4 DEF ValveType
<1> QED  BY <1>1, <1>3, <1>4, <1>5, <1>6, <1>7 DEF ValveInv, LastResort, Over

LEMMA ValveRests ==
  ValveInv /\ UNCHANGED valveVars => ValveInv'
<1> SUFFICES ASSUME ValveInv, UNCHANGED valveVars  PROVE ValveInv'
  OBVIOUS
<1> USE DEF valveVars
<1>1. UNCHANGED call
  BY DEF call
<1>2. /\ (Drops' <=> Drops) /\ Ids' = Ids /\ All' = All /\ Gapped' = Gapped
      /\ (AllMerged' <=> AllMerged)
  BY <1>1, CallKept
<1>3. Merged(All)' = Merged(All) /\ Unmerged(feats)' = Unmerged(feats)
  BY <1>2 DEF Merged, Unmerged
<1>4. Thinned' <=> Thinned
  BY <1>2, <1>3 DEF Thinned
<1>5. Reported' <=> Reported
  BY <1>2 DEF Reported
<1>6. LastResort' <=> LastResort
  BY <1>2, <1>3 DEF LastResort, Over
<1>7. ValveType' <=> ValveType
  BY <1>2 DEF ValveType
<1> QED  BY <1>2, <1>4, <1>5, <1>6, <1>7 DEF ValveInv, Over

LEMMA ShedKeeps ==
  ValveInv /\ Shed => ValveInv'
<1> SUFFICES ASSUME ValveInv, Shed  PROVE ValveInv'
  OBVIOUS
<1>1. /\ tile \in TilesIn /\ fill \in Fills /\ ~Drops /\ phase = "shed"
      /\ Reported /\ filled = 0 /\ mingap \in Nat /\ ValveType
      /\ keep \in Nat \ {0} /\ passes \in Nat /\ sheds \in Nat /\ fit \in Nat
      /\ Unmerged(All) # {} /\ AllMerged
  BY FitType DEF ValveInv, ValveType, Shed
<1>2. /\ UNCHANGED call /\ UNCHANGED <<prevFit, stalls, share, mingap, filled,
                                       fillPass>>
  BY DEF Shed
<1>3. /\ UNCHANGED <<tile, valve, fill>> /\ (Drops' <=> Drops) /\ Ids' = Ids
      /\ All' = All /\ (AllMerged' <=> AllMerged) /\ All = Coalesced(mingap)
  BY <1>1, <1>2, CallKept DEF All
<1> DEFINE next == Min({(keep * fit) \div 10, keep - 1})
           few == Kept(Unmerged(All), next)
<1>4. PICK f \in Fits :
        /\ fit' = f
        /\ feats' = Merged(All) \cup few
        /\ passes' = Counted(passes, MaxDropPasses) /\ sheds' = sheds + 1
        /\ tally' = [tally EXCEPT !.dropped = Cardinality(All) - Cardinality(feats')]
        /\ IF Over(f) /\ next > 0 /\ sheds' < MaxDropPasses
             THEN phase' = phase /\ keep' = next
             ELSE Fitted(f)
  BY <1>3 DEF Shed
<1>5. next \in Nat
  <2>1. keep * fit \in Nat
    <3>1. \A a, b \in Nat : a * b \in Nat
      OBVIOUS
    <3> QED  BY <1>1, <3>1
  <2> DEFINE p == keep * fit
  <2> HIDE DEF p
  <2>2. p \in Nat
    BY <2>1 DEF p
  <2>3. Min({p \div 10, keep - 1}) \in Nat
    BY <1>1, <2>2, MinPair
  <2> QED  BY <2>3 DEF p
<1>6. Grouping(All)
  BY <1>1, AllGroups
<1>7. Unmerged(All) \in SUBSET Whole
  <2>1. ASSUME NEW g \in Unmerged(All)  PROVE g \in Whole
    <3>1. g \in SUBSET Ids /\ Cardinality(g) = 1
      BY <1>6, <2>1 DEF Unmerged, Grouping
    <3>2. IsFiniteSet(g)
      BY <1>1, <3>1, TileShape, FS_Subset
    <3>3. PICK x : g = {x}
      BY <3>1, <3>2, FS_Singleton
    <3> QED  BY <3>1, <3>3 DEF Whole
  <2> QED  BY <2>1
<1>8. /\ few \in SUBSET Unmerged(All) /\ few # {}
      /\ next <= 1 => Cardinality(few) = 1
      /\ \A g \in Unmerged(All) \ few : \A h \in few : \A d \in g, e \in h :
           tile[d].size <= tile[e].size
  BY <1>1, <1>5, <1>7, KeptOf, Thinning
<1> HIDE DEF next, few
<1>9. ASSUME NEW g \in All  PROVE g \in Merged(All) \/ g \in Unmerged(All)
  <2>1. g \in SUBSET Ids /\ g # {}
    BY <1>6 DEF Grouping
  <2>2. Cardinality(g) \in Nat /\ Cardinality(g) # 0
    BY <1>1, <2>1, TileShape, FS_Subset, FS_CardinalityType, FS_EmptySet
  <2> QED  BY <2>2 DEF Merged, Unmerged
<1>10. Merged(All) \in SUBSET All /\ Unmerged(All) \in SUBSET All
  BY DEF Merged, Unmerged
<1>11. \A g \in Merged(All) : Cardinality(g) # 1
  BY DEF Merged
<1>12. feats' \in SUBSET All /\ Unmerged(feats)' = few
  <2>1. feats' \in SUBSET All
    BY <1>4, <1>8, <1>10
  <2>2. \A g \in few : Cardinality(g) = 1
    BY <1>8 DEF Unmerged
  <2>3. Unmerged(feats)' = {g \in feats' : Cardinality(g) = 1}
    BY DEF Unmerged
  <2> QED  BY <1>4, <1>11, <2>1, <2>2, <2>3
<1>13. Thinned'
  <2>1. Merged(All)' = Merged(All)
    BY <1>3 DEF Merged
  <2>2. feats' # {} /\ Merged(All) \subseteq feats'
    BY <1>4, <1>8
  <2>3. \A g \in All \ feats' : g \in Unmerged(All) \ few
    BY <1>4, <1>9
  <2> QED  BY <1>3, <1>8, <1>12, <2>1, <2>2, <2>3 DEF Thinned
<1>14. Cardinality(feats') \in 0..Cardinality(All) /\ Cardinality(All) \in 1..Len(tile)
  BY <1>1, <1>6, <1>12, GroupSize
<1>15. Reported'
  <2>1. tally' = [merged |-> Len(tile) - Cardinality(All),
                  dropped |-> Cardinality(All) - Cardinality(feats')]
    BY <1>1, <1>4 DEF Reported
  <2> QED  BY <1>3, <2>1 DEF Reported
<1>16. /\ phase' \in {"shed", "fill", "done"} /\ keep' \in Nat
       /\ phase' = "fill" => ~Over(f)
       /\ phase' = "shed" => keep' > 0
  BY <1>1, <1>4, <1>5, FittedLeaves
<1>17. LastResort'
  <2>1. SUFFICES ASSUME phase' = "done", Over(f)
                 PROVE  Cardinality(few) = 1 \/ sheds' >= MaxDropPasses
    <3>1. AllMerged' /\ filled' = 0 /\ ~Drops'
      BY <1>1, <1>2, <1>3
    <3> QED  BY <1>4, <1>12, <3>1 DEF LastResort, AllMerged, Over
  <2>2. ~(Over(f) /\ next > 0 /\ sheds' < MaxDropPasses)
    BY <1>1, <1>4, <2>1
  <2>3. sheds' \in Nat /\ MaxDropPasses \in Nat
    BY <1>1, <1>4, ValveAssumption
  <2> QED  BY <1>5, <1>8, <2>1, <2>2, <2>3
<1>18. ValveType'
  <2>1. feats' \subseteq SUBSET Ids'
    BY <1>3, <1>6, <1>12 DEF Grouping
  <2>2. tally' \in [merged : Nat, dropped : Nat]
    BY <1>1, <1>4, <1>14 DEF ValveType
  <2>3. fit' \in Fits /\ passes' \in Nat /\ sheds' \in Nat
    BY <1>1, <1>4, CountedType
  <2> QED  BY <1>1, <1>2, <1>16, <2>1, <2>2, <2>3 DEF ValveType
<1>19. Unmerged(All)' = Unmerged(All)
  BY <1>3 DEF Unmerged
<1> QED  BY <1>1, <1>2, <1>3, <1>4, <1>13, <1>15, <1>16, <1>17, <1>18, <1>19
         DEF ValveInv, Over

\* The invariant of the valves is one.
LEMMA ValveInvariant ==
  ValveSpec => []ValveInv
<1>1. ValveInv /\ [ValveNext]_valveVars => ValveInv'
  BY DropKeeps, MergeKeeps, RaiseKeeps, ShedKeeps, FillKeeps, ValveRests
     DEF ValveNext
<1> QED  BY <1>1, ValveStart, PTL DEF ValveSpec

\* Every variable of a tile's valve holds a value of its kind.
THEOREM ValveTyped == ValveSpec => []ValveType
<1>1. ValveInv => ValveType
  BY DEF ValveInv
<1> QED  BY <1>1, ValveInvariant, PTL

\* merge_to_fit, drop_to_fit: whatever its encodes weigh, a tile that is written
\* draws each member once, in a feature of its kind and band whose target is
\* the last before it, or reports it merged or dropped; what is dropped had
\* merged with nothing and is no larger than what unmerged member is kept.
THEOREM DrawnOrReported == ValveSpec => []NothingVanishes
<1>1. ValveInv => NothingVanishes
  BY ThinnedAndReported DEF ValveInv, ValveType, NothingVanishes
<1> QED  BY <1>1, ValveInvariant, PTL

\* merge_to_fit, drop_to_fit, with_fill: a tile is over its limit when it is
\* written only with no fill in it, and with one feature, or after as many
\* passes of dropping as are allowed, or with every gap merged and at most one
\* feature unmerged or the allowed sheds used.
THEOREM OverOnlyAtLast == ValveSpec => []LastResort
<1>1. ValveInv => LastResort
  BY DEF ValveInv
<1> QED  BY <1>1, ValveInvariant, PTL

-----------------------------------------------------------------------------
(* A plan is a sequence of partitions *)

\* plan_partitions' step: the last partition takes a key until it is full.
Joined(ps, k, l) ==
  IF ps # <<>> /\ Members(Last(ps), l) < run.target
    THEN Append(Front(ps), Append(Last(ps), k))
    ELSE Append(ps, <<k>>)

LEMMA JoinedType ==
  ASSUME NEW U, NEW ps \in Seq(Seq(U)), NEW k \in U, NEW l
  PROVE  Joined(ps, k, l) \in Seq(Seq(U))
<1>1. <<k>> \in Seq(U)
  OBVIOUS
<1>2. Append(ps, <<k>>) \in Seq(Seq(U))
  BY <1>1
<1>3. ASSUME ps # <<>>  PROVE Append(Front(ps), Append(Last(ps), k)) \in Seq(Seq(U))
  <2>1. Len(ps) \in Nat \ {0} /\ Last(ps) \in Seq(U)
    BY <1>3 DEF Last
  <2>2. Front(ps) \in Seq(Seq(U))
    BY <2>1 DEF Front
  <2>3. Append(Last(ps), k) \in Seq(U)
    BY <2>1
  <2> QED  BY <2>2, <2>3
<1> QED  BY <1>2, <1>3 DEF Joined

LEMMA Places1 ==
  ASSUME NEW n \in Nat
  PROVE  /\ Cardinality(1..n) = n
         /\ \A s \in SUBSET (1..n) : IsFiniteSet(s) /\ Cardinality(s) \in 0..n
<1>1. IsFiniteSet(1..n) /\ Cardinality(1..n) = IF 1 > n THEN 0 ELSE n - 1 + 1
  BY FS_Interval
<1>2. Cardinality(1..n) = n
  BY <1>1
<1>3. ASSUME NEW s \in SUBSET (1..n)
      PROVE  IsFiniteSet(s) /\ Cardinality(s) \in 0..n
  <2>1. IsFiniteSet(s) /\ Cardinality(s) <= Cardinality(1..n)
    BY <1>1, FS_Subset
  <2>2. Cardinality(s) \in Nat
    BY <2>1, FS_CardinalityType
  <2> QED  BY <1>2, <2>1, <2>2
<1> QED  BY <1>2, <1>3

LEMMA LastPlace ==
  ASSUME NEW n \in Nat, NEW s \in SUBSET (1..n), s # {}
  PROVE  /\ Max(s) \in s /\ s \ {Max(s)} \in SUBSET (1..n)
         /\ Cardinality(s) \in Nat \ {0}
         /\ Cardinality(s \ {Max(s)}) = Cardinality(s) - 1
<1> DEFINE D == {n - x : x \in s}
<1>1. D \in SUBSET Nat /\ D # {}
  <2>1. \A x \in s : n - x \in Nat
    OBVIOUS
  <2>2. \E x \in s : n - x \in D
    OBVIOUS
  <2> QED  BY <2>1, <2>2
<1>2. PICK d \in D : \A e \in D : d <= e
  BY <1>1, Smallest
<1>3. PICK x \in s : d = n - x
  BY <1>2
<1>4. ASSUME NEW y \in s  PROVE x >= y
  <2>1. n - x <= n - y
    BY <1>2, <1>3
  <2> QED  BY <2>1
<1>5. Max(s) \in s
  BY <1>4 DEF Max
<1>6. IsFiniteSet(s) /\ Cardinality(s) \in Nat \ {0}
  <2>1. IsFiniteSet(1..n)
    BY FS_Interval
  <2> QED  BY <2>1, FS_Subset, FS_CardinalityType, FS_EmptySet
<1>7. Cardinality(s \ {Max(s)}) = Cardinality(s) - 1
  BY <1>5, <1>6, FS_RemoveElement
<1> QED  BY <1>5, <1>6, <1>7

\* A fold from the left over keys, up to the sets of m places.
Joins(q, n, m, l, F) ==
  \A s \in SUBSET (1..n) : Cardinality(s) <= m =>
    F[s] = IF s = {} THEN <<>> ELSE Joined(F[s \ {Max(s)}], q[Max(s)], l)

LEMMA FoldsExist ==
  ASSUME NEW n \in Nat, NEW q, NEW l
  PROVE  \E F : /\ F = [s \in SUBSET (1..n) |-> F[s]] /\ Joins(q, n, n, l, F)
<1> DEFINE D == SUBSET (1..n)
           Good(m) == \E F : F = [s \in D |-> F[s]] /\ Joins(q, n, m, l, F)
           Bad == {m \in Nat : ~Good(m)}
<1>1. Good(0)
  <2> DEFINE F == [s \in D |-> <<>>]
  <2>1. ASSUME NEW s \in D, Cardinality(s) <= 0, s # {}  PROVE FALSE
    <3>1. Cardinality(s) \in Nat \ {0}
      BY <2>1, LastPlace
    <3> QED  BY <2>1, <3>1
  <2>2. F = [s \in D |-> F[s]] /\ Joins(q, n, 0, l, F)
    BY <2>1 DEF Joins
  <2> QED  BY <2>2
<1>2. ASSUME NEW m \in Nat, Good(m)  PROVE Good(m + 1)
  <2>1. PICK F : F = [s \in D |-> F[s]] /\ Joins(q, n, m, l, F)
    BY <1>2
  <2> DEFINE G == [s \in D |-> IF s = {} THEN <<>>
                               ELSE Joined(F[s \ {Max(s)}], q[Max(s)], l)]
  <2>2. ASSUME NEW s \in D, Cardinality(s) <= m  PROVE G[s] = F[s]
    BY <2>1, <2>2 DEF Joins
  <2>3. ASSUME NEW s \in D, Cardinality(s) <= m + 1, s # {}
        PROVE  G[s] = Joined(G[s \ {Max(s)}], q[Max(s)], l)
    <3>1. s \ {Max(s)} \in D /\ Cardinality(s \ {Max(s)}) <= m
      BY <2>3, LastPlace
    <3>2. G[s \ {Max(s)}] = F[s \ {Max(s)}]
      BY <2>2, <3>1
    <3>3. G[s] = Joined(F[s \ {Max(s)}], q[Max(s)], l)
      BY <2>3
    <3> HIDE DEF G
    <3> QED  BY <3>2, <3>3
  <2>4. G = [s \in D |-> G[s]] /\ G[{}] = <<>>
    OBVIOUS
  <2> HIDE DEF G
  <2>5. Joins(q, n, m + 1, l, G)
    BY <2>3, <2>4 DEF Joins
  <2> QED  BY <2>4, <2>5
<1> HIDE DEF Good
<1>3. Bad = {}
  <2>1. SUFFICES ASSUME Bad # {}  PROVE FALSE
    OBVIOUS
  <2>2. PICK m \in Bad : \A k \in Bad : m <= k
    BY <2>1, Smallest
  <2>3. m \in Nat /\ m # 0
    BY <1>1, <2>2
  <2>4. m - 1 \in Nat /\ m - 1 \notin Bad
    BY <2>2, <2>3
  <2>5. Good(m - 1)
    BY <2>4
  <2>6. Good(m - 1 + 1) /\ m - 1 + 1 = m
    BY <1>2, <2>3, <2>4, <2>5
  <2> QED  BY <2>2, <2>6
<1>4. Good(n)
  BY <1>3
<1> QED  BY <1>4 DEF Good

-----------------------------------------------------------------------------
(* The rows of a file *)

\* What a file is.
LEMMA FileShape ==
  ASSUME run \in Setups
  PROVE  /\ File \in Seq([band : Nat, rows : Seq(Spans)])
         /\ \A g \in DOMAIN File : /\ g \in Nat \ {0} /\ File[g].band \in Nat
                                   /\ File[g].rows \in Seq(Spans)
<1>1. File \in Seq([band : Nat, rows : Seq(Spans)])
  BY SetupsAssumption DEF File
<1> DEFINE Groups == [band : Nat, rows : Seq(Spans)]
<1>2. \A g \in Groups : g.band \in Nat /\ g.rows \in Seq(Spans)
  OBVIOUS
<1> HIDE DEF Groups
<1>3. \A f \in Seq(Groups) : \A g \in DOMAIN f : g \in Nat \ {0} /\ f[g] \in Groups
  OBVIOUS
<1>4. File \in Seq(Groups)
  BY <1>1 DEF Groups
<1> QED  BY <1>1, <1>2, <1>3, <1>4

\* What a row is.
LEMMA PlaceShape ==
  ASSUME run \in Setups
  PROVE  /\ \A p \in Places : /\ p[1] \in DOMAIN File /\ p[2] \in DOMAIN File[p[1]].rows
                              /\ p = <<p[1], p[2]>>
                              /\ p[1] \in Nat \ {0} /\ p[2] \in Nat \ {0}
                              /\ RowAt(p) \in Spans
         /\ \A g \in DOMAIN File : \A i \in DOMAIN File[g].rows : <<g, i>> \in Places
<1>1. ASSUME NEW p \in Places
      PROVE  /\ p[1] \in DOMAIN File /\ p[2] \in DOMAIN File[p[1]].rows
             /\ p = <<p[1], p[2]>>
  BY DEF Places
<1>2. ASSUME NEW p \in Places
      PROVE  p[1] \in Nat \ {0} /\ p[2] \in Nat \ {0} /\ RowAt(p) \in Spans
  <2>1. p[1] \in Nat \ {0} /\ File[p[1]].rows \in Seq(Spans)
    BY <1>1, FileShape
  <2>2. p[2] \in Nat \ {0} /\ File[p[1]].rows[p[2]] \in Spans
    BY <1>1, <2>1
  <2> QED  BY <2>1, <2>2 DEF RowAt
<1>3. \A g \in DOMAIN File : \A i \in DOMAIN File[g].rows : <<g, i>> \in Places
  BY DEF Places
<1> QED  BY <1>1, <1>2, <1>3

\* A file has finitely many rows.
LEMMA FewPlaces ==
  ASSUME run \in Setups
  PROVE  IsFiniteSet(Places)
<1> DEFINE group(g) == {<<g, i>> : i \in DOMAIN File[g].rows}
           groups == [g \in DOMAIN File |-> group(g)]
<1>1. IsFiniteSet(DOMAIN File)
  <2>1. DOMAIN File = 1..Len(File) /\ Len(File) \in Nat
    BY FileShape
  <2> QED  BY <2>1, FS_Interval
<1>2. ASSUME NEW g \in DOMAIN File  PROVE IsFiniteSet(group(g))
  <2> DEFINE f == [i \in DOMAIN File[g].rows |-> <<g, i>>]
  <2>1. {f[i] : i \in DOMAIN File[g].rows} = group(g)
    OBVIOUS
  <2>2. /\ DOMAIN File[g].rows = 1..Len(File[g].rows) /\ Len(File[g].rows) \in Nat
    BY FileShape
  <2>3. IsFiniteSet(DOMAIN File[g].rows)
    BY <2>2, FS_Interval
  <2> HIDE DEF f
  <2> QED  BY <2>1, <2>3, FewImages
<1>3. Places = UNION {groups[g] : g \in DOMAIN File}
  BY DEF Places
<1>4. \A T \in {groups[g] : g \in DOMAIN File} : IsFiniteSet(T)
  BY <1>2
<1> HIDE DEF groups
<1>5. IsFiniteSet({groups[g] : g \in DOMAIN File})
  BY <1>1, FewImages
<1> QED  BY <1>3, <1>4, <1>5, FS_UNION

InFileOrder == {e \in Places \X Places : Ahead(e[1], e[2])}

\* Its rows have an order.
LEMMA PlacesOrdered ==
  ASSUME run \in Setups, NEW P \in SUBSET Places
  PROVE  /\ IsFiniteSet(P) /\ Ordering(InFileOrder, P)
         /\ \A p, q \in P : <<p, q>> \in InFileOrder <=> Ahead(p, q)
         /\ \A p \in P : Below(InFileOrder, P, p) = {q \in P : Ahead(q, p)}
<1>1. IsFiniteSet(P)
  BY FewPlaces, FS_Subset
<1>2. \A p, q \in P : <<p, q>> \in InFileOrder <=> Ahead(p, q)
  BY DEF InFileOrder
<1>3. \A p \in P : p = <<p[1], p[2]>> /\ p[1] \in Nat /\ p[2] \in Nat
  BY PlaceShape
<1>4. \A p \in P : ~Ahead(p, p)
  BY <1>3 DEF Ahead
<1>5. \A p, q, r \in P : Ahead(p, q) /\ Ahead(q, r) => Ahead(p, r)
  BY <1>3 DEF Ahead
<1>6. \A p, q \in P : p # q => Ahead(p, q) \/ Ahead(q, p)
  <2>1. ASSUME NEW p \in P, NEW q \in P, ~Ahead(p, q), ~Ahead(q, p)  PROVE p = q
    <3>1. p[1] = q[1] /\ p[2] = q[2]
      BY <1>3, <2>1 DEF Ahead
    <3>2. p = <<p[1], p[2]>> /\ q = <<q[1], q[2]>>
      BY <1>3
    <3> QED  BY <3>1, <3>2
  <2> QED  BY <2>1
<1>7. Ordering(InFileOrder, P)
  BY <1>2, <1>4, <1>5, <1>6 DEF Ordering
<1>8. \A p \in P : Below(InFileOrder, P, p) = {q \in P : Ahead(q, p)}
  BY <1>2 DEF Below
<1> QED  BY <1>1, <1>2, <1>7, <1>8

\* A row's place tells how it lies to the others.
LEMMA GlobalOrder ==
  ASSUME run \in Setups
  PROVE  /\ \A p \in Places : Global(p) \in Nat
         /\ \A p, q \in Places : Global(p) < Global(q) <=> Ahead(p, q)
         /\ \A p, q \in Places : Global(p) = Global(q) => p = q
<1>1. Places \in SUBSET Places
  OBVIOUS
<1>2. /\ IsFiniteSet(Places) /\ Ordering(InFileOrder, Places)
      /\ \A p, q \in Places : <<p, q>> \in InFileOrder <=> Ahead(p, q)
      /\ \A p \in Places : Below(InFileOrder, Places, p) = {q \in Places : Ahead(q, p)}
  BY <1>1, PlacesOrdered
<1>3. \A p \in Places : Global(p) = Cardinality(Below(InFileOrder, Places, p))
  BY <1>2 DEF Global
<1> DEFINE r == [p \in Places |-> Cardinality(Below(InFileOrder, Places, p))]
           n == Cardinality(Places)
<1>4. /\ n \in Nat /\ \A p \in Places : r[p] \in 0..(n - 1)
      /\ \A p, q \in Places : r[p] = r[q] => p = q
      /\ \A p, q \in Places : r[p] < r[q] <=> <<p, q>> \in InFileOrder
  BY <1>2, Ranking
<1>5. \A p \in Places : r[p] = Global(p)
  BY <1>3
<1> HIDE DEF r, n
<1>6. \A p \in Places : Global(p) \in Nat
  BY <1>4, <1>5
<1> QED  BY <1>2, <1>4, <1>5, <1>6

\* The first of several rows.
LEMMA ForemostOf ==
  ASSUME run \in Setups, NEW P \in SUBSET Places, P # {}
  PROVE  Foremost(P) \in P /\ \A q \in P : q = Foremost(P) \/ Ahead(Foremost(P), q)
<1>1. /\ IsFiniteSet(P) /\ Ordering(InFileOrder, P)
      /\ \A p, q \in P : <<p, q>> \in InFileOrder <=> Ahead(p, q)
  BY PlacesOrdered
<1>2. Cardinality(P) \in Nat \ {0}
  BY <1>1, FS_CardinalityType, FS_EmptySet
<1> DEFINE r == [p \in P |-> Cardinality(Below(InFileOrder, P, p))]
           n == Cardinality(P)
<1>3. /\ \A p \in P : r[p] \in 0..(n - 1)
      /\ \A i \in 1..n : \E p \in P : r[p] = i - 1
      /\ \A p, q \in P : r[p] < r[q] <=> <<p, q>> \in InFileOrder
  BY <1>1, Ranking
<1> HIDE DEF r
<1>4. PICK p \in P : r[p] = 0
  <2>1. 1 \in 1..n
    BY <1>2
  <2> HIDE DEF n
  <2> QED  BY <1>3, <2>1
<1>5. \A q \in P : ~Ahead(q, p)
  <2>1. \A q \in P : ~(r[q] < r[p])
    BY <1>2, <1>3, <1>4
  <2> QED  BY <1>1, <1>3, <2>1
<1>6. Foremost(P) \in P /\ \A q \in P : ~Ahead(q, Foremost(P))
  BY <1>5 DEF Foremost
<1>7. \A x, y \in P : x # y => Ahead(x, y) \/ Ahead(y, x)
  BY <1>1 DEF Ordering
<1> QED  BY <1>6, <1>7

-----------------------------------------------------------------------------
(* Keys in ascending order *)

Smaller == {e \in Nat \X Nat : e[1] < e[2]}

\* Numbers have one.
LEMMA NumbersOrdered ==
  ASSUME NEW S \in SUBSET Nat
  PROVE  /\ Ordering(Smaller, S)
         /\ \A k, n \in Nat : <<k, n>> \in Smaller <=> k < n
         /\ \A k \in S : Below(Smaller, S, k) = {n \in S : n < k}
<1>1. \A k, n \in Nat : <<k, n>> \in Smaller <=> k < n
  BY DEF Smaller
<1>2. Ordering(Smaller, S)
  BY <1>1 DEF Ordering
<1> QED  BY <1>1, <1>2 DEF Below

\* The keys in order are the keys.
LEMMA AscendingOf ==
  ASSUME NEW S \in SUBSET Nat, IsFiniteSet(S)
  PROVE  /\ Ascending(S) \in Seq(S) /\ Len(Ascending(S)) = Cardinality(S)
         /\ \A k \in S : \E i \in 1..Len(Ascending(S)) : Ascending(S)[i] = k
         /\ \A i, j \in 1..Len(Ascending(S)) : i < j => Ascending(S)[i] < Ascending(S)[j]
<1> DEFINE n == Cardinality(S)
           s == Ascending(S)
<1>1. /\ Ordering(Smaller, S) /\ \A k, m \in Nat : <<k, m>> \in Smaller <=> k < m
      /\ \A k \in S : Below(Smaller, S, k) = {m \in S : m < k}
  BY NumbersOrdered
<1>2. \A i \in 1..n : s[i] = CHOOSE k \in S : Cardinality(Below(Smaller, S, k)) = i - 1
  <2>1. ASSUME NEW i \in 1..n
        PROVE  s[i] = CHOOSE k \in S : Cardinality(Below(Smaller, S, k)) = i - 1
    <3>1. s[i] = CHOOSE k \in S : Cardinality({m \in S : m < k}) = i - 1
      BY DEF Ascending
    <3> QED  BY <1>1, <3>1
  <2> QED  BY <2>1
<1> HIDE DEF s, n
<1>3. /\ n \in Nat /\ \A i \in 1..n : s[i] \in S
      /\ \A k \in S : \E i \in 1..n : s[i] = k
      /\ \A i, j \in 1..n : i < j => <<s[i], s[j]>> \in Smaller
  <2>1. Tells(s, n, Smaller, S)
    BY <1>1, <1>2, Nths DEF n
  <2> QED  BY <2>1 DEF Tells
<1>4. s \in Seq(S) /\ Len(s) = n
  <2>1. \A i \in 1..n : (CHOOSE k \in S : Cardinality({m \in S : m < k}) = i - 1) \in S
    <3>1. \A i \in 1..n : s[i] = CHOOSE k \in S : Cardinality({m \in S : m < k}) = i - 1
      BY DEF Ascending, s, n
    <3> QED  BY <1>3, <3>1
  <2>2. s \in [1..n -> S]
    BY <2>1 DEF Ascending, s, n
  <2> QED  BY <1>3, <2>2
<1>5. \A i, j \in 1..n : i < j => s[i] < s[j]
  BY <1>1, <1>3
<1> QED  BY <1>3, <1>4, <1>5 DEF s, n

\* Keys told in ascending order are in ascending order.
LEMMA AscendingIs ==
  ASSUME NEW S \in SUBSET Nat, NEW s \in Seq(S),
         \A k \in S : \E i \in 1..Len(s) : s[i] = k,
         \A i, j \in 1..Len(s) : i < j => s[i] < s[j]
  PROVE  Ascending(S) = s
<1> DEFINE n == Len(s)
<1>1. n \in Nat /\ \A i \in 1..n : s[i] \in S /\ s[i] \in Nat
  <2>1. n \in Nat /\ \A i \in 1..n : s[i] \in S
    OBVIOUS
  <2> QED  BY <2>1
<1>2. IsFiniteSet(S)
  <2>1. S = {s[i] : i \in 1..n}
    BY <1>1
  <2>2. PICK D : D = 1..n
    OBVIOUS
  <2>3. IsFiniteSet(D)
    BY <1>1, <2>2, FS_Interval
  <2> HIDE DEF n
  <2>4. IsFiniteSet({s[i] : i \in D})
    BY <2>3, FewImages
  <2> QED  BY <2>1, <2>2, <2>4
<1>3. /\ Ordering(Smaller, S) /\ \A k, m \in Nat : <<k, m>> \in Smaller <=> k < m
      /\ \A k \in S : Below(Smaller, S, k) = {m \in S : m < k}
  BY NumbersOrdered
<1>4. \A i, j \in 1..n : i < j => <<s[i], s[j]>> \in Smaller
  BY <1>1, <1>3
<1>5. /\ Cardinality(S) = n
      /\ \A i \in 1..n : Cardinality(Below(Smaller, S, s[i])) = i - 1
  <2>1. \A k \in S : \E i \in 1..n : s[i] = k
    OBVIOUS
  <2>2. n \in Nat /\ \A i \in 1..n : s[i] \in S
    BY <1>1
  <2>3. Ordering(Smaller, S)
    BY <1>3
  <2> HIDE DEF n
  <2>4. Tells(s, n, Smaller, S)
    BY <1>4, <2>1, <2>2 DEF Tells
  <2> QED  BY <1>2, <2>3, <2>4, Enumerating
<1>6. \A i \in 1..n : Cardinality({m \in S : m < s[i]}) = i - 1
  BY <1>1, <1>3, <1>5
<1>7. \A x, y \in S : Cardinality({m \in S : m < x}) = Cardinality({m \in S : m < y}) => x = y
  <2>1. \A x, y \in S : Cardinality(Below(Smaller, S, x)) = Cardinality(Below(Smaller, S, y))
                          => x = y
    BY <1>2, <1>3, Ranking
  <2> QED  BY <1>3, <2>1
<1>8. ASSUME NEW i \in 1..n
      PROVE  (CHOOSE k \in S : Cardinality({m \in S : m < k}) = i - 1) = s[i]
  BY <1>1, <1>6, <1>7
<1>9. Ascending(S) = [i \in 1..n |-> s[i]]
  BY <1>5, <1>8 DEF Ascending
<1> QED  BY <1>9

-----------------------------------------------------------------------------
(* Where a row's tiles lie *)

\* Finitely many integers have a least and a greatest.
LEMMA Extremes ==
  ASSUME NEW S \in SUBSET Int, IsFiniteSet(S), S # {}
  PROVE  /\ Min(S) \in S /\ \A x \in S : Min(S) <= x
         /\ Max(S) \in S /\ \A x \in S : x <= Max(S)
<1> DEFINE Up == {e \in Int \X Int : e[1] < e[2]}
           Down == {e \in Int \X Int : e[2] < e[1]}
<1>1. \A x, y \in Int : (<<x, y>> \in Up <=> x < y) /\ (<<x, y>> \in Down <=> y < x)
  OBVIOUS
<1> HIDE DEF Up, Down
<1>2. PICK x \in S : \A y \in S : x <= y
  <2>1. /\ \A v \in S : <<v, v>> \notin Up
        /\ \A v, y, w \in S : <<v, y>> \in Up /\ <<y, w>> \in Up => <<v, w>> \in Up
    BY <1>1
  <2>2. PICK x \in S : {y \in S : <<y, x>> \in Up} = {}
    BY <2>1, First
  <2>3. \A y \in S : ~(y < x)
    BY <1>1, <2>2
  <2> QED  BY <2>3
<1>3. PICK u \in S : \A y \in S : u >= y
  <2>1. /\ \A v \in S : <<v, v>> \notin Down
        /\ \A v, y, w \in S : <<v, y>> \in Down /\ <<y, w>> \in Down => <<v, w>> \in Down
    BY <1>1
  <2>2. PICK u \in S : {y \in S : <<y, u>> \in Down} = {}
    BY <2>1, First
  <2>3. \A y \in S : ~(u < y)
    BY <1>1, <2>2
  <2> QED  BY <2>3
<1>4. Min(S) \in S /\ \A y \in S : Min(S) <= y
  BY <1>2 DEF Min
<1>5. Max(S) \in S /\ \A y \in S : Max(S) >= y
  BY <1>3 DEF Max
<1>6. \A y \in S : Max(S) \in Int /\ y \in Int
  BY <1>5
<1> QED  BY <1>4, <1>5, <1>6

\* A column's width divides the world.
LEMMA WidthIs ==
  ASSUME NEW l \in Zooms
  PROVE  /\ 2^l \in Nat \ {0} /\ Width(l) \in Nat \ {0} /\ Width(l) * 2^l = World
         /\ \A c \in 0..(2^l - 1) : /\ c * Width(l) \in 0..World
                                    /\ (c + 1) * Width(l) \in 0..World
         /\ (2^l - 1 + 1) * Width(l) = World
<1>1. l \in Nat /\ World \in Nat \ {0} /\ World % 2^l = 0
  BY WorldAssumption DEF Zooms
<1>2. PICK n \in Nat \ {0} : n = 2^l
  BY <1>1, Subsets
<1>3. PICK w : w = World \div n
  OBVIOUS
<1>4. World % n = 0
  BY <1>1, <1>2
<1>5. w \in Nat /\ w * n = World
  <2>1. w \in Nat /\ w * n <= World
    BY <1>1, <1>3, Quotient
  <2>2. \A a \in Nat : a = n * (a \div n) + (a % n)
    OBVIOUS
  <2>2a. World = n * w + (World % n)
    BY <1>1, <1>3, <2>2
  <2>3. n * w = w * n
    BY <2>1
  <2> QED  BY <1>1, <1>4, <2>1, <2>2a, <2>3
<1>6. w # 0
  BY <1>1, <1>5
<1>7. ASSUME NEW c \in 0..n  PROVE c * w \in 0..World
  <2>1. n - c \in Nat /\ n = c + (n - c)
    OBVIOUS
  <2>2. PICK d \in Nat : n = c + d
    BY <2>1
  <2>3. w * (c + d) = c * w + d * w
    BY <1>5, <2>2
  <2>4. c * w \in Nat /\ d * w \in Nat
    BY <1>5
  <2> QED  BY <1>1, <1>5, <2>2, <2>3, <2>4
<1>8. \A c \in 0..(n - 1) : c \in 0..n /\ c + 1 \in 0..n
  OBVIOUS
<1>9. \A c \in 0..(n - 1) : c * w \in 0..World /\ (c + 1) * w \in 0..World
  BY <1>7, <1>8
<1>10. (n - 1 + 1) * w = World
  <2>1. n - 1 + 1 = n /\ n * w = w * n
    BY <1>5
  <2> QED  BY <1>5, <2>1
<1>11. Width(l) = w
  BY <1>2, <1>3 DEF Width
<1> QED  BY <1>2, <1>5, <1>6, <1>9, <1>10, <1>11

\* A buffer is no wider than a tile.
LEMMA BufferIs ==
  ASSUME run \in Setups, NEW l \in Zooms
  PROVE  Buffer(l) \in 0..Width(l)
<1>1. PICK w \in Nat, x \in 0..4 : w = Width(l) /\ x = run.pixels
  BY WidthIs, SetupsAssumption
<1>2. (w * x) \div 4 \in 0..w
  <2>1. x = 0 \/ x = 1 \/ x = 2 \/ x = 3 \/ x = 4
    OBVIOUS
  <2>2. w * 0 = 0 /\ w * 1 = w /\ w * 2 = 2 * w /\ w * 3 = 3 * w /\ w * 4 = 4 * w
    OBVIOUS
  <2> QED  BY <2>1, <2>2
<1> QED  BY <1>1, <1>2 DEF Buffer

\* What lies in a column or before it, or in it or after.
LEMMA ColumnIs ==
  ASSUME NEW l \in Zooms, NEW p \in Int
  PROVE  /\ ColumnAt(p, l) \in 0..(2^l - 1)
         /\ \A c \in 0..(2^l - 1) :
              /\ ColumnAt(p, l) <= c => p <= (c + 1) * Width(l) \/ p > World
              /\ c <= ColumnAt(p, l) => c * Width(l) <= p \/ p < 0
<1>1. PICK n \in Nat \ {0}, w \in Nat \ {0} :
        /\ n = 2^l /\ w = Width(l) /\ (n - 1 + 1) * w = World
        /\ \A c \in 0..(n - 1) : c * w \in 0..World /\ (c + 1) * w \in 0..World
  BY WidthIs
<1>2. World \in Nat
  BY WorldAssumption
<1>3. PICK m : m = Max({0, Min({p, World})})
  OBVIOUS
<1>4. m = IF p < 0 THEN 0 ELSE IF p > World THEN World ELSE p
  <2>1. Min({p, World}) = IF p <= World THEN p ELSE World
    BY <1>2, MinPair
  <2>2. PICK a \in Int : a = Min({p, World})
    BY <1>2, <2>1
  <2>3. Max({0, a}) = IF 0 <= a THEN a ELSE 0
    BY <2>2, MaxPair
  <2> QED  BY <1>2, <1>3, <2>1, <2>2, <2>3
<1>5. PICK d \in Nat : d = m \div w /\ d * w <= m /\ m < (d + 1) * w
  <2>1. m \in Nat
    BY <1>2, <1>4
  <2> QED  BY <2>1, Quotient
<1>6. PICK e : e = ColumnAt(p, l) /\ e = IF d <= n - 1 THEN d ELSE n - 1
  <2>1. ColumnAt(p, l) = Min({d, n - 1})
    BY <1>1, <1>3, <1>5 DEF ColumnAt
  <2>2. PICK b \in Int : b = n - 1
    BY <1>1
  <2>3. Min({d, b}) = IF d <= b THEN d ELSE b
    BY <1>5, <2>2, MinPair
  <2> QED  BY <2>1, <2>2, <2>3
<1>7. e \in 0..(n - 1)
  BY <1>6
<1>8. ASSUME NEW c \in 0..(n - 1), e <= c  PROVE p <= (c + 1) * w \/ p > World
  <2>1. CASE d <= n - 1
    <3>1. d + 1 \in Int /\ c + 1 \in Int /\ d + 1 <= c + 1
      BY <1>6, <1>8, <2>1
    <3>2. ~(c + 1 < d + 1) /\ (c + 1) * w \in Int /\ (d + 1) * w \in Int
      BY <1>1, <3>1
    <3>3. ~((c + 1) * w < (d + 1) * w)
      BY <1>1, <3>1, <3>2, Scaled
    <3>4. m < (c + 1) * w
      BY <1>2, <1>4, <1>5, <3>2, <3>3
    <3> QED  BY <1>1, <1>2, <1>4, <3>4
  <2>2. CASE ~(d <= n - 1)
    <3>1. c = n - 1
      BY <1>6, <1>8, <2>2
    <3>2. (c + 1) * w = World
      BY <1>1, <3>1
    <3> QED  BY <1>2, <3>2
  <2> QED  BY <2>1, <2>2
<1>9. ASSUME NEW c \in 0..(n - 1), c <= e  PROVE c * w <= p \/ p < 0
  <2>1. c <= d /\ c \in Int
    BY <1>6, <1>9
  <2>2. ~(d < c) /\ c * w \in Int /\ d * w \in Int
    BY <1>1, <2>1
  <2>3. ~(d * w < c * w)
    BY <1>1, <2>1, <2>2, Scaled
  <2>4. c * w <= m
    BY <1>2, <1>4, <1>5, <2>2, <2>3
  <2> QED  BY <1>2, <1>4, <2>2, <2>4
<1> QED  BY <1>1, <1>6, <1>7, <1>8, <1>9

KeysAt(l) == {Key[l][c] : c \in 0..(2^l - 1)}

\* A zoom's keys are finitely many, and each that of a column.
LEMMA KeysAre ==
  ASSUME NEW l \in Zooms
  PROVE  /\ KeysAt(l) \in SUBSET Nat /\ IsFiniteSet(KeysAt(l))
         /\ \A k \in KeysAt(l) : \E c \in 0..(2^l - 1) :
              k = Key[l][c] /\ TileBox(k, l) = <<c * Width(l), (c + 1) * Width(l)>>
<1> DEFINE columns == 0..(2^l - 1)
<1>1. Key[l] \in [columns -> Nat] /\ \A c, d \in columns : Key[l][c] = Key[l][d] => c = d
  BY KeyAssumption DEF Zooms
<1>2. IsFiniteSet(columns)
  <2>1. 2^l - 1 \in Int
    BY WidthIs
  <2> QED  BY <2>1, FS_Interval
<1>3. KeysAt(l) = {Key[l][c] : c \in columns}
  BY DEF KeysAt
<1> HIDE DEF columns
<1>4. IsFiniteSet(KeysAt(l))
  BY <1>2, <1>3, FewImages
<1>5. KeysAt(l) \in SUBSET Nat
  BY <1>1, <1>3
<1>6. ASSUME NEW k \in KeysAt(l)
      PROVE  \E c \in columns : k = Key[l][c]
                                /\ TileBox(k, l) = <<c * Width(l), (c + 1) * Width(l)>>
  <2>1. PICK c \in columns : k = Key[l][c]
    BY <1>3, <1>6
  <2>2. (CHOOSE d \in columns : Key[l][d] = k) = c
    BY <1>1, <2>1
  <2>3. DOMAIN Key[l] = columns
    BY <1>1
  <2> QED  BY <2>1, <2>2, <2>3 DEF TileBox
<1> QED  BY <1>4, <1>5, <1>6 DEF columns

\* What an extent is.
LEMMA SpanIs ==
  ASSUME NEW row \in Spans, row # <<>>
  PROVE  row[1] \in Int /\ row[2] \in Int /\ row[1] <= row[2]
BY DEF Spans

\* A row has a member in a tile through one of its copies.
LEMMA KeysShape ==
  ASSUME run \in Setups, NEW l \in Zooms, NEW row \in Spans
  PROVE  /\ KeysOf(row, l) \in SUBSET KeysAt(l)
         /\ \A k \in KeysOf(row, l) :
              /\ row # <<>>
              /\ \E s \in Shifts(row, l) : \E c \in 0..(2^l - 1) :
                   /\ k = Key[l][c]
                   /\ ColumnAt(row[1] + s - Buffer(l), l) <= c
                   /\ c <= ColumnAt(row[2] + s + Buffer(l), l)
<1>1. ASSUME NEW k \in KeysOf(row, l)
      PROVE  /\ row # <<>>
             /\ \E s \in Shifts(row, l) : \E c \in 0..(2^l - 1) :
                  /\ k = Key[l][c]
                  /\ ColumnAt(row[1] + s - Buffer(l), l) <= c
                  /\ c <= ColumnAt(row[2] + s + Buffer(l), l)
  <2>1. row # <<>>
    BY <1>1 DEF KeysOf
  <2>2. PICK s \in Shifts(row, l) :
          k \in {Key[l][c] : c \in ColumnAt(row[1] + s - Buffer(l), l)
                                    .. ColumnAt(row[2] + s + Buffer(l), l)}
    BY <1>1, <2>1 DEF KeysOf
  <2>3. PICK c \in ColumnAt(row[1] + s - Buffer(l), l)..ColumnAt(row[2] + s + Buffer(l), l) :
          k = Key[l][c]
    BY <2>2
  <2>4. /\ row[1] + s - Buffer(l) \in Int /\ row[2] + s + Buffer(l) \in Int
    <3>1. row[1] \in Int /\ row[2] \in Int
      BY <2>1, SpanIs
    <3>2. s \in Int
      BY WorldAssumption DEF Shifts
    <3>3. Buffer(l) \in Int
      BY BufferIs, WidthIs
    <3> QED  BY <3>1, <3>2, <3>3
  <2>5. PICK a \in 0..(2^l - 1), b \in 0..(2^l - 1) :
          /\ a = ColumnAt(row[1] + s - Buffer(l), l)
          /\ b = ColumnAt(row[2] + s + Buffer(l), l)
    BY <2>4, ColumnIs
  <2>6. c \in a..b
    BY <2>5
  <2>7. PICK n \in Int : n = 2^l
    BY WidthIs
  <2>8. a \in 0..(n - 1) /\ b \in 0..(n - 1)
    BY <2>5, <2>7
  <2>9. c \in 0..(n - 1) /\ a <= c /\ c <= b
    BY <2>6, <2>8
  <2> QED  BY <2>1, <2>3, <2>5, <2>7, <2>9
<1>2. ASSUME NEW k \in KeysOf(row, l)  PROVE k \in KeysAt(l)
  BY <1>1, <1>2 DEF KeysAt
<1> QED  BY <1>1, <1>2

\* One of its copies lies within a tile's width of each tile it has a member
\* in.
LEMMA NearTile ==
  ASSUME run \in Setups, NEW l \in Zooms, NEW row \in Spans, NEW k \in KeysOf(row, l)
  PROVE  \E s \in {-World, 0, World} :
           /\ TileBox(k, l)[1] - Width(l) <= row[2] + s
           /\ row[1] + s <= TileBox(k, l)[2] + Width(l)
<1>1. /\ row # <<>> /\ k \in KeysAt(l)
      /\ \E s \in Shifts(row, l) : \E c \in 0..(2^l - 1) :
           /\ k = Key[l][c]
           /\ ColumnAt(row[1] + s - Buffer(l), l) <= c
           /\ c <= ColumnAt(row[2] + s + Buffer(l), l)
  BY KeysShape
<1>2. PICK s \in Shifts(row, l), c \in 0..(2^l - 1) :
           /\ k = Key[l][c]
           /\ ColumnAt(row[1] + s - Buffer(l), l) <= c
           /\ c <= ColumnAt(row[2] + s + Buffer(l), l)
  BY <1>1
<1>3. TileBox(k, l) = <<c * Width(l), (c + 1) * Width(l)>>
  <2>1. PICK d \in 0..(2^l - 1) :
          k = Key[l][d] /\ TileBox(k, l) = <<d * Width(l), (d + 1) * Width(l)>>
    BY <1>1, KeysAre
  <2>2. d = c
    BY <1>2, <2>1, KeyAssumption DEF Zooms
  <2> QED  BY <2>1, <2>2
<1>4. PICK lo \in Int, hi \in Int, w \in Nat, b \in Nat, u \in Nat, v \in Nat :
        /\ lo = row[1] /\ hi = row[2] /\ lo <= hi
        /\ w = Width(l) /\ b = Buffer(l) /\ b <= w
        /\ u = c * w /\ v = (c + 1) * w /\ v <= World
  <2>1. PICK lo \in Int, hi \in Int : lo = row[1] /\ hi = row[2] /\ lo <= hi
    BY <1>1, SpanIs
  <2>2. PICK w \in Nat : /\ w = Width(l) /\ c * w \in 0..World
                         /\ (c + 1) * w \in 0..World
    BY WidthIs
  <2>3. PICK b \in Nat : b = Buffer(l) /\ b <= w
    BY <2>2, BufferIs
  <2>4. (c + 1) * w <= World
    BY <2>2, WorldAssumption
  <2> QED  BY <2>1, <2>2, <2>3, <2>4
<1>5. /\ World \in Nat \ {0} /\ s \in {-World, 0, World}
      /\ hi + s >= -b /\ lo + s <= World + b
  <2>1. World \in Nat \ {0}
    BY WorldAssumption
  <2>2. /\ s \in {-World, 0, World}
        /\ IF s = 0 THEN hi + s >= -b /\ lo + s <= World + b
                    ELSE hi + s > -b /\ lo + s < World + b
    BY <1>4 DEF Shifts
  <2> QED  BY <1>4, <2>1, <2>2
<1>6. PICK p \in Int, q \in Int :
        p = lo + s - b /\ q = hi + s + b /\ ColumnAt(p, l) <= c /\ c <= ColumnAt(q, l)
  <2>1. lo + s - b \in Int /\ hi + s + b \in Int
    BY <1>5
  <2> QED  BY <1>2, <1>4, <2>1
<1>7. p <= v \/ p > World
  BY <1>4, <1>6, ColumnIs
<1>8. u <= q \/ q < 0
  BY <1>4, <1>6, ColumnIs
<1>9. u - w <= hi + s /\ lo + s <= v + w
  BY <1>4, <1>5, <1>6, <1>7, <1>8
<1> QED  BY <1>3, <1>4, <1>5, <1>9

-----------------------------------------------------------------------------
(* Pruning *)

\* Finitely many boxes.
FewBoxes(B) == B \in SUBSET (Int \X Int) /\ IsFiniteSet(B)
\* x covers the box b.
Covers(x, b) == x \in Int \X Int /\ x[1] <= b[1] /\ b[2] <= x[2]

\* A hull is one box around the others.
LEMMA HullIs ==
  ASSUME NEW B, FewBoxes(B)
  PROVE  /\ FewBoxes(Hull(B))
         /\ B # {} => \E x : Hull(B) = {x} /\ \A b \in B : Covers(x, b)
<1>1. CASE B = {}
  <2>1. Hull(B) = {}
    BY <1>1 DEF Hull
  <2> QED  BY <1>1, <2>1, FS_EmptySet DEF FewBoxes
<1>2. CASE B # {}
  <2> DEFINE west == [b \in B |-> b[1]]
             east == [b \in B |-> b[2]]
             Ws == {b[1] : b \in B}
             Es == {b[2] : b \in B}
  <2>1. B \in SUBSET (Int \X Int) /\ IsFiniteSet(B)
    BY DEF FewBoxes
  <2>2. {west[b] : b \in B} = Ws /\ {east[b] : b \in B} = Es
    OBVIOUS
  <2>3. /\ Ws \in SUBSET Int /\ Es \in SUBSET Int /\ Ws # {} /\ Es # {}
        /\ \A b \in B : b[1] \in Ws /\ b[2] \in Es
    BY <1>2, <2>1
  <2> HIDE DEF west, east
  <2>4. IsFiniteSet({west[b] : b \in B}) /\ IsFiniteSet({east[b] : b \in B})
    BY <2>1, FewImages
  <2>5. PICK U, V : U = Ws /\ V = Es
    OBVIOUS
  <2>6. U \in SUBSET Int /\ V \in SUBSET Int /\ U # {} /\ V # {} /\ IsFiniteSet(U)
        /\ IsFiniteSet(V)
    BY <2>2, <2>3, <2>4, <2>5
  <2>7. /\ Min(U) \in U /\ \A x \in U : Min(U) <= x
        /\ Max(V) \in V /\ \A x \in V : x <= Max(V)
    BY <2>6, Extremes
  <2>8. Hull(B) = {<<Min(U), Max(V)>>}
    BY <1>2, <2>5 DEF Hull
  <2>9. PICK lo \in Int, hi \in Int : lo = Min(U) /\ hi = Max(V)
    BY <2>6, <2>7
  <2>10. \A b \in B : Covers(<<lo, hi>>, b)
    BY <2>3, <2>5, <2>7, <2>9 DEF Covers
  <2>11. Hull(B) = {<<lo, hi>>} /\ <<lo, hi>> \in Int \X Int
    BY <2>8, <2>9
  <2>12. FewBoxes(Hull(B))
    BY <2>11, FS_Singleton DEF FewBoxes
  <2> QED  BY <2>10, <2>11, <2>12
<1> QED  BY <1>1, <1>2

\* Boxes grow by a width on each side.
LEMMA GrownIs ==
  ASSUME NEW l \in Zooms, NEW B, FewBoxes(B)
  PROVE  /\ FewBoxes(Grown(B, l))
         /\ \A b \in B : <<b[1] - Width(l), b[2] + Width(l)>> \in Grown(B, l)
<1> DEFINE f == [b \in B |-> <<b[1] - Width(l), b[2] + Width(l)>>]
<1>1. Width(l) \in Int /\ B \in SUBSET (Int \X Int) /\ IsFiniteSet(B)
  BY WidthIs DEF FewBoxes
<1>2. {f[b] : b \in B} = Grown(B, l)
  BY DEF Grown
<1>3. \A b \in B : b[1] - Width(l) \in Int /\ b[2] + Width(l) \in Int
  BY <1>1
<1>4. Grown(B, l) \in SUBSET (Int \X Int)
  BY <1>3 DEF Grown
<1> HIDE DEF f
<1>5. IsFiniteSet(Grown(B, l))
  BY <1>1, <1>2, FewImages
<1> QED  BY <1>4, <1>5 DEF FewBoxes, Grown

\* A grown hull covers each box as grown.
LEMMA GrownHull ==
  ASSUME NEW l \in Zooms, NEW B, FewBoxes(B), NEW b \in B
  PROVE  \E x \in Grown(Hull(B), l) : Covers(x, <<b[1] - Width(l), b[2] + Width(l)>>)
<1>1. PICK h : Hull(B) = {h} /\ Covers(h, b) /\ FewBoxes(Hull(B))
  BY HullIs
<1>2. PICK w \in Int : w = Width(l)
  BY WidthIs
<1>3. /\ h[1] \in Int /\ h[2] \in Int /\ b[1] \in Int /\ b[2] \in Int
      /\ h[1] <= b[1] /\ b[2] <= h[2]
  BY <1>1 DEF Covers, FewBoxes
<1>4. <<h[1] - w, h[2] + w>> \in Grown(Hull(B), l)
  BY <1>1, <1>2 DEF Grown
<1>5. Covers(<<h[1] - w, h[2] + w>>, <<b[1] - w, b[2] + w>>)
  BY <1>3 DEF Covers
<1> QED  BY <1>2, <1>4, <1>5

\* The tile as grown, which is where its rows may lie.
Around(k, l) == <<TileBox(k, l)[1] - Width(l), TileBox(k, l)[2] + Width(l)>>

\* A planned tile's box is its column.
LEMMA TileBoxes ==
  ASSUME NEW l \in Zooms, NEW K \in SUBSET KeysAt(l)
  PROVE  /\ \A k \in K : TileBox(k, l) \in Int \X Int /\ Around(k, l) \in Int \X Int
         /\ FewBoxes({TileBox(k, l) : k \in K})
<1>1. ASSUME NEW k \in K  PROVE TileBox(k, l) \in Int \X Int /\ Around(k, l) \in Int \X Int
  <2>1. k \in KeysAt(l)
    OBVIOUS
  <2>2. PICK c \in 0..(2^l - 1) : TileBox(k, l) = <<c * Width(l), (c + 1) * Width(l)>>
    BY <2>1, KeysAre
  <2>3. PICK w \in Int, u \in Int, v \in Int :
          w = Width(l) /\ u = c * Width(l) /\ v = (c + 1) * Width(l)
    BY WidthIs
  <2>4. TileBox(k, l) = <<u, v>> /\ u - w \in Int /\ v + w \in Int
    BY <2>2, <2>3
  <2> QED  BY <2>3, <2>4 DEF Around
<1> DEFINE g == [k \in K |-> TileBox(k, l)]
<1>2. {g[k] : k \in K} = {TileBox(k, l) : k \in K}
  OBVIOUS
<1>3. IsFiniteSet(K)
  BY KeysAre, FS_Subset
<1> HIDE DEF g
<1>4. IsFiniteSet({g[k] : k \in K})
  BY <1>3, FewImages
<1> QED  BY <1>1, <1>2, <1>4 DEF FewBoxes

\* A partition's sides cover what is around its tiles.
LEMMA SidesCover ==
  ASSUME NEW l \in Zooms, NEW part, ToSet(part) \in SUBSET KeysAt(l)
  PROVE  /\ FewBoxes(WestSide(part, l) \cup EastSide(part, l))
         /\ \A k \in ToSet(part) : \E x \in WestSide(part, l) \cup EastSide(part, l) :
              Covers(x, Around(k, l))
<1> DEFINE B == {TileBox(k, l) : k \in ToSet(part)}
           Ws == {b \in B : West(b)}
           Es == {b \in B : ~West(b)}
<1>1. FewBoxes(B)
  BY TileBoxes
<1>2. WestSide(part, l) = Grown(Hull(Ws), l) /\ EastSide(part, l) = Grown(Hull(Es), l)
  BY DEF WestSide, EastSide
<1>3. \A k \in ToSet(part) : TileBox(k, l) \in B
  OBVIOUS
<1> HIDE DEF B
<1>4. FewBoxes(Ws) /\ FewBoxes(Es)
  <2>1. Ws \in SUBSET B /\ Es \in SUBSET B
    OBVIOUS
  <2> HIDE DEF Ws, Es
  <2> QED  BY <1>1, <2>1, FS_Subset DEF FewBoxes
<1>5. \A b \in B : b \in Ws \/ b \in Es
  OBVIOUS
<1> HIDE DEF Ws, Es
<1>6. FewBoxes(Grown(Hull(Ws), l)) /\ FewBoxes(Grown(Hull(Es), l))
  BY <1>4, HullIs, GrownIs
<1>7. FewBoxes(WestSide(part, l) \cup EastSide(part, l))
  BY <1>2, <1>6, FS_Union DEF FewBoxes
<1>8. ASSUME NEW k \in ToSet(part)
      PROVE  \E x \in WestSide(part, l) \cup EastSide(part, l) : Covers(x, Around(k, l))
  <2>1. PICK b \in B : b = TileBox(k, l)
    BY <1>3
  <2>2. Around(k, l) = <<b[1] - Width(l), b[2] + Width(l)>>
    BY <2>1 DEF Around
  <2>3. CASE b \in Ws
    BY <1>2, <1>4, <2>2, <2>3, GrownHull
  <2>4. CASE b \in Es
    BY <1>2, <1>4, <2>2, <2>4, GrownHull
  <2> QED  BY <1>5, <2>1, <2>3, <2>4
<1> QED  BY <1>7, <1>8

\* The sides of a partition cover its tiles.
LEMMA CoversAll ==
  ASSUME NEW x, NEW y, NEW b, Covers(x, y), Covers(y, b), b \in Int \X Int
  PROVE  Covers(x, b)
BY DEF Covers

\* Partitions of keys there are.
Keyed(l, a, n) ==
  /\ a \in Nat /\ n \in Nat
  /\ \A i \in a..n : ToSet(plan[l][i]) \in SUBSET KeysAt(l)

\* And so does the region of several.
LEMMA RegionCovers ==
  ASSUME NEW l \in Zooms, NEW a, NEW n, Keyed(l, a, n),
         NEW i \in a..n, NEW k \in ToSet(plan[l][i])
  PROVE  \E x \in Region(l, a, n) : Covers(x, Around(k, l))
<1>1. /\ a \in Nat /\ n \in Nat
      /\ \A j \in a..n : ToSet(plan[l][j]) \in SUBSET KeysAt(l)
  BY DEF Keyed
<1>2. TileBox(k, l) \in Int \X Int /\ Around(k, l) \in Int \X Int
  BY <1>1, TileBoxes
<1>3. CASE run.picked
  <2> DEFINE K == UNION {ToSet(plan[l][j]) : j \in a..n}
  <2>1. K \in SUBSET KeysAt(l) /\ k \in K
    BY <1>1
  <2>2. Region(l, a, n) = Grown({TileBox(m, l) : m \in K}, l)
    BY <1>3 DEF Region
  <2> HIDE DEF K
  <2>3. FewBoxes({TileBox(m, l) : m \in K})
    BY <2>1, TileBoxes
  <2>4. TileBox(k, l) \in {TileBox(m, l) : m \in K}
    BY <2>1
  <2>5. Around(k, l) \in Region(l, a, n)
    BY <2>2, <2>3, <2>4, GrownIs DEF Around
  <2>6. Covers(Around(k, l), Around(k, l))
    BY <1>2 DEF Covers
  <2> QED  BY <2>5, <2>6
<1>4. CASE ~run.picked
  <2> DEFINE sides == [j \in a..n |-> WestSide(plan[l][j], l) \cup EastSide(plan[l][j], l)]
             later == UNION {WestSide(plan[l][j], l) \cup EastSide(plan[l][j], l) :
                               j \in (a + 1)..n}
             Ws == WestSide(plan[l][a], l) \cup {x \in later : West(x)}
             Es == EastSide(plan[l][a], l) \cup {x \in later : ~West(x)}
  <2>1. Region(l, a, n) = Hull(Ws) \cup Hull(Es)
    BY <1>4 DEF Region
  <2>2. \A j \in a..n : FewBoxes(sides[j])
    BY <1>1, SidesCover
  <2>3. \E x \in sides[i] : Covers(x, Around(k, l))
    BY <1>1, SidesCover
  <2>4. /\ a \in a..n /\ \A j \in (a + 1)..n : j \in a..n
        /\ sides[i] \subseteq Ws \cup Es
    <3>1. a <= i /\ i <= n /\ a \in a..n /\ \A j \in (a + 1)..n : j \in a..n
      BY <1>1
    <3>2. i = a \/ i \in (a + 1)..n
      BY <1>1
    <3> QED  BY <3>1, <3>2
  <2>5. FewBoxes(Ws \cup Es)
    <3> DEFINE J == (a + 1)..n
    <3>1. IsFiniteSet(J) /\ \A j \in J : j \in a..n
      BY <1>1, FS_Interval
    <3>2. later = UNION {sides[j] : j \in J}
      BY <2>4
    <3>3. Ws \cup Es = later \cup sides[a]
      BY <2>4
    <3> HIDE DEF sides, later, Ws, Es, J
    <3>4. IsFiniteSet({sides[j] : j \in J})
      BY <3>1, FewImages
    <3>5. \A T \in {sides[j] : j \in J} : IsFiniteSet(T)
      BY <2>2, <3>1 DEF FewBoxes
    <3>6. IsFiniteSet(later)
      BY <3>2, <3>4, <3>5, FS_UNION
    <3>7. IsFiniteSet(sides[a]) /\ sides[a] \in SUBSET (Int \X Int)
      BY <2>2, <2>4 DEF FewBoxes
    <3>8. later \in SUBSET (Int \X Int)
      BY <2>2, <3>1, <3>2 DEF FewBoxes
    <3> QED  BY <3>3, <3>6, <3>7, <3>8, FS_Union DEF FewBoxes
  <2> HIDE DEF sides, later, Ws, Es
  <2>6. PICK x \in Ws \cup Es : Covers(x, Around(k, l))
    BY <2>3, <2>4
  <2>7. FewBoxes(Ws) /\ FewBoxes(Es)
    <3>1. Ws \subseteq Ws \cup Es /\ Es \subseteq Ws \cup Es
      OBVIOUS
    <3> QED  BY <2>5, <3>1, FS_Subset DEF FewBoxes
  <2>8. \E y \in Hull(Ws) \cup Hull(Es) : Covers(y, x)
    <3>1. CASE x \in Ws
      BY <2>7, <3>1, HullIs
    <3>2. CASE x \in Es
      BY <2>7, <3>2, HullIs
    <3> QED  BY <2>6, <3>1, <3>2
  <2>9. PICK y \in Hull(Ws) \cup Hull(Es) : Covers(y, x)
    BY <2>8
  <2>10. Covers(y, Around(k, l))
    BY <1>2, <2>6, <2>9, CoversAll
  <2> QED  BY <2>1, <2>9, <2>10
<1> QED  BY <1>3, <1>4

\* A row group that is not read holds no row of the tiles wanted.
LEMMA Unread ==
  ASSUME run \in Setups, NEW l \in Zooms, NEW a, NEW n, Keyed(l, a, n),
         NEW p \in Places, Draws(p[1], l), ~Reads(p[1], l, a, n),
         NEW i \in a..n, NEW k \in ToSet(plan[l][i])
  PROVE  k \notin KeysOf(RowAt(p), l)
<1>1. SUFFICES ASSUME k \in KeysOf(RowAt(p), l)  PROVE FALSE
  OBVIOUS
<1>2. RowAt(p) \in Spans /\ p[1] \in DOMAIN File /\ p[2] \in DOMAIN File[p[1]].rows
  BY PlaceShape
<1>3. RowAt(p) # <<>>
  BY <1>1, <1>2, KeysShape
<1> DEFINE B == ToSet(File[p[1]].rows) \ {<<>>}
<1>4. FewBoxes(B) /\ RowAt(p) \in B
  <2>1. PICK rs \in Seq(Spans) : rs = File[p[1]].rows
    BY <1>2, FileShape
  <2>2. \A x \in ToSet(rs) : x \in Spans
    BY DEF ToSet
  <2>3. B \in SUBSET (Int \X Int)
    BY <2>1, <2>2 DEF Spans
  <2>4. IsFiniteSet(ToSet(rs))
    <3>1. IsFiniteSet(DOMAIN rs)
      <4>1. DOMAIN rs = 1..Len(rs) /\ Len(rs) \in Nat
        OBVIOUS
      <4> QED  BY <4>1, FS_Interval
    <3>2. IsFiniteSet({rs[j] : j \in DOMAIN rs})
      BY <3>1, FewImages
    <3> QED  BY <3>2 DEF ToSet
  <2>5. IsFiniteSet(B)
    BY <2>1, <2>4, FS_Subset
  <2>6. RowAt(p) \in ToSet(File[p[1]].rows)
    BY <1>2 DEF ToSet, RowAt
  <2> QED  BY <1>3, <2>3, <2>5, <2>6 DEF FewBoxes
<1>5. PICK s \in Bounds(p[1]) :
        \A x \in Boxes(l, a, n) : ~(s[1] <= x[2] /\ x[1] <= s[2])
  BY DEF Reads
<1>6. Covers(s, RowAt(p))
  <2>1. s \in Hull(B)
    BY <1>5 DEF Bounds
  <2> HIDE DEF B
  <2> QED  BY <1>4, <2>1, HullIs
<1>7. PICK sh \in {-World, 0, World} :
        /\ TileBox(k, l)[1] - Width(l) <= RowAt(p)[2] + sh
        /\ RowAt(p)[1] + sh <= TileBox(k, l)[2] + Width(l)
  BY <1>1, <1>2, NearTile
<1>8. PICK x \in Region(l, a, n) : Covers(x, Around(k, l))
  BY RegionCovers
<1>9. -sh \in {-World, 0, World} /\ sh \in Int
  <2>1. World \in Int
    BY WorldAssumption
  <2> QED  BY <2>1
<1>10. <<x[1] + (-sh), x[2] + (-sh)>> \in Boxes(l, a, n)
  BY <1>8, <1>9 DEF Boxes
<1>11. PICK r1 \in Int, r2 \in Int, s1 \in Int, s2 \in Int, x1 \in Int, x2 \in Int :
         /\ r1 = RowAt(p)[1] /\ r2 = RowAt(p)[2] /\ s1 = s[1] /\ s2 = s[2]
         /\ x1 = x[1] /\ x2 = x[2]
  <2>1. RowAt(p)[1] \in Int /\ RowAt(p)[2] \in Int
    BY <1>2, <1>3, SpanIs
  <2>2. s[1] \in Int /\ s[2] \in Int /\ x[1] \in Int /\ x[2] \in Int
    BY <1>6, <1>8 DEF Covers
  <2> QED  BY <2>1, <2>2
<1>12. PICK t1 \in Int, t2 \in Int :
         t1 = TileBox(k, l)[1] - Width(l) /\ t2 = TileBox(k, l)[2] + Width(l)
  <2>1. Around(k, l) \in Int \X Int
    BY TileBoxes DEF Keyed
  <2> QED  BY <2>1 DEF Around
<1>13. /\ s1 <= r1 /\ r2 <= s2 /\ t1 <= r2 + sh /\ r1 + sh <= t2 /\ x1 <= t1 /\ t2 <= x2
  BY <1>6, <1>7, <1>8, <1>11, <1>12 DEF Covers, Around
<1>14. ~(s1 <= x2 + (-sh) /\ x1 + (-sh) <= s2)
  BY <1>5, <1>10, <1>11
<1> QED  BY <1>9, <1>13, <1>14

-----------------------------------------------------------------------------
(* The plan *)

\* plan_partitions takes the keys one by one.
LEMMA PartitionsFold ==
  ASSUME NEW l, IsFiniteSet(PlannedKeys(l))
  PROVE  LET q == Ascending(PlannedKeys(l))
             n == Cardinality(PlannedKeys(l))
         IN  \E P : /\ P[0] = <<>> /\ \A m \in 1..n : P[m] = Joined(P[m - 1], q[m], l)
                   /\ Partitions(l) = P[n]
<1> DEFINE q == Ascending(PlannedKeys(l))
           n == Cardinality(PlannedKeys(l))
           Step(g) == [s \in SUBSET (1..n) |->
              IF s = {} THEN <<>> ELSE Joined(g[s \ {Max(s)}], q[Max(s)], l)]
           F == CHOOSE g : g = Step(g)
<1>1. n \in Nat /\ DOMAIN q = 1..n
  BY FS_CardinalityType DEF Ascending
<1> HIDE DEF q, n
<1>2. Partitions(l) = F[1..n]
  <2>1. Partitions(l) =
          LET iter[s \in SUBSET DOMAIN q] ==
                IF s = {} THEN <<>> ELSE Joined(iter[s \ {Max(s)}], q[Max(s)], l)
          IN iter[DOMAIN q]
    BY DEF Partitions, FoldLeft, MapThenFoldSet, Joined, q
  <2> QED  BY <1>1, <2>1
<1>3. PICK G : G = [s \in SUBSET (1..n) |-> G[s]] /\ Joins(q, n, n, l, G)
  BY <1>1, FoldsExist
<1>4. \A s \in SUBSET (1..n) : Cardinality(s) <= n
  <2>1. ASSUME NEW s \in SUBSET (1..n)  PROVE Cardinality(s) <= n
    <3>1. Cardinality(s) \in 0..n
      BY <1>1, Places1
    <3> QED  BY <1>1, <3>1
  <2> QED  BY <2>1
<1>5. G = Step(G)
  <2>1. ASSUME NEW s \in SUBSET (1..n)  PROVE G[s] = Step(G)[s]
    BY <1>3, <1>4 DEF Joins
  <2> QED  BY <1>3, <2>1
<1>6. F = Step(F)
  BY <1>5
<1> HIDE DEF F
<1>7. \A s \in SUBSET (1..n) :
        F[s] = IF s = {} THEN <<>> ELSE Joined(F[s \ {Max(s)}], q[Max(s)], l)
  BY <1>6
<1> HIDE DEF Step
<1> DEFINE P == [m \in 0..n |-> F[1..m]]
<1>8. P[0] = <<>>
  <2>1. 0 \in 0..n /\ 1..0 = {} /\ {} \in SUBSET (1..n)
    BY <1>1
  <2> QED  BY <1>7, <2>1
<1>9. ASSUME NEW m \in 1..n  PROVE P[m] = Joined(P[m - 1], q[m], l)
  <2>1. /\ 1..m \in SUBSET (1..n) /\ m \in 1..m /\ m \in 0..n /\ m - 1 \in 0..n
        /\ (1..m) \ {m} = 1..(m - 1)
    BY <1>1
  <2>2. Max(1..m) = m
    <3>1. m \in Nat /\ m \in 1..m
      BY <1>1
    <3>2. m \in 0..m /\ 1..m \in SUBSET (0..m) /\ 1..m # {} /\ m \in Nat
      BY ONLY <3>1
    <3>3. PICK x : x = Max(1..m)
      OBVIOUS
    <3>4. x \in 1..m /\ \A y \in 1..m : y <= x
      BY <3>2, <3>3, MaxOf
    <3> QED  BY <2>1, <3>3, <3>4
  <2>3. PICK s \in SUBSET (1..n) : s = 1..m
    BY <2>1
  <2>4. F[s] = Joined(F[s \ {Max(s)}], q[Max(s)], l)
    BY <1>7, <2>1, <2>3
  <2>5. F[1..m] = Joined(F[1..(m - 1)], q[m], l)
    BY <2>1, <2>2, <2>3, <2>4
  <2> QED  BY <2>1, <2>5
<1>10. Partitions(l) = P[n]
  BY <1>1, <1>2
<1> HIDE DEF P
<1>11. \E R : /\ R[0] = <<>> /\ \A m \in 1..n : R[m] = Joined(R[m - 1], q[m], l)
              /\ Partitions(l) = R[n]
  BY <1>8, <1>9, <1>10
<1> QED  BY <1>11 DEF q, n

\* ps is S in ascending order, cut into parts none of which is empty.
Split(ps, S) ==
  /\ ps \in Seq(Seq(S))
  /\ \A i \in 1..Len(ps) : Len(ps[i]) > 0
  /\ \A i \in 1..Len(ps) : \A x, y \in 1..Len(ps[i]) : x < y => ps[i][x] < ps[i][y]
  /\ \A i, j \in 1..Len(ps) : i < j =>
       \A x \in 1..Len(ps[i]), y \in 1..Len(ps[j]) : ps[i][x] < ps[j][y]
  /\ \A k \in S : \E i \in 1..Len(ps) : \E x \in 1..Len(ps[i]) : ps[i][x] = k

\* A key more leaves the keys so far split.
LEMMA SplitJoins ==
  ASSUME NEW S \in SUBSET Nat, NEW ps, Split(ps, S), NEW k \in Nat, \A x \in S : x < k, NEW l
  PROVE  Split(Joined(ps, k, l), S \cup {k})
<1> DEFINE m == Len(ps)
           U == S \cup {k}
           t == Joined(ps, k, l)
<1>1. /\ m \in Nat /\ \A i \in 1..m : ps[i] \in Seq(S) /\ Len(ps[i]) \in Nat \ {0}
      /\ \A i \in 1..m : \A x \in 1..Len(ps[i]) : ps[i][x] \in S
  <2>1. ps \in Seq(Seq(S)) /\ \A i \in 1..m : Len(ps[i]) > 0
    BY DEF Split
  <2>2. m \in Nat /\ \A i \in 1..m : ps[i] \in Seq(S)
    BY <2>1
  <2>3. \A s \in Seq(S) : Len(s) \in Nat /\ \A x \in 1..Len(s) : s[x] \in S
    OBVIOUS
  <2> QED  BY <2>1, <2>2, <2>3
<1>2. U \in SUBSET Nat /\ t \in Seq(Seq(U))
  <2>1. ps \in Seq(Seq(U)) /\ k \in U
    <3>1. S \subseteq U
      OBVIOUS
    <3>2. \A i \in 1..m : ps[i] \in Seq(U)
      <4>1. \A s \in Seq(S) : s \in Seq(U)
        BY <3>1
      <4> HIDE DEF U
      <4> QED  BY <1>1, <4>1
    <3>3. ps \in Seq(Seq(S))
      BY DEF Split
    <3> HIDE DEF U
    <3>4. ps \in Seq(Seq(U))
      BY <3>2, <3>3
    <3> QED  BY <3>4 DEF U
  <2> QED  BY <2>1, JoinedType
\* What is where, after the key has joined.
<1>3. \E n \in Nat : \E old \in Nat :
        /\ Len(t) = n /\ n \in Nat \ {0} /\ old = Len(t[n]) - 1
        /\ (n = m \/ (n = m + 1 /\ old = 0))
        /\ (n = m => old = Len(ps[m]) /\ \A x \in 1..old : t[n][x] = ps[m][x])
        /\ t[n][old + 1] = k /\ \A i \in 1..(n - 1) : i \in 1..m /\ t[i] = ps[i]
  <2>1. ps \in Seq(Seq(S))
    BY DEF Split
  <2>2. CASE ps # <<>> /\ Members(Last(ps), l) < run.target
    <3>1. m \in 1..m /\ Last(ps) = ps[m] /\ Front(ps) = SubSeq(ps, 1, m - 1)
      BY <1>1, <2>1, <2>2 DEF Last, Front
    <3>2. PICK part \in Seq(S) : part = ps[m]
      BY <1>1, <3>1
    <3>3. PICK f : f = SubSeq(ps, 1, m - 1)
      OBVIOUS
    <3>4. f \in Seq(Seq(S)) /\ Len(f) = m - 1 /\ \A i \in 1..(m - 1) : f[i] = ps[i]
      <4> DEFINE V == Seq(S)
      <4>1. ps \in Seq(V) /\ Len(ps) = m /\ m \in Nat \ {0}
        BY <1>1, <2>1, <3>1
      <4> HIDE DEF V, m
      <4>2. f = SubSeq(ps, 1, m - 1)
        BY <3>3
      <4>3. f \in Seq(V) /\ Len(f) = m - 1 /\ \A i \in 1..(m - 1) : f[i] = ps[i]
        BY <4>1, <4>2
      <4> QED  BY <4>3 DEF V
    <3>5. PICK p : p = Append(part, k)
      OBVIOUS
    <3>6. /\ Len(p) = Len(part) + 1 /\ p[Len(part) + 1] = k
          /\ \A x \in 1..Len(part) : p[x] = part[x]
      BY <3>5
    <3>7. t = Append(f, p)
      BY <2>2, <3>1, <3>2, <3>3, <3>5 DEF Joined
    <3>8. Len(t) = m /\ t[m] = p /\ \A i \in 1..(m - 1) : t[i] = f[i]
      BY <1>1, <3>1, <3>4, <3>7
    <3> HIDE DEF t, m
    <3>9. m \in Nat \ {0} /\ Len(part) \in Nat /\ Len(part) = Len(t[m]) - 1
      BY <1>1, <3>1, <3>2, <3>6, <3>8
    <3>10. m # m + 1
      BY <3>9
    <3>11. t[m][Len(part) + 1] = k /\ \A x \in 1..Len(part) : t[m][x] = ps[m][x]
      BY <3>2, <3>6, <3>8
    <3>12. \A i \in 1..(m - 1) : i \in 1..m /\ t[i] = ps[i]
      BY <3>4, <3>8, <3>9
    <3> QED  BY <3>2, <3>8, <3>9, <3>11, <3>12
  <2>3. CASE ~(ps # <<>> /\ Members(Last(ps), l) < run.target)
    <3>1. t = Append(ps, <<k>>)
      BY <2>3 DEF Joined
    <3>2. Len(t) = m + 1 /\ t[m + 1] = <<k>> /\ \A i \in 1..m : t[i] = ps[i]
      BY <1>1, <2>1, <3>1
    <3> HIDE DEF t, m
    <3>3. m + 1 \in Nat \ {0} /\ m + 1 # m /\ m + 1 - 1 = m
      BY <1>1
    <3>4. Len(t[m + 1]) - 1 = 0 /\ t[m + 1][0 + 1] = k
      BY <3>2
    <3>5. PICK n \in Nat \ {0} : n = m + 1 /\ n # m
      BY <3>3
    <3>6. \A i \in 1..(n - 1) : i \in 1..m /\ t[i] = ps[i]
      BY <1>1, <3>2, <3>3, <3>5
    <3>7. \A x \in 1..0 : FALSE
      OBVIOUS
    <3>8. 0 = Len(t[n]) - 1 /\ t[n][0 + 1] = k /\ Len(t) = n
      BY <3>2, <3>4, <3>5
    <3> QED  BY <3>5, <3>6, <3>7, <3>8
  <2> QED  BY <2>2, <2>3
<1>4. PICK n \in Nat, old \in Nat :
        /\ Len(t) = n /\ n \in Nat \ {0} /\ old = Len(t[n]) - 1
        /\ (n = m \/ (n = m + 1 /\ old = 0))
        /\ (n = m => old = Len(ps[m]) /\ \A x \in 1..old : t[n][x] = ps[m][x])
        /\ t[n][old + 1] = k /\ \A i \in 1..(n - 1) : i \in 1..m /\ t[i] = ps[i]
  BY <1>3
<1>5. n \in 1..n /\ t[n] \in Seq(U) /\ Len(t[n]) = old + 1
  <2>1. n \in 1..n
    BY <1>4
  <2>2. t[n] \in Seq(U)
    BY <1>2, <1>4, <2>1
  <2>3. Len(t[n]) \in Nat
    BY <2>2
  <2> QED  BY <1>4, <2>1, <2>2, <2>3
<1> HIDE DEF t, m, U
<1>6. \A i \in 1..n : i # n => i \in 1..(n - 1)
  BY <1>4
\* What is told of S, by places.
<1>7. /\ \A i \in 1..m : \A x, y \in 1..Len(ps[i]) : x < y => ps[i][x] < ps[i][y]
      /\ \A i, j \in 1..m : i < j =>
           \A x \in 1..Len(ps[i]), y \in 1..Len(ps[j]) : ps[i][x] < ps[j][y]
      /\ \A d \in S : \E i \in 1..m : \E x \in 1..Len(ps[i]) : ps[i][x] = d
  BY DEF Split, m
<1>8. ASSUME NEW x \in 1..old  PROVE n = m /\ n \in 1..m /\ x \in 1..Len(ps[n])
                                     /\ t[n][x] = ps[n][x] /\ ps[n][x] \in S
  BY <1>1, <1>4, <1>5, <1>8
<1>9. \A i \in 1..n : Len(t[i]) > 0
  BY <1>1, <1>4, <1>5, <1>6
<1>10. ASSUME NEW i \in 1..n, NEW x \in 1..Len(t[i]), NEW y \in 1..Len(t[i]), x < y
       PROVE  t[i][x] < t[i][y]
  <2>1. CASE i # n
    BY <1>4, <1>6, <1>7, <1>10, <2>1
  <2>2. CASE i = n
    <3>1. x \in 1..old
      BY <1>5, <1>10, <2>2
    <3>2. CASE y = old + 1
      BY <1>4, <1>8, <2>2, <3>1, <3>2
    <3>3. CASE y # old + 1
      <4>1. y \in 1..old
        BY <1>5, <2>2, <3>3
      <4> QED  BY <1>7, <1>8, <1>10, <2>2, <3>1, <4>1
    <3> QED  BY <3>2, <3>3
  <2> QED  BY <2>1, <2>2
<1>11. ASSUME NEW i \in 1..n, NEW j \in 1..n, i < j,
              NEW x \in 1..Len(t[i]), NEW y \in 1..Len(t[j])
       PROVE  t[i][x] < t[j][y]
  <2>1. i \in 1..(n - 1) /\ i \in 1..m /\ t[i] = ps[i] /\ x \in 1..Len(ps[i])
    BY <1>4, <1>11
  <2>2. CASE j # n
    <3>1. j \in 1..m /\ t[j] = ps[j]
      BY <1>4, <1>6, <2>2
    <3> QED  BY <1>7, <1>11, <2>1, <3>1
  <2>3. CASE j = n
    <3>1. t[i][x] \in S
      BY <1>1, <2>1
    <3>2. CASE y = old + 1
      BY <1>4, <2>3, <3>1, <3>2
    <3>3. CASE y # old + 1
      <4>1. y \in 1..old
        BY <1>5, <2>3, <3>3
      <4>2. n \in 1..m /\ y \in 1..Len(ps[n]) /\ t[n][y] = ps[n][y]
        BY <1>8, <4>1
      <4> QED  BY <1>7, <1>11, <2>1, <2>3, <4>2
    <3> QED  BY <3>2, <3>3
  <2> QED  BY <2>2, <2>3
<1>12. ASSUME NEW d \in U  PROVE \E i \in 1..n : \E x \in 1..Len(t[i]) : t[i][x] = d
  <2>1. CASE d = k
    <3>1. old + 1 \in 1..Len(t[n])
      BY <1>5
    <3> QED  BY <1>4, <1>5, <2>1, <3>1
  <2>2. CASE d # k
    <3>1. d \in S
      BY <2>2 DEF U
    <3>2. PICK i \in 1..m : \E x \in 1..Len(ps[i]) : ps[i][x] = d
      BY <1>7, <3>1
    <3>2a. PICK x \in 1..Len(ps[i]) : ps[i][x] = d
      BY <3>2
    <3>3. i \in 1..n
      BY <1>1, <1>4
    <3>4. CASE i = n
      <4>1. n = m /\ x \in 1..old /\ x \in 1..Len(t[n]) /\ t[n][x] = ps[n][x]
        BY <1>1, <1>4, <1>5, <3>2a, <3>4
      <4> QED  BY <1>5, <3>2a, <3>4, <4>1
    <3>5. CASE i # n
      <4>1. t[i] = ps[i]
        BY <1>4, <1>6, <3>3, <3>5
      <4> QED  BY <3>2a, <3>3, <4>1
    <3> QED  BY <3>4, <3>5
  <2> QED  BY <2>1, <2>2
<1>13. Split(t, U)
  BY <1>2, <1>4, <1>9, <1>10, <1>11, <1>12 DEF Split
<1> QED  BY <1>13 DEF t, U

\* The plan of a level is its planned keys, so cut.
LEMMA PlanSplit ==
  ASSUME NEW l, IsFiniteSet(PlannedKeys(l)), PlannedKeys(l) \in SUBSET Nat
  PROVE  Split(Partitions(l), PlannedKeys(l))
<1> DEFINE S == PlannedKeys(l)
           q == Ascending(S)
           n == Cardinality(S)
<1>1. /\ n \in Nat /\ Len(q) = n /\ \A i \in 1..n : q[i] \in S /\ q[i] \in Nat
      /\ \A k \in S : \E i \in 1..n : q[i] = k
      /\ \A i, j \in 1..n : i < j => q[i] < q[j]
  <2>1. /\ q \in Seq(S) /\ Len(q) = n
        /\ \A k \in S : \E i \in 1..Len(q) : q[i] = k
        /\ \A i, j \in 1..Len(q) : i < j => q[i] < q[j]
    BY AscendingOf
  <2> HIDE DEF q, S
  <2>2. n \in Nat /\ \A i \in 1..n : q[i] \in S
    BY <2>1, FS_CardinalityType
  <2> QED  BY <2>1, <2>2 DEF S
<1>2. PICK P : /\ P[0] = <<>> /\ \A m \in 1..n : P[m] = Joined(P[m - 1], q[m], l)
               /\ Partitions(l) = P[n]
  BY PartitionsFold
<1> HIDE DEF q, n, S
<1> DEFINE T(m) == {q[i] : i \in 1..m}
           Good(m) == Split(P[m], T(m))
           Bad == {m \in 0..n : ~Good(m)}
<1>3. Good(0)
  <2>1. T(0) = {} /\ P[0] = <<>>
    BY <1>2
  <2>2. Split(<<>>, {})
    BY DEF Split
  <2> QED  BY <2>1, <2>2
<1>4. ASSUME NEW m \in 1..n, Good(m - 1)  PROVE Good(m)
  <2>1. /\ T(m - 1) \in SUBSET Nat /\ q[m] \in Nat /\ \A x \in T(m - 1) : x < q[m]
        /\ T(m) = T(m - 1) \cup {q[m]}
    <3>1. /\ \A i \in 1..(m - 1) : i \in 1..n /\ i < m /\ i \in 1..m
          /\ \A i \in 1..m : i = m \/ i \in 1..(m - 1)
          /\ m \in 1..m
      BY <1>1
    <3> QED  BY <1>1, <3>1
  <2> HIDE DEF T
  <2>2. Split(Joined(P[m - 1], q[m], l), T(m - 1) \cup {q[m]})
    BY <1>4, <2>1, SplitJoins
  <2> QED  BY <1>2, <2>1, <2>2
<1>5. Bad = {}
  <2>1. SUFFICES ASSUME Bad # {}  PROVE FALSE
    OBVIOUS
  <2> HIDE DEF Good
  <2>2. PICK k \in Bad : \A j \in Bad : k <= j
    <3>1. Bad \in SUBSET Nat
      BY <1>1
    <3> HIDE DEF Bad
    <3> QED  BY <2>1, <3>1, Smallest
  <2>3. k \in 1..n /\ k - 1 \in 0..n
    BY <1>1, <1>3, <2>2
  <2>4. k - 1 \notin Bad
    BY <1>1, <2>2, <2>3
  <2> QED  BY <1>4, <2>2, <2>3, <2>4
<1>6. Good(n)
  <2>1. n \in 0..n
    BY <1>1
  <2> HIDE DEF Good
  <2> QED  BY <1>5, <2>1
<1>7. T(n) = S
  BY <1>1
<1> QED  BY <1>2, <1>6, <1>7 DEF S

-----------------------------------------------------------------------------
(* Its partitions and waves *)

\* The rows with a member in a level's tile.
DrawnRows(l, key) == {p \in Places : Draws(p[1], l) /\ key \in KeysOf(RowAt(p), l)}

\* The planned keys are the wanted ones of those with a row.
LEMMA PlannedAre ==
  ASSUME run \in Setups, NEW l \in Zooms
  PROVE  /\ PlannedKeys(l) \in SUBSET KeysAt(l) /\ PlannedKeys(l) \in SUBSET Nat
         /\ IsFiniteSet(PlannedKeys(l))
         /\ \A k \in PlannedKeys(l) : k \in run.tiles[l] /\ DrawnRows(l, k) # {}
         /\ \A k \in run.tiles[l] : DrawnRows(l, k) # {} => k \in PlannedKeys(l)
<1>1. ASSUME NEW k
      PROVE  /\ Count(k, l) = Cardinality(DrawnRows(l, k))
             /\ IsFiniteSet(DrawnRows(l, k))
  <2>1. Count(k, l) = Cardinality(DrawnRows(l, k))
    BY DEF Count, DrawnRows
  <2>2. DrawnRows(l, k) \in SUBSET Places
    BY DEF DrawnRows
  <2> QED  BY <2>1, <2>2, FewPlaces, FS_Subset
<1>2. \A k : Count(k, l) > 0 <=> DrawnRows(l, k) # {}
  BY <1>1, FS_EmptySet, FS_CardinalityType
<1>3. ASSUME NEW k, DrawnRows(l, k) # {}  PROVE k \in KeysAt(l)
  <2>1. PICK p \in Places : k \in KeysOf(RowAt(p), l)
    BY <1>3 DEF DrawnRows
  <2>2. RowAt(p) \in Spans
    BY PlaceShape
  <2> QED  BY <2>1, <2>2, KeysShape
<1>4. PlannedKeys(l) \in SUBSET KeysAt(l)
  BY <1>2, <1>3 DEF PlannedKeys
<1>5. KeysAt(l) \in SUBSET Nat /\ IsFiniteSet(KeysAt(l))
  BY KeysAre
<1>6. IsFiniteSet(PlannedKeys(l))
  BY <1>4, <1>5, FS_Subset
<1> QED  BY <1>2, <1>4, <1>5, <1>6 DEF PlannedKeys

\* The parts of what is split.
LEMMA PartsAre ==
  ASSUME NEW S \in SUBSET Nat, NEW ps, Split(ps, S)
  PROVE  /\ Len(ps) \in Nat /\ (ps = <<>> <=> Len(ps) = 0)
         /\ \A i \in 1..Len(ps) :
              /\ ps[i] \in Seq(S) /\ Len(ps[i]) \in Nat \ {0}
              /\ DOMAIN ps[i] = 1..Len(ps[i]) /\ \A x \in DOMAIN ps[i] : ps[i][x] \in S
              /\ ToSet(ps[i]) \in SUBSET S /\ ps[i][1] \in ToSet(ps[i])
              /\ \A k \in ToSet(ps[i]) : ps[i][1] <= k
              /\ Ascending(ToSet(ps[i])) = ps[i]
         /\ \A i, j \in 1..Len(ps) : i < j =>
              \A k \in ToSet(ps[i]), d \in ToSet(ps[j]) : k < d
         /\ \A k \in S : \E i \in 1..Len(ps) : k \in ToSet(ps[i])
<1>1. /\ ps \in Seq(Seq(S))
      /\ \A i \in 1..Len(ps) : Len(ps[i]) > 0
      /\ \A i \in 1..Len(ps) : \A x, y \in 1..Len(ps[i]) : x < y => ps[i][x] < ps[i][y]
      /\ \A i, j \in 1..Len(ps) : i < j =>
           \A x \in 1..Len(ps[i]), y \in 1..Len(ps[j]) : ps[i][x] < ps[j][y]
      /\ \A k \in S : \E i \in 1..Len(ps) : \E x \in 1..Len(ps[i]) : ps[i][x] = k
  BY DEF Split
<1>2. /\ Len(ps) \in Nat /\ (ps = <<>> <=> Len(ps) = 0)
      /\ \A i \in 1..Len(ps) : ps[i] \in Seq(S)
  BY <1>1
<1>3. \A s \in Seq(S) : /\ Len(s) \in Nat /\ DOMAIN s = 1..Len(s)
                        /\ \A x \in DOMAIN s : s[x] \in S
  OBVIOUS
<1>4. \A i \in 1..Len(ps) :
        /\ ps[i] \in Seq(S) /\ Len(ps[i]) \in Nat \ {0}
        /\ DOMAIN ps[i] = 1..Len(ps[i]) /\ \A x \in DOMAIN ps[i] : ps[i][x] \in S
  BY <1>1, <1>2, <1>3
<1>5. \A i \in 1..Len(ps) : /\ ToSet(ps[i]) \in SUBSET S
                            /\ \A k \in ToSet(ps[i]) : \E x \in 1..Len(ps[i]) : ps[i][x] = k
  BY <1>4 DEF ToSet
<1>6. ASSUME NEW i \in 1..Len(ps)
      PROVE  ps[i][1] \in ToSet(ps[i]) /\ \A k \in ToSet(ps[i]) : ps[i][1] <= k
  <2>1. 1 \in 1..Len(ps[i])
    BY <1>4
  <2>2. ps[i][1] \in ToSet(ps[i])
    BY <1>4, <2>1 DEF ToSet
  <2>3. ASSUME NEW k \in ToSet(ps[i])  PROVE ps[i][1] <= k
    <3>1. PICK x \in 1..Len(ps[i]) : ps[i][x] = k
      BY <1>5, <2>3
    <3>2. x = 1 \/ 1 < x
      BY <1>4
    <3>3. ps[i][1] \in Nat /\ k \in Nat
      BY <1>5, <2>2
    <3> QED  BY <1>1, <2>1, <3>1, <3>2, <3>3
  <2> QED  BY <2>2, <2>3
<1>7. ASSUME NEW i \in 1..Len(ps)  PROVE Ascending(ToSet(ps[i])) = ps[i]
  <2>1. PICK s \in Seq(S) : s = ps[i]
    BY <1>4
  <2>2. PICK T \in SUBSET Nat : T = ToSet(s)
    BY <1>5, <2>1
  <2>3. s \in Seq(T)
    <3>1. \A x \in 1..Len(s) : s[x] \in T
      BY <2>2 DEF ToSet
    <3> QED  BY <3>1
  <2>4. \A k \in T : \E x \in 1..Len(s) : s[x] = k
    BY <1>5, <2>1, <2>2
  <2>5. \A x, y \in 1..Len(s) : x < y => s[x] < s[y]
    BY <1>1, <2>1
  <2>6. Ascending(T) = s
    BY <2>3, <2>4, <2>5, AscendingIs
  <2> QED  BY <2>1, <2>2, <2>6
<1>8. ASSUME NEW i \in 1..Len(ps), NEW j \in 1..Len(ps), i < j,
             NEW k \in ToSet(ps[i]), NEW d \in ToSet(ps[j])
      PROVE  k < d
  <2>1. PICK x \in 1..Len(ps[i]) : ps[i][x] = k
    BY <1>5
  <2>2. PICK y \in 1..Len(ps[j]) : ps[j][y] = d
    BY <1>5
  <2> QED  BY <1>1, <1>8, <2>1, <2>2
<1>9. \A k \in S : \E i \in 1..Len(ps) : k \in ToSet(ps[i])
  <2>1. ASSUME NEW k \in S  PROVE \E i \in 1..Len(ps) : k \in ToSet(ps[i])
    <3>1. PICK i \in 1..Len(ps) : \E x \in 1..Len(ps[i]) : ps[i][x] = k
      BY <1>1
    <3> QED  BY <1>4, <3>1 DEF ToSet
  <2> QED  BY <2>1
<1> QED  BY <1>2, <1>4, <1>5, <1>6, <1>7, <1>8, <1>9

\* Partitions a to n of a level whose plan cuts S.
Cuts(S, l, a, n) ==
  /\ S \in SUBSET Nat /\ Split(plan[l], S)
  /\ a \in 1..Len(plan[l]) /\ n \in 1..Len(plan[l])

\* A key is routed to its partition.
LEMMA RoutedTo ==
  ASSUME NEW S, NEW l, NEW a, NEW n, Cuts(S, l, a, n),
         NEW i \in a..n, NEW k \in ToSet(plan[l][i])
  PROVE  Routed(l, a, n, k) = i
<1> DEFINE ps == plan[l]
           C == {a} \cup {j \in a..n : ps[j][1] <= k}
<1>1. /\ S \in SUBSET Nat /\ Split(ps, S)
      /\ a \in 1..Len(plan[l]) /\ n \in 1..Len(plan[l])
  BY DEF Cuts
<1>2. /\ Len(ps) \in Nat
      /\ \A j \in 1..Len(ps) : /\ ToSet(ps[j]) \in SUBSET S /\ ps[j][1] \in ToSet(ps[j])
                               /\ \A d \in ToSet(ps[j]) : ps[j][1] <= d
      /\ \A g, j \in 1..Len(ps) : g < j => \A d \in ToSet(ps[g]), e \in ToSet(ps[j]) : d < e
  BY <1>1, PartsAre
<1>3. a \in Nat /\ n \in Nat /\ i \in 1..Len(ps) /\ \A j \in a..n : j \in 1..Len(ps)
  BY <1>1, <1>2
<1> HIDE DEF ps
<1>4. i \in C
  BY <1>2, <1>3 DEF ps
<1>5. \A j \in C : j <= i
  <2>1. ASSUME NEW j \in C, j > i  PROVE FALSE
    <3>1. j \in a..n /\ ps[j][1] <= k
      BY <1>3, <2>1
    <3>2. k < ps[j][1]
      BY <1>2, <1>3, <2>1, <3>1 DEF ps
    <3>3. k \in Nat /\ ps[j][1] \in Nat
      BY <1>1, <1>2, <1>3, <3>1 DEF ps
    <3> QED  BY <3>1, <3>2, <3>3
  <2>2. \A j \in C : j \in Nat
    BY <1>3
  <2> QED  BY <1>3, <2>1, <2>2
<1>6. C \in SUBSET 0..n /\ C # {} /\ n \in Nat
  BY <1>3, <1>4
<1>7. Max(C) \in C /\ \A j \in C : j <= Max(C)
  <2> HIDE DEF C
  <2> QED  BY <1>6, MaxOf
<1>8. Max(C) = i
  <2>1. PICK m : m = Max(C)
    OBVIOUS
  <2>2. m \in 0..n /\ m <= i /\ i <= m /\ i \in Nat
    BY <1>3, <1>4, <1>5, <1>6, <1>7, <2>1
  <2> QED  BY <2>1, <2>2
<1> QED  BY <1>8 DEF Routed, C, ps

\* The partitions of a wave.
LEMMA WavesAre ==
  ASSUME run \in Setups, NEW l, Len(plan[l]) \in Nat, plan[l] = <<>> <=> Len(plan[l]) = 0
  PROVE  /\ Waves(l) \in SUBSET (Nat \ {0}) /\ LastPart(l, 0) = 0
         /\ \E t \in Nat : Waves(l) = 1..t
         /\ \A i \in Parts(l) : WaveOf(i) \in Waves(l)
         /\ \A w \in Nat \ {0} : \A i \in Parts(l) :
              WaveOf(i) = w <=> FirstPart(l, w) <= i /\ i <= LastPart(l, w)
         /\ \A w \in Waves(l) :
              /\ FirstPart(l, w) \in Parts(l) /\ LastPart(l, w) \in Parts(l)
              /\ FirstPart(l, w) <= LastPart(l, w)
              /\ LastPart(l, w - 1) = FirstPart(l, w) - 1
         /\ \A w \in Nat \ {0} : w \notin Waves(l) => LastPart(l, w - 1) = Len(plan[l])
<1>1. PICK s \in Nat \ {0}, n \in Nat : s = run.wave /\ n = Len(plan[l])
  BY SetupsAssumption
<1>2. ASSUME NEW w \in Nat
      PROVE  w * s \in Nat /\ LastPart(l, w) = IF w * s <= n THEN w * s ELSE n
  <2>1. PICK x \in Int : x = w * s /\ x >= 0
    OBVIOUS
  <2>2. Min({x, n}) = IF x <= n THEN x ELSE n
    BY MinPair
  <2> QED  BY <1>1, <2>1, <2>2 DEF LastPart
<1>3. ASSUME NEW i \in 1..n, NEW w \in Nat \ {0}
      PROVE  /\ WaveOf(i) \in Nat \ {0}
             /\ WaveOf(i) <= w <=> i <= w * s
             /\ w <= WaveOf(i) <=> (w - 1) * s + 1 <= i
  <2>1. PICK d \in Nat : d = i - 1
    OBVIOUS
  <2>2. PICK q \in Nat : q = d \div s
    BY Quotient
  <2>3. WaveOf(i) = q + 1
    BY <1>1, <2>1, <2>2 DEF WaveOf
  <2>4. 0 * s <= d /\ d <= (w - 1 + 1) * s - 1 <=> 0 <= q /\ q <= w - 1
    BY <2>2, QuotientBetween
  <2>5. (w - 1) * s <= d /\ d <= (d + 1) * s - 1 <=> w - 1 <= q /\ q <= d
    BY <2>2, QuotientBetween
  <2>6. 0 * s <= d /\ d <= (d + 1) * s - 1 <=> 0 <= q /\ q <= d
    BY <2>2, QuotientBetween
  <2>7. d <= (d + 1) * s - 1
    <3>1. \A u, v \in Nat \ {0} : u <= u * v
      OBVIOUS
    <3>2. d + 1 <= (d + 1) * s /\ (d + 1) * s \in Nat
      BY <3>1
    <3> QED  BY <3>2
  <2>8. 0 * s = 0 /\ w - 1 + 1 = w /\ w * s \in Nat /\ (w - 1) * s \in Nat
    OBVIOUS
  <2>9. q <= d
    BY <2>6, <2>7, <2>8
  <2>10. d <= w * s - 1 <=> q <= w - 1
    BY <2>4, <2>8
  <2>11. (w - 1) * s <= d <=> w - 1 <= q
    BY <2>5, <2>7, <2>9
  <2> QED  BY <2>1, <2>3, <2>8, <2>10, <2>11
<1>4. \A w \in Nat \ {0} : (w - 1) * s + 1 = FirstPart(l, w) /\ (w - 1) * s \in Nat
                           /\ w - 1 \in Nat
  BY <1>1 DEF FirstPart
<1>5. Parts(l) = 1..n
  BY <1>1 DEF Parts
<1>6. CASE n = 0
  <2>1. Waves(l) = {} /\ Parts(l) = {}
    BY <1>1, <1>5, <1>6 DEF Waves
  <2>1a. Waves(l) = 1..0 /\ 0 \in Nat
    BY <2>1
  <2>2. \A w \in Nat : LastPart(l, w) = 0
    BY <1>2, <1>6
  <2>3. \A w \in Nat \ {0} : LastPart(l, w - 1) = n
    BY <1>4, <1>6, <2>2
  <2> QED  BY <1>1, <2>1, <2>1a, <2>2, <2>3
<1>7. CASE n # 0
  <2>1. n \in 1..n
    BY <1>7
  <2>2. PICK t \in Nat \ {0} : t = WaveOf(n) /\ Waves(l) = 1..t
    <3>1. WaveOf(n) \in Nat \ {0}
      BY <1>3, <2>1
    <3> QED  BY <1>1, <1>7, <3>1 DEF Waves
  <2>3. \A w \in Nat \ {0} : (t <= w <=> n <= w * s) /\ (w <= t <=> (w - 1) * s + 1 <= n)
    BY <1>3, <2>1, <2>2
  <2>4. LastPart(l, 0) = 0
    BY <1>2
  <2>5. ASSUME NEW i \in 1..n  PROVE WaveOf(i) \in Waves(l)
    <3>1. WaveOf(i) \in Nat \ {0} /\ (WaveOf(i) <= t <=> i <= t * s)
      BY <1>3, <2>2
    <3>2. n <= t * s /\ t * s \in Nat
      BY <1>2, <2>2, <2>3
    <3> QED  BY <2>2, <3>1, <3>2
  <2>6. ASSUME NEW w \in Nat \ {0}, NEW i \in 1..n
        PROVE  WaveOf(i) = w <=> FirstPart(l, w) <= i /\ i <= LastPart(l, w)
    <3>1. /\ WaveOf(i) \in Nat /\ (WaveOf(i) <= w <=> i <= w * s)
          /\ (w <= WaveOf(i) <=> FirstPart(l, w) <= i)
      BY <1>3, <1>4
    <3>2. i <= w * s <=> i <= LastPart(l, w)
      BY <1>2
    <3>3. WaveOf(i) = w <=> WaveOf(i) <= w /\ w <= WaveOf(i)
      BY <3>1
    <3> QED  BY <3>1, <3>2, <3>3
  <2>7. ASSUME NEW w \in 1..t
        PROVE  /\ FirstPart(l, w) \in 1..n /\ LastPart(l, w) \in 1..n
               /\ FirstPart(l, w) <= LastPart(l, w)
               /\ LastPart(l, w - 1) = FirstPart(l, w) - 1
    <3>1. PICK x \in Nat, y \in Nat : x = (w - 1) * s /\ y = w * s /\ y = x + s
      <4>1. (w - 1) * s \in Nat /\ w * s \in Nat
        BY <1>2, <1>4
      <4>2. w * s = (w - 1) * s + s
        <5>1. PICK v \in Nat : v = w - 1 /\ w = v + 1
          OBVIOUS
        <5>2. (v + 1) * s = v * s + s
          OBVIOUS
        <5> QED  BY <5>1, <5>2
      <4> QED  BY <4>1, <4>2
    <3>2. x + 1 <= n /\ FirstPart(l, w) = x + 1 /\ w - 1 \in Nat
      BY <1>4, <2>3, <3>1
    <3>3. LastPart(l, w) = (IF y <= n THEN y ELSE n) /\ LastPart(l, w - 1) = (IF x <= n THEN x ELSE n)
      BY <1>2, <3>1, <3>2
    <3>4. x \in Nat /\ y \in Nat /\ s \in Nat \ {0} /\ n \in Nat /\ y = x + s /\ x + 1 <= n
      BY <1>1, <3>1, <3>2
    <3>5. PICK u, v, r :
            u = FirstPart(l, w) /\ v = LastPart(l, w) /\ r = LastPart(l, w - 1)
      OBVIOUS
    <3>6. u = x + 1 /\ v = (IF y <= n THEN y ELSE n) /\ r = x
      BY <3>2, <3>3, <3>4, <3>5
    <3>7. u \in 1..n /\ v \in 1..n /\ u <= v /\ r = u - 1
      BY ONLY <3>4, <3>6
    <3> QED  BY <3>5, <3>7
  <2>8. ASSUME NEW w \in Nat \ {0}, w \notin 1..t  PROVE LastPart(l, w - 1) = n
    <3>1. w - 1 \in Nat \ {0} /\ t <= w - 1
      BY <2>8
    <3>2. PICK v \in Nat \ {0} : v = w - 1
      BY <3>1
    <3>3. n <= v * s /\ v * s \in Nat
      BY <1>2, <2>3, <3>1, <3>2
    <3>4. LastPart(l, v) = n
      BY <1>2, <3>3
    <3> QED  BY <3>2, <3>4
  <2>9. Waves(l) \in SUBSET (Nat \ {0})
    BY <2>2
  <2> QED  BY <1>1, <1>5, <2>2, <2>4, <2>5, <2>6, <2>7, <2>8, <2>9
<1> QED  BY <1>6, <1>7

-----------------------------------------------------------------------------
(* What a store holds *)

Held(h) == MapThenSumSet(LAMBDA k : Cardinality(h[k]), DOMAIN h)
Sizes(h) == [k \in DOMAIN h |-> Cardinality(h[k])]

LEMMA BufferedHeld == Buffered = Held(held)
BY DEF Buffered, Held

LEMMA BufferedNext ==
  ASSUME NEW h, h = held'
  PROVE  Buffered' = Held(h)
BY DEF Buffered, Held, MapThenSumSet, MapThenFoldSet

\* What the fold computes is the sum of the buckets' sizes.
LEMMA HeldIsSum ==
  ASSUME NEW h, IsFiniteSet(DOMAIN h), \A k \in DOMAIN h : Cardinality(h[k]) \in Nat
  PROVE  /\ Summable(Sizes(h), Sizes(h), DOMAIN h)
         /\ Held(h) = SumFunctionOnSet(Sizes(h), DOMAIN h)
<1> DEFINE D == DOMAIN h
           Step(g) == [s \in SUBSET D |->
              IF s = {} THEN 0
              ELSE Cardinality(h[CHOOSE x \in s : TRUE]) + g[s \ {CHOOSE x \in s : TRUE}]]
           G == CHOOSE g : g = Step(g)
<1>1. Summable(Sizes(h), Sizes(h), D) /\ \A k \in D : Sizes(h)[k] \in Nat
  BY DEF Summable, Sizes
<1>2. Held(h) = G[D]
  BY DEF Held, MapThenSumSet, MapThenFoldSet
<1>3. PICK F : Sums(Sizes(h), D, F)
  BY <1>1, SumsExist
<1> DEFINE H == [s \in SUBSET D |-> F[s]]
<1>4. H = Step(H)
  <2>1. ASSUME NEW s \in SUBSET D  PROVE H[s] = Step(H)[s]
    <3>1. CASE s = {}
      BY <1>3, <3>1 DEF Sums
    <3>2. CASE s # {}
      <4>1. Picked(s) \in D /\ s \ {Picked(s)} \in SUBSET D
        BY <3>2 DEF Picked
      <4>2. F[s] = Sizes(h)[Picked(s)] + F[s \ {Picked(s)}]
        BY <1>3, <3>2 DEF Sums
      <4>3. Sizes(h)[Picked(s)] = Cardinality(h[Picked(s)])
        BY <4>1 DEF Sizes
      <4>4. H[s] = F[s] /\ H[s \ {Picked(s)}] = F[s \ {Picked(s)}]
        BY <4>1
      <4>5. Step(H)[s] = Cardinality(h[Picked(s)]) + H[s \ {Picked(s)}]
        BY <3>2 DEF Picked
      <4> HIDE DEF H, Step
      <4> QED  BY <4>2, <4>3, <4>4, <4>5
    <3> QED  BY <3>1, <3>2
  <2> QED  BY <2>1
<1>5. G = Step(G)
  BY <1>4
<1> HIDE DEF G, H
<1>6. ASSUME NEW s \in SUBSET D
      PROVE  G[s] = IF s = {} THEN 0 ELSE Sizes(h)[Picked(s)] + G[s \ {Picked(s)}]
  <2>1. G[s] = IF s = {} THEN 0
               ELSE Cardinality(h[Picked(s)]) + G[s \ {Picked(s)}]
    BY <1>5 DEF Picked
  <2>2. s # {} => Sizes(h)[Picked(s)] = Cardinality(h[Picked(s)])
    <3>1. s # {} => Picked(s) \in D
      BY DEF Picked
    <3> QED  BY <3>1 DEF Sizes
  <2> QED  BY <2>1, <2>2
<1>7. Folds(Sizes(h), D, G)
  BY <1>6 DEF Folds
<1> HIDE DEF Step
<1>8. D \in SUBSET D
  OBVIOUS
<1>9. \A s \in SUBSET D : G[s] = F[s]
  BY <1>1, <1>3, <1>7, <1>8, SumsAgree
<1>10. SumFunctionOnSet(Sizes(h), D) = F[D]
  BY <1>1, <1>3, <1>8, FoldSums
<1> QED  BY <1>1, <1>2, <1>8, <1>9, <1>10

LEMMA HeldType ==
  ASSUME NEW h, IsFiniteSet(DOMAIN h), \A k \in DOMAIN h : Cardinality(h[k]) \in Nat
  PROVE  /\ Held(h) \in Nat
         /\ (\A k \in DOMAIN h : h[k] = {}) => Held(h) = 0
<1> DEFINE D == DOMAIN h
<1>1. Summable(Sizes(h), Sizes(h), D) /\ Held(h) = SumFunctionOnSet(Sizes(h), D)
  BY HeldIsSum
<1>2. Held(h) \in Nat
  BY <1>1, Summing
<1>3. ASSUME \A k \in D : h[k] = {}  PROVE Held(h) = 0
  <2>1. \A k \in D : Sizes(h)[k] = IF k \in {} THEN 1 ELSE 0
    BY <1>3, FS_EmptySet DEF Sizes
  <2>2. SumFunctionOnSet(Sizes(h), D) = Cardinality({})
    BY <2>1, SumOfMarks
  <2> QED  BY <1>1, <2>2, FS_EmptySet
<1> QED  BY <1>2, <1>3

\* One bucket changes.
LEMMA HeldChanges ==
  ASSUME NEW h, IsFiniteSet(DOMAIN h), \A k \in DOMAIN h : Cardinality(h[k]) \in Nat,
         NEW g, DOMAIN g = DOMAIN h, NEW b \in DOMAIN h,
         Cardinality(g[b]) \in Nat, \A k \in DOMAIN h \ {b} : g[k] = h[k]
  PROVE  Held(g) + Cardinality(h[b]) = Held(h) + Cardinality(g[b])
<1> DEFINE D == DOMAIN h
           Rest == D \ {b}
           S(f, E) == SumFunctionOnSet(Sizes(f), E)
<1>1. \A k \in DOMAIN g : Cardinality(g[k]) \in Nat
  OBVIOUS
<1>2. /\ Summable(Sizes(h), Sizes(h), D) /\ Held(h) = S(h, D)
      /\ Summable(Sizes(g), Sizes(g), D) /\ Held(g) = S(g, D)
  BY <1>1, HeldIsSum
<1>3. Rest \in SUBSET D /\ {b} \in SUBSET D /\ Rest \cap {b} = {} /\ Rest \cup {b} = D
      /\ IsFiniteSet(Rest)
  BY FS_Subset
<1>4. ASSUME NEW f, Summable(Sizes(f), Sizes(f), D)
      PROVE  S(f, D) = S(f, Rest) + Sizes(f)[b] /\ S(f, Rest) \in Nat
  <2> HIDE DEF Rest
  <2>1. IsFiniteSet(D) /\ b \in D
    OBVIOUS
  <2>2. PICK q : q = Sizes(f)
    OBVIOUS
  <2>3. Summable(q, q, D)
    BY <1>4, <2>2
  <2>4. /\ SumFunctionOnSet(q, Rest) \in Nat /\ SumFunctionOnSet(q, {b}) = q[b]
        /\ SumFunctionOnSet(q, Rest \cup {b})
             = SumFunctionOnSet(q, Rest) + SumFunctionOnSet(q, {b})
    BY <1>3, <2>1, <2>3, Summing
  <2> QED  BY <1>3, <2>2, <2>4
<1>5. \A k \in Rest : Sizes(h)[k] = Sizes(g)[k] /\ Sizes(h)[k] \in Nat
  BY DEF Sizes
<1>6. S(g, Rest) = S(h, Rest)
  <2> HIDE DEF Rest
  <2> QED  BY <1>3, <1>5, SameSum
<1>7. Sizes(h)[b] = Cardinality(h[b]) /\ Sizes(g)[b] = Cardinality(g[b])
  BY DEF Sizes
<1> HIDE DEF S, Rest
<1>8. /\ S(h, D) = S(h, Rest) + Sizes(h)[b] /\ S(h, Rest) \in Nat
      /\ S(g, D) = S(g, Rest) + Sizes(g)[b]
  BY <1>2, <1>4
<1> QED  BY <1>2, <1>6, <1>7, <1>8

\* None does.
LEMMA HeldSame ==
  ASSUME NEW h, IsFiniteSet(DOMAIN h), \A k \in DOMAIN h : Cardinality(h[k]) \in Nat,
         NEW g, DOMAIN g = DOMAIN h, \A k \in DOMAIN h : g[k] = h[k]
  PROVE  Held(g) = Held(h)
<1>1. IsFiniteSet(DOMAIN g) /\ \A k \in DOMAIN g : Cardinality(g[k]) \in Nat
  OBVIOUS
<1>2. \A k \in DOMAIN h : Sizes(h)[k] = Sizes(g)[k] /\ Sizes(h)[k] \in Nat
  BY DEF Sizes
<1>3. /\ Held(h) = SumFunctionOnSet(Sizes(h), DOMAIN h)
      /\ Held(g) = SumFunctionOnSet(Sizes(g), DOMAIN h)
  BY <1>1, HeldIsSum
<1> QED  BY <1>2, <1>3, SameSum

-----------------------------------------------------------------------------
(* The store keeps its ceiling *)

\* While a store fills, it is within its ceiling or about to be flushed under
\* it; once filled, it is drained under what it may keep.
StoreInv ==
  /\ run \in Setups /\ buffer \in Nat /\ resident \in Nat
  /\ \A l \in Zooms : Len(plan[l]) \in Nat
  /\ IsFiniteSet(DOMAIN held)
  /\ \A k \in DOMAIN held : IsFiniteSet(held[k])
  /\ pc = "read" /\ Spills =>
       \/ floor \in Nat /\ floor <= buffer + resident
       \/ Buffered <= buffer + resident
  /\ pc = "finish" /\ Spills => floor = resident

\* A store spills or not as the level it is at is stored.
LEMMA SameSpills ==
  ASSUME UNCHANGED <<run, plan, z>>
  PROVE  Spills' <=> Spills
BY DEF Spills, Stored, Single, Waves, WaveOf

LEMMA FewWaves ==
  ASSUME StoreInv, NEW l \in Zooms
  PROVE  IsFiniteSet(Waves(l))
<1>1. Len(plan[l]) \in Nat /\ run.wave \in Nat \ {0}
  BY SetupsAssumption DEF StoreInv
<1>2. WaveOf(Len(plan[l])) \in Int
  BY <1>1 DEF WaveOf
<1> DEFINE n == IF plan[l] = <<>> THEN 0 ELSE WaveOf(Len(plan[l]))
<1>3. n \in Int
  BY <1>2
<1> HIDE DEF n
<1>4. IsFiniteSet(1..n)
  BY <1>3, FS_Interval
<1> QED  BY <1>4 DEF Waves, n

LEMMA FewBuckets ==
  ASSUME StoreInv
  PROVE  IsFiniteSet(Buckets)
<1>1. ASSUME NEW l \in Zooms  PROVE IsFiniteSet({<<l, w>> : w \in Waves(l)})
  <2> DEFINE f == [w \in Waves(l) |-> <<l, w>>]
  <2>1. {f[w] : w \in Waves(l)} = {<<l, w>> : w \in Waves(l)}
    OBVIOUS
  <2> HIDE DEF f
  <2> QED  BY <2>1, FewWaves, FewImages
<1> DEFINE levels == [l \in Zooms |-> {<<l, w>> : w \in Waves(l)}]
<1>2. Buckets = UNION {levels[l] : l \in Zooms}
  BY DEF Buckets
<1>3. IsFiniteSet(Zooms)
  BY WorldAssumption, FS_Interval DEF Zooms
<1>4. \A T \in {levels[l] : l \in Zooms} : IsFiniteSet(T)
  BY <1>1
<1> HIDE DEF levels
<1>5. IsFiniteSet({levels[l] : l \in Zooms})
  BY <1>3, FewImages
<1> QED  BY <1>2, <1>4, <1>5, FS_UNION

LEMMA StoreStarts ==
  ASSUME Init
  PROVE  StoreInv
<1>1. run \in Setups /\ plan = [l \in Zooms |-> Partitions(l)]
  BY DEF Init
<1>2. ASSUME NEW l \in Zooms  PROVE Len(plan[l]) \in Nat
  <2>1. Split(Partitions(l), PlannedKeys(l))
    BY <1>1, PlannedAre, PlanSplit
  <2> QED  BY <1>1, <2>1 DEF Split
<1>3. DOMAIN held = {} /\ pc = "next" /\ buffer = run.buffer /\ resident = 0
  BY DEF Init
<1>4. IsFiniteSet(DOMAIN held)
  BY <1>3, FS_EmptySet
<1>5. buffer \in Nat /\ resident \in Nat
  BY <1>1, <1>3, SetupsAssumption
<1> QED  BY <1>1, <1>2, <1>3, <1>4, <1>5 DEF StoreInv

LEMMA ReadStarts ==
  ASSUME StoreInv, NEW G, NEW B, IsFiniteSet(B), NEW res \in Nat, Start(G, B, res)
  PROVE  StoreInv'
<1>1. PICK h : h = held'
  OBVIOUS
<1>2. h = [k \in B |-> {}]
  BY <1>1 DEF Start
<1>3. \A k \in DOMAIN h : IsFiniteSet(h[k]) /\ Cardinality(h[k]) = 0
  BY <1>2, FS_EmptySet
<1>4. IsFiniteSet(DOMAIN h)
  BY <1>2
<1>5. Held(h) = 0
  <2>1. \A k \in DOMAIN h : h[k] = {} /\ Cardinality(h[k]) \in Nat
    BY <1>2, <1>3
  <2> QED  BY <1>4, <2>1, HeldType
<1>6. Buffered' = 0
  BY <1>1, <1>5, BufferedNext
<1>7. buffer' \in Nat /\ resident' \in Nat
  BY SetupsAssumption DEF StoreInv, Start
<1>8. run' \in Setups /\ \A l \in Zooms : Len(plan'[l]) \in Nat
  BY DEF StoreInv, Start
<1>9. Buffered' <= buffer' + resident'
  <2>1. \A x, y \in Nat : 0 <= x + y
    OBVIOUS
  <2> QED  BY <1>6, <1>7, <2>1
<1>10. pc' = "read"
  BY DEF Start
<1>11. IsFiniteSet(DOMAIN held') /\ \A k \in DOMAIN held' : IsFiniteSet(held'[k])
  BY <1>1, <1>3, <1>4
<1> QED  BY <1>7, <1>8, <1>9, <1>10, <1>11 DEF StoreInv, Zooms

LEMMA ReadsKeep ==
  ASSUME StoreInv, ReadFile \/ ReadLevel \/ ReadWave
  PROVE  StoreInv'
<1>1. IsFiniteSet(Buckets)
  BY FewBuckets
<1>2. run.resident \in Nat
  BY SetupsAssumption DEF StoreInv
<1>3. CASE ReadFile
  BY <1>1, <1>3, ReadStarts DEF ReadFile
<1>4. CASE ReadLevel
  <2>1. IsFiniteSet({k \in Buckets : k[1] = z})
    BY <1>1, FS_Subset
  <2> QED  BY <1>2, <1>4, <2>1, ReadStarts DEF ReadLevel
<1>5. CASE ReadWave
  <2>1. IsFiniteSet({<<z, wave>>})
    BY FS_Singleton
  <2> QED  BY <1>5, <2>1, ReadStarts DEF ReadWave
<1> QED  BY <1>3, <1>4, <1>5

\* A step that leaves the store alone.
LEMMA StoreAlone ==
  ASSUME StoreInv, UNCHANGED <<run, plan, z, held, buffer, resident, floor>>,
         pc' = pc \/ pc' \notin {"read", "finish"}
  PROVE  StoreInv'
<1>1. Spills' <=> Spills
  BY SameSpills
<1>2. Buffered' = Buffered
  BY BufferedHeld, BufferedNext
<1> QED  BY <1>1, <1>2 DEF StoreInv, Zooms

LEMMA FinishKeeps ==
  ASSUME StoreInv, Finish
  PROVE  StoreInv'
<1>1. Spills' <=> Spills
  BY SameSpills DEF Finish
<1>2. pc' = "finish" /\ (Spills' => floor' = resident')
  BY <1>1 DEF Finish
<1> QED  BY <1>2 DEF StoreInv, Finish, Zooms

LEMMA NextLevelKeeps ==
  ASSUME StoreInv, NextLevel
  PROVE  StoreInv'
<1>1. /\ UNCHANGED <<run, plan, held, buffer, resident, floor>>
      /\ pc' # "read" /\ (pc' = "finish" => Single /\ pc = "finish")
  BY DEF NextLevel
<1>2. Single /\ run.spill => Spills
  BY DEF Spills, Stored
<1>3. pc' = "finish" /\ Spills' => floor' = resident'
  <2>1. SUFFICES ASSUME pc' = "finish", Spills'  PROVE floor' = resident'
    OBVIOUS
  <2>2. run.spill
    BY <1>1, <2>1 DEF Spills
  <2>3. Spills /\ pc = "finish"
    BY <1>1, <1>2, <2>1, <2>2 DEF Spills, Stored
  <2> QED  BY <1>1, <2>3 DEF StoreInv
<1> QED  BY <1>1, <1>3 DEF StoreInv, Zooms

\* A bucket loses what it holds.
LEMMA BucketEmptied ==
  ASSUME StoreInv, NEW b \in DOMAIN held, held' = [held EXCEPT ![b] = {}]
  PROVE  /\ IsFiniteSet(DOMAIN held') /\ \A k \in DOMAIN held' : IsFiniteSet(held'[k])
         /\ Buffered \in Nat /\ Buffered' \in Nat /\ Buffered' <= Buffered
<1>1. PICK h : h = held'
  OBVIOUS
<1>2. /\ DOMAIN h = DOMAIN held /\ h[b] = {}
      /\ \A k \in DOMAIN held \ {b} : h[k] = held[k]
  BY <1>1
<1>3. IsFiniteSet(h[b]) /\ Cardinality(h[b]) = 0
  BY <1>2, FS_EmptySet
<1>4. \A k \in DOMAIN held : IsFiniteSet(held[k]) /\ Cardinality(held[k]) \in Nat
  BY FS_CardinalityType DEF StoreInv
<1>5. \A k \in DOMAIN h : IsFiniteSet(h[k]) /\ Cardinality(h[k]) \in Nat
  BY <1>2, <1>3, <1>4
<1>6. IsFiniteSet(DOMAIN held) /\ IsFiniteSet(DOMAIN h)
  BY <1>2 DEF StoreInv
<1>7. Held(held) \in Nat /\ Held(h) \in Nat
  BY <1>4, <1>5, <1>6, HeldType
<1>8. Held(h) + Cardinality(held[b]) = Held(held) + Cardinality(h[b])
  BY <1>2, <1>4, <1>5, <1>6, HeldChanges
<1>9. Held(h) <= Held(held)
  BY <1>3, <1>4, <1>7, <1>8
<1>10. Buffered = Held(held) /\ Buffered' = Held(h)
  BY <1>1, BufferedHeld, BufferedNext
<1> QED  BY <1>1, <1>5, <1>6, <1>7, <1>9, <1>10

LEMMA FlushKeeps ==
  ASSUME StoreInv, NEW b \in DOMAIN held, Flush(b)
  PROVE  StoreInv'
<1>1. /\ IsFiniteSet(DOMAIN held') /\ \A k \in DOMAIN held' : IsFiniteSet(held'[k])
      /\ Buffered \in Nat /\ Buffered' \in Nat /\ Buffered' <= Buffered
  BY BucketEmptied DEF Flush
<1>2. UNCHANGED <<run, plan, z, pc, buffer, resident, floor>>
  BY DEF Flush
<1>3. Spills' <=> Spills
  BY <1>2, SameSpills
<1>4. Buffered <= buffer + resident => Buffered' <= buffer' + resident'
  BY <1>1, <1>2 DEF StoreInv
<1> QED  BY <1>1, <1>2, <1>3, <1>4 DEF StoreInv, Zooms

LEMMA EncodeKeeps ==
  ASSUME StoreInv, EncodeWave
  PROVE  StoreInv'
<1>1. <<z, wave>> \in DOMAIN held /\ held' = [held EXCEPT ![<<z, wave>>] = {}]
  BY DEF EncodeWave, Encode
<1>2. IsFiniteSet(DOMAIN held') /\ \A k \in DOMAIN held' : IsFiniteSet(held'[k])
  BY <1>1, BucketEmptied
<1>3. /\ UNCHANGED <<run, plan, z, buffer, resident, floor>>
      /\ pc = "finish" /\ pc' \in {"finish", "next"}
  BY DEF EncodeWave, Encode
<1>4. Spills' <=> Spills
  BY <1>3, SameSpills
<1> QED  BY <1>2, <1>3, <1>4 DEF StoreInv, Zooms

\* A member joins its bucket.
LEMMA PushKeeps ==
  ASSUME StoreInv, Push
  PROVE  StoreInv'
<1> DEFINE m == Head(todo)
           b == <<m.level, WaveOf(Routed(m.level, 1, Len(plan[m.level]), m.key))>>
           need == 2 * Segment * Cardinality(DOMAIN held)
           room == IF pushed + 1 = Segment THEN Min({buffer, need}) ELSE buffer
<1>1. /\ held' = [held EXCEPT ![b] = held[b] \cup {m}]
      /\ buffer' = room
      /\ floor' = IF Spills /\ Buffered + 1 > room + resident
                    THEN room + resident - room \div 2
                    ELSE NoFloor
      /\ pc = "read" /\ UNCHANGED <<run, plan, pc, z, resident>>
  BY DEF Push
<1>2. room \in Nat
  <2>1. Cardinality(DOMAIN held) \in Nat /\ buffer \in Nat
    BY FS_CardinalityType DEF StoreInv
  <2>2. need \in Nat
    BY <2>1, SetupsAssumption
  <2> HIDE DEF need
  <2>3. Min({buffer, need}) = IF buffer <= need THEN buffer ELSE need
    BY <2>1, <2>2, MinPair
  <2> QED  BY <2>1, <2>2, <2>3
<1>3. PICK h : h = held'
  OBVIOUS
<1>4. \A k \in DOMAIN held : IsFiniteSet(held[k]) /\ Cardinality(held[k]) \in Nat
  BY FS_CardinalityType DEF StoreInv
<1> HIDE DEF b, m, room
<1>5. /\ DOMAIN h = DOMAIN held
      /\ \A k \in DOMAIN held \ {b} : h[k] = held[k]
      /\ b \in DOMAIN held => h[b] = held[b] \cup {m}
      /\ b \notin DOMAIN held => \A k \in DOMAIN held : h[k] = held[k]
  <2>1. CASE b \in DOMAIN held
    BY <1>1, <1>3, <2>1
  <2>2. CASE b \notin DOMAIN held
    BY <1>1, <1>3, <2>2
  <2> QED  BY <2>1, <2>2
<1>6. b \in DOMAIN held =>
        /\ IsFiniteSet(h[b]) /\ Cardinality(h[b]) \in Nat
        /\ Cardinality(h[b]) <= Cardinality(held[b]) + 1
  <2>1. SUFFICES ASSUME b \in DOMAIN held
        PROVE  /\ IsFiniteSet(h[b]) /\ Cardinality(h[b]) \in Nat
               /\ Cardinality(h[b]) <= Cardinality(held[b]) + 1
    OBVIOUS
  <2>2. /\ IsFiniteSet(held[b]) /\ Cardinality(held[b]) \in Nat
        /\ h[b] = held[b] \cup {m}
    BY <1>4, <1>5, <2>1
  <2>3. /\ IsFiniteSet(h[b])
        /\ Cardinality(h[b]) = Cardinality(held[b])
             \/ Cardinality(h[b]) = Cardinality(held[b]) + 1
    BY <2>2, FS_AddElement
  <2> QED  BY <2>2, <2>3
<1>7. \A k \in DOMAIN h : IsFiniteSet(h[k]) /\ Cardinality(h[k]) \in Nat
  BY <1>4, <1>5, <1>6
<1>8. IsFiniteSet(DOMAIN held) /\ IsFiniteSet(DOMAIN h)
  BY <1>5 DEF StoreInv
<1>9. Held(held) \in Nat /\ Held(h) \in Nat
  BY <1>4, <1>7, <1>8, HeldType
<1>10. Held(h) <= Held(held) + 1
  <2>1. CASE b \in DOMAIN held
    <3>1. Held(h) + Cardinality(held[b]) = Held(held) + Cardinality(h[b])
      BY <1>4, <1>5, <1>6, <1>8, <2>1, HeldChanges
    <3> QED  BY <1>4, <1>6, <1>9, <2>1, <3>1
  <2>2. CASE b \notin DOMAIN held
    <3>1. Held(h) = Held(held)
      BY <1>4, <1>5, <1>8, <2>2, HeldSame
    <3> QED  BY <1>9, <3>1
  <2> QED  BY <2>1, <2>2
<1>11. Buffered = Held(held) /\ Buffered' = Held(h)
  BY <1>3, BufferedHeld, BufferedNext
<1>12. Spills' <=> Spills
  BY <1>1, SameSpills
<1>13. resident \in Nat /\ resident' = resident
  BY <1>1 DEF StoreInv
<1>14. Spills' => \/ floor' \in Nat /\ floor' <= buffer' + resident'
                  \/ Buffered' <= buffer' + resident'
  <2>1. CASE Spills /\ Buffered + 1 > room + resident
    <3>1. floor' = room + resident - room \div 2 /\ buffer' = room
      BY <1>1, <2>1
    <3>2. room \div 2 \in 0..room
      BY <1>2
    <3> QED  BY <1>2, <1>13, <3>1, <3>2
  <2>2. CASE Spills /\ ~(Buffered + 1 > room + resident)
    <3>1. Buffered + 1 <= room + resident
      BY <1>2, <1>9, <1>11, <1>13, <2>2
    <3>2. Buffered' <= room + resident
      BY <1>2, <1>9, <1>10, <1>11, <1>13, <3>1
    <3> QED  BY <1>1, <1>13, <3>2
  <2> QED  BY <1>12, <2>1, <2>2
<1>15. IsFiniteSet(DOMAIN held') /\ \A k \in DOMAIN held' : IsFiniteSet(held'[k])
  BY <1>3, <1>7, <1>8
<1>16. pc' = "read" /\ buffer' \in Nat
  BY <1>1, <1>2
<1>17. run' \in Setups /\ \A l \in Zooms : Len(plan'[l]) \in Nat
  BY <1>1 DEF StoreInv
<1> QED  BY <1>13, <1>14, <1>15, <1>16, <1>17 DEF StoreInv, Zooms

LEMMA StoreInvariant ==
  Spec => []StoreInv
<1>1. Init => StoreInv
  BY StoreStarts
<1>2. StoreInv /\ [Next]_vars => StoreInv'
  <2>1. SUFFICES ASSUME StoreInv, [Next]_vars  PROVE StoreInv'
    OBVIOUS
  <2>2. CASE ReadFile \/ ReadLevel \/ ReadWave
    BY <2>1, <2>2, ReadsKeep
  <2>3. CASE Row
    BY <2>1, <2>3, StoreAlone DEF Row
  <2>4. CASE Push
    BY <2>1, <2>4, PushKeeps
  <2>5. CASE Finish
    BY <2>1, <2>5, FinishKeeps
  <2>6. CASE \E b \in DOMAIN held : Flush(b)
    BY <2>1, <2>6, FlushKeeps
  <2>7. CASE EncodeWave
    BY <2>1, <2>7, EncodeKeeps
  <2>8. CASE NextLevel
    BY <2>1, <2>8, NextLevelKeeps
  <2>9. CASE Fail
    BY <2>1, <2>9, StoreAlone DEF Fail
  <2>10. CASE Stop
    BY <2>1, <2>10, StoreAlone DEF Stop, vars
  <2>11. CASE UNCHANGED vars
    BY <2>1, <2>11, StoreAlone DEF vars
  <2> QED  BY <2>1, <2>2, <2>3, <2>4, <2>5, <2>6, <2>7, <2>8, <2>9, <2>10, <2>11 DEF Next
<1> QED  BY <1>1, <1>2, PTL DEF Spec

\* A store that spills is never over its ceiling between flushes: its buffer
\* and its grant while it fills, its grant alone while it is drained,
\* whatever the buffer comes down to when the first segment prices it
\* (MemberStore::push, finish_fill).
THEOREM StoreBounded == Spec => []BufferBounded
<1>1. StoreInv => BufferBounded
  <2>1. SUFFICES ASSUME StoreInv, Spills, ~Flushing
        PROVE  /\ pc = "read" => Buffered <= buffer + resident
               /\ pc = "finish" => Buffered <= resident
    BY DEF BufferBounded
  <2>2. Buffered \in Nat
    <3>1. \A k \in DOMAIN held : Cardinality(held[k]) \in Nat
      BY <2>1, FS_CardinalityType DEF StoreInv
    <3> QED  BY <2>1, <3>1, BufferedHeld, HeldType DEF StoreInv
  <2>3. ~(Buffered > floor) /\ buffer \in Nat /\ resident \in Nat
    BY <2>1 DEF Flushing, StoreInv
  <2>4. ASSUME pc = "read"  PROVE Buffered <= buffer + resident
    <3>1. \/ floor \in Nat /\ floor <= buffer + resident
          \/ Buffered <= buffer + resident
      BY <2>1, <2>4 DEF StoreInv
    <3> QED  BY <2>2, <2>3, <3>1
  <2>5. ASSUME pc = "finish"  PROVE Buffered <= resident
    <3>1. floor = resident
      BY <2>1, <2>5 DEF StoreInv
    <3> QED  BY <2>2, <2>3, <3>1
  <2> QED  BY <2>4, <2>5
<1> QED  BY <1>1, StoreInvariant, PTL

-----------------------------------------------------------------------------
(* The tiles are those of one pass over the file *)

PlanInv == run \in Setups /\ \A l \in Zooms : Split(plan[l], PlannedKeys(l))

\* What the plan of a level is.
LEMMA PlanShape ==
  ASSUME PlanInv, NEW l \in Zooms
  PROVE  /\ run \in Setups /\ Len(plan[l]) \in Nat
         /\ plan[l] = <<>> <=> Len(plan[l]) = 0
         /\ Split(plan[l], PlannedKeys(l)) /\ PlannedKeys(l) \in SUBSET Nat
         /\ PlannedKeys(l) \in SUBSET KeysAt(l)
         /\ \A i \in Parts(l) : ToSet(plan[l][i]) \in SUBSET PlannedKeys(l)
         /\ \A k \in PlannedKeys(l) : \E i \in Parts(l) : k \in ToSet(plan[l][i])
<1>1. run \in Setups /\ Split(plan[l], PlannedKeys(l))
  BY DEF PlanInv
<1>2. /\ IsFiniteSet(PlannedKeys(l)) /\ PlannedKeys(l) \in SUBSET Nat
      /\ PlannedKeys(l) \in SUBSET KeysAt(l)
  BY <1>1, PlannedAre
<1>3. Split(plan[l], PlannedKeys(l))
  BY <1>1
<1>4. /\ Len(plan[l]) \in Nat /\ (plan[l] = <<>> <=> Len(plan[l]) = 0)
      /\ \A i \in 1..Len(plan[l]) : ToSet(plan[l][i]) \in SUBSET PlannedKeys(l)
      /\ \A k \in PlannedKeys(l) : \E i \in 1..Len(plan[l]) : k \in ToSet(plan[l][i])
  <2>1. PICK S \in SUBSET Nat : S = PlannedKeys(l)
    BY <1>2
  <2>2. PICK ps : ps = plan[l] /\ Split(ps, S)
    BY <1>3, <2>1
  <2>3. /\ Len(ps) \in Nat /\ (ps = <<>> <=> Len(ps) = 0)
        /\ \A i \in 1..Len(ps) : ToSet(ps[i]) \in SUBSET S
        /\ \A k \in S : \E i \in 1..Len(ps) : k \in ToSet(ps[i])
    <3>1. Split(ps, S)
      BY <2>2
    <3> QED  BY <3>1, PartsAre
  <2> QED  BY <2>1, <2>2, <2>3
<1> QED  BY <1>1, <1>2, <1>3, <1>4 DEF Parts

\* The keys of a bucket, and the bucket of a key.
KeysIn(b) == UNION {ToSet(plan[b[1]][i]) : i \in {j \in Parts(b[1]) : WaveOf(j) = b[2]}}
Bucket(l, key) == <<l, WaveOf(Routed(l, 1, Len(plan[l]), key))>>

\* What a bucket is, and the keys it has.
LEMMA BucketsAre ==
  ASSUME PlanInv
  PROVE  /\ \A b \in Buckets : /\ b[1] \in Zooms /\ b[2] \in Waves(b[1]) /\ b = <<b[1], b[2]>>
                               /\ b[2] \in Nat \ {0}
                               /\ KeysIn(b) \in SUBSET PlannedKeys(b[1])
         /\ \A l \in Zooms : \A w \in Waves(l) : <<l, w>> \in Buckets
<1>1. \A b \in Buckets : b[1] \in Zooms /\ b[2] \in Waves(b[1]) /\ b = <<b[1], b[2]>>
  BY DEF Buckets
<1>2. ASSUME NEW b \in Buckets
      PROVE  b[2] \in Nat \ {0} /\ KeysIn(b) \in SUBSET PlannedKeys(b[1])
  <2>1. PICK l \in Zooms : l = b[1] /\ b[2] \in Waves(l)
    BY <1>1
  <2>2. Waves(l) \in SUBSET (Nat \ {0})
    BY PlanShape, WavesAre
  <2>3. \A i \in Parts(l) : ToSet(plan[l][i]) \in SUBSET PlannedKeys(l)
    BY PlanShape
  <2> QED  BY <2>1, <2>2, <2>3 DEF KeysIn
<1>3. \A l \in Zooms : \A w \in Waves(l) : <<l, w>> \in Buckets
  BY DEF Buckets
<1> QED  BY <1>1, <1>2, <1>3

\* A planned key has a partition, and is routed to it and its bucket.
LEMMA KeyBucket ==
  ASSUME PlanInv, NEW l \in Zooms, NEW i \in Parts(l), NEW k \in ToSet(plan[l][i])
  PROVE  /\ Routed(l, 1, Len(plan[l]), k) = i
         /\ Bucket(l, k) = <<l, WaveOf(i)>> /\ Bucket(l, k) \in Buckets
         /\ \A b \in Buckets : b[1] = l /\ k \in KeysIn(b) <=> b = Bucket(l, k)
<1>1. /\ Split(plan[l], PlannedKeys(l)) /\ PlannedKeys(l) \in SUBSET Nat
      /\ Len(plan[l]) \in Nat /\ run \in Setups /\ (plan[l] = <<>> <=> Len(plan[l]) = 0)
  BY PlanShape
<1>2. i \in 1..Len(plan[l]) /\ 1 \in 1..Len(plan[l]) /\ Len(plan[l]) \in 1..Len(plan[l])
  BY <1>1 DEF Parts
<1>3. ASSUME NEW j \in Parts(l), k \in ToSet(plan[l][j])
      PROVE  Routed(l, 1, Len(plan[l]), k) = j
  <2>1. j \in 1..Len(plan[l])
    BY DEF Parts
  <2>2. PICK a, n : a = 1 /\ n = Len(plan[l])
    OBVIOUS
  <2>3. Cuts(PlannedKeys(l), l, a, n) /\ j \in a..n
    BY <1>1, <1>2, <2>1, <2>2 DEF Cuts
  <2>4. k \in ToSet(plan[l][j])
    BY <1>3
  <2>5. Routed(l, a, n, k) = j
    BY <2>3, <2>4, RoutedTo
  <2> QED  BY <2>2, <2>5
<1>4. Routed(l, 1, Len(plan[l]), k) = i
  BY <1>3
<1>5. Bucket(l, k) = <<l, WaveOf(i)>>
  BY <1>4 DEF Bucket
<1>6. WaveOf(i) \in Waves(l)
  BY <1>1, WavesAre
<1>7. Bucket(l, k) \in Buckets
  BY <1>5, <1>6, BucketsAre
<1>8. ASSUME NEW b \in Buckets, b[1] = l, k \in KeysIn(b)  PROVE b = Bucket(l, k)
  <2>1. PICK j \in Parts(l) : WaveOf(j) = b[2] /\ k \in ToSet(plan[l][j])
    BY <1>8 DEF KeysIn
  <2>2. j = i
    BY <1>3, <1>4, <2>1
  <2>3. b = <<b[1], b[2]>>
    BY BucketsAre
  <2> QED  BY <1>5, <1>8, <2>1, <2>2, <2>3
<1>9. ASSUME NEW b \in Buckets, b = Bucket(l, k)  PROVE b[1] = l /\ k \in KeysIn(b)
  <2>1. b[1] = l /\ b[2] = WaveOf(i)
    BY <1>5, <1>9
  <2> QED  BY <2>1 DEF KeysIn
<1> QED  BY <1>4, <1>5, <1>7, <1>8, <1>9

\* A row's member of a tile, and the members a bucket gets from some rows.
MemberOf(p, l, key) ==
  [level |-> l, key |-> key, seq |-> Global(p), gap |-> Before(p), band |-> File[p[1]].band]
Due(b, P) == UNION {{MemberOf(p, b[1], k) : k \in KeysOf(RowAt(p), b[1]) \cap KeysIn(b)} :
                      p \in {q \in P : Draws(q[1], b[1])}}

\* Nothing is due from the rows that are not read.
LEMMA DueRead ==
  ASSUME PlanInv, NEW b \in Buckets, NEW a \in Nat, NEW n \in Nat,
         \A i \in a..n : i \in Parts(b[1]),
         KeysIn(b) \subseteq UNION {ToSet(plan[b[1]][i]) : i \in a..n}
  PROVE  Due(b, RowsOf({g \in DOMAIN File : Reads(g, b[1], a, n)})) = Due(b, Places)
<1> DEFINE l == b[1]
           G == {g \in DOMAIN File : Reads(g, l, a, n)}
<1>1. /\ l \in Zooms /\ run \in Setups
      /\ \A i \in Parts(l) : ToSet(plan[l][i]) \in SUBSET KeysAt(l)
  BY BucketsAre, PlanShape
<1>2. Keyed(l, a, n)
  BY <1>1 DEF Keyed
<1> HIDE DEF l
<1>3. ASSUME NEW p \in Places, Draws(p[1], l), NEW k \in KeysOf(RowAt(p), l), k \in KeysIn(b)
      PROVE  p \in RowsOf(G)
  <2>1. PICK i \in a..n : k \in ToSet(plan[l][i])
    BY <1>3 DEF l
  <2>2. Reads(p[1], l, a, n)
    BY <1>1, <1>2, <1>3, <2>1, Unread
  <2>3. p[1] \in DOMAIN File
    BY <1>1, PlaceShape
  <2> QED  BY <2>2, <2>3 DEF RowsOf
<1>4. RowsOf(G) \subseteq Places
  BY DEF RowsOf
<1> HIDE DEF G
<1>5. Due(b, RowsOf(G)) = Due(b, Places)
  BY <1>3, <1>4 DEF Due, l
<1> QED  BY <1>5 DEF G, l

-----------------------------------------------------------------------------
(* The rows a read has passed *)

\* What is left of the rows of G is behind what has been read of them, and v
\* is the last of those with a geometry.
Passed(G, R, v) ==
  /\ R \subseteq RowsOf(G)
  /\ \A q \in RowsOf(G) \ R, p \in R : Ahead(q, p)
  /\ \/ v = NoRow /\ \A q \in RowsOf(G) \ R : RowAt(q) = <<>>
     \/ \E q \in RowsOf(G) \ R :
          /\ RowAt(q) # <<>> /\ v = <<q[1], Global(q)>>
          /\ \A r \in RowsOf(G) \ R : RowAt(r) # <<>> => r = q \/ Ahead(r, q)

\* A read has passed nothing at its start.
LEMMA PassedStarts ==
  ASSUME NEW G
  PROVE  Passed(G, RowsOf(G), NoRow)
BY DEF Passed

\* and the foremost row at each step.
LEMMA PassedNext ==
  ASSUME run \in Setups, NEW G \in SUBSET DOMAIN File, NEW R, NEW v, Passed(G, R, v),
         R # {}, NEW p, p = Foremost(R)
  PROVE  Passed(G, R \ {p}, IF RowAt(p) = <<>> THEN v ELSE <<p[1], Global(p)>>)
<1> DEFINE D == RowsOf(G) \ R
           E == RowsOf(G) \ (R \ {p})
           v2 == IF RowAt(p) = <<>> THEN v ELSE <<p[1], Global(p)>>
<1>1. RowsOf(G) \subseteq Places /\ R \subseteq RowsOf(G)
  BY DEF Passed, RowsOf
<1>2. p \in R /\ \A q \in R : q = p \/ Ahead(p, q)
  BY <1>1, ForemostOf
<1>3. E = D \cup {p} /\ p \notin D
  BY <1>1, <1>2
<1>4. /\ \A q \in D, r \in R : Ahead(q, r)
      /\ \/ v = NoRow /\ \A q \in D : RowAt(q) = <<>>
         \/ \E q \in D : /\ RowAt(q) # <<>> /\ v = <<q[1], Global(q)>>
                         /\ \A r \in D : RowAt(r) # <<>> => r = q \/ Ahead(r, q)
  BY DEF Passed
<1> HIDE DEF D, E
<1>5. \A q \in E, r \in R \ {p} : Ahead(q, r)
  BY <1>2, <1>3, <1>4
<1>6. \/ v2 = NoRow /\ \A q \in E : RowAt(q) = <<>>
      \/ \E q \in E : /\ RowAt(q) # <<>> /\ v2 = <<q[1], Global(q)>>
                      /\ \A r \in E : RowAt(r) # <<>> => r = q \/ Ahead(r, q)
  <2>1. CASE RowAt(p) = <<>>
    BY <1>3, <1>4, <2>1
  <2>2. CASE RowAt(p) # <<>>
    BY <1>2, <1>3, <1>4, <2>2
  <2> QED  BY <2>1, <2>2
<1> HIDE DEF v2
<1>7. R \ {p} \subseteq RowsOf(G)
  BY <1>1
<1>8. Passed(G, R \ {p}, v2)
  BY <1>5, <1>6, <1>7 DEF Passed, E
<1> QED  BY <1>8 DEF v2

\* The distance a row is given is that to the row before it in its group.
LEMMA GapIs ==
  ASSUME run \in Setups, NEW G \in SUBSET DOMAIN File, NEW R, NEW v, Passed(G, R, v),
         R # {}, NEW p, p = Foremost(R)
  PROVE  (IF v[1] = p[1] THEN v[2] ELSE -1) = Before(p)
<1> DEFINE D == RowsOf(G) \ R
           own == {q \in Places : q[1] = p[1] /\ q[2] < p[2] /\ RowAt(q) # <<>>}
           places == {Global(q) : q \in own}
<1>1. RowsOf(G) \subseteq Places /\ R \subseteq RowsOf(G)
  BY DEF Passed, RowsOf
<1>2. p \in R /\ \A q \in R : q = p \/ Ahead(p, q)
  BY <1>1, ForemostOf
<1>3. /\ \A q \in D, r \in R : Ahead(q, r)
      /\ \/ v = NoRow /\ \A q \in D : RowAt(q) = <<>>
         \/ \E q \in D : /\ RowAt(q) # <<>> /\ v = <<q[1], Global(q)>>
                         /\ \A r \in D : RowAt(r) # <<>> => r = q \/ Ahead(r, q)
  BY DEF Passed
<1>4. p \in Places /\ p[1] \in G
  BY <1>1, <1>2 DEF RowsOf
<1>5. \A q \in Places : q[1] \in Nat \ {0} /\ q[2] \in Nat
  BY PlaceShape
<1>6. ASSUME NEW q \in own  PROVE q \in D
  <2>1. q \in RowsOf(G)
    BY <1>4 DEF RowsOf
  <2>2. q \notin R
    <3>1. ~Ahead(p, q) /\ q # p
      BY <1>4, <1>5 DEF Ahead
    <3> QED  BY <1>2, <3>1
  <2> QED  BY <2>1, <2>2
<1>7. Before(p) = IF own = {} THEN -1 ELSE Max(places)
  BY DEF Before
<1> HIDE DEF D
<1>8. CASE v = NoRow /\ \A q \in D : RowAt(q) = <<>>
  <2>1. own = {}
    BY <1>6, <1>8
  <2>2. v[1] # p[1]
    BY <1>4, <1>5, <1>8 DEF NoRow
  <2> QED  BY <1>7, <2>1, <2>2
<1>9. CASE \E q \in D : /\ RowAt(q) # <<>> /\ v = <<q[1], Global(q)>>
                        /\ \A r \in D : RowAt(r) # <<>> => r = q \/ Ahead(r, q)
  <2>1. PICK q \in D : /\ RowAt(q) # <<>> /\ v = <<q[1], Global(q)>>
                       /\ \A r \in D : RowAt(r) # <<>> => r = q \/ Ahead(r, q)
    BY <1>9
  <2>2. Ahead(q, p) /\ q \in Places /\ v[1] = q[1] /\ v[2] = Global(q)
    BY <1>1, <1>2, <1>3, <2>1 DEF D
  <2>3. \A r \in own : r \in Places /\ (r = q \/ Ahead(r, q))
    BY <1>6, <2>1
  <2>4. CASE q[1] = p[1]
    <3>1. q \in own
      BY <1>4, <1>5, <2>1, <2>2, <2>4 DEF Ahead
    <3>2. \A r \in own : Global(r) \in Nat /\ Global(r) <= Global(q)
      BY <2>2, <2>3, GlobalOrder
    <3>3. Global(q) \in places /\ \A x \in places : x \in Nat /\ x <= Global(q)
      BY <3>1, <3>2
    <3> HIDE DEF places, own
    <3>4. Max(places) = Global(q)
      <4>1. PICK t \in Nat : t = Global(q)
        BY <3>3
      <4>2. places \in SUBSET 0..t /\ places # {}
        BY <3>3, <4>1
      <4>3. PICK x : x = Max(places)
        OBVIOUS
      <4>4. x \in places /\ \A y \in places : y <= x
        BY <4>1, <4>2, <4>3, MaxOf
      <4>5. x \in Nat /\ x <= t /\ t <= x
        BY <3>3, <4>1, <4>4
      <4> QED  BY <4>1, <4>3, <4>5
    <3> QED  BY <1>7, <2>2, <2>4, <3>1, <3>4
  <2>5. CASE q[1] # p[1]
    <3>1. q[1] < p[1]
      BY <1>4, <1>5, <2>2, <2>5 DEF Ahead
    <3>2. \A r \in own : r[1] = p[1]
      OBVIOUS
    <3>3. own = {}
      <4> HIDE DEF own
      <4>1. ASSUME NEW r \in own  PROVE FALSE
        <5>1. r[1] = p[1] /\ r \in Places /\ (r = q \/ Ahead(r, q))
          BY <2>3, <3>2
        <5> QED  BY <1>5, <2>2, <3>1, <5>1 DEF Ahead
      <4> QED  BY <4>1
    <3> QED  BY <1>7, <2>2, <2>5, <3>3
  <2> QED  BY <2>4, <2>5
<1> QED  BY <1>3, <1>8, <1>9 DEF D

\* Of a read of the whole file, the rows read are those ahead.
LEMMA ReadIs ==
  ASSUME run \in Setups, NEW R, NEW v, Passed(DOMAIN File, R, v),
         R # {}, NEW p, p = Foremost(R)
  PROVE  /\ Cardinality(Places \ R) = Global(p)
         /\ Cardinality(Places \ (R \ {p})) = Cardinality(Places \ R) + 1
<1>1. RowsOf(DOMAIN File) = Places
  BY PlaceShape DEF RowsOf
<1>2. R \subseteq Places /\ \A q \in Places \ R, r \in R : Ahead(q, r)
  BY <1>1 DEF Passed
<1>3. p \in R /\ \A q \in R : q = p \/ Ahead(p, q)
  BY <1>2, ForemostOf
<1>4. /\ \A q \in Places : ~Ahead(q, q)
      /\ \A q, r \in Places : ~(Ahead(q, r) /\ Ahead(r, q))
  BY PlaceShape DEF Ahead
<1>5. {q \in Places : Ahead(q, p)} = Places \ R
  BY <1>2, <1>3, <1>4
<1>6. Cardinality(Places \ R) = Global(p)
  BY <1>5 DEF Global
<1>7. IsFiniteSet(Places \ R)
  BY FewPlaces, FS_Subset
<1>8. Places \ (R \ {p}) = (Places \ R) \cup {p} /\ p \notin Places \ R
  BY <1>2, <1>3
<1> QED  BY <1>6, <1>7, <1>8, FS_AddElement

-----------------------------------------------------------------------------
(* The buckets a read fills *)

\* A store that fills: of every bucket, of a level's, or of one.
Filling(H) ==
  /\ z \in Zooms /\ wave \in Nat \ {0} /\ H \subseteq Buckets
  /\ Single => H = Buckets
  /\ ~Single => /\ H # {}
                /\ \/ H = {b \in Buckets : b[1] = z}
                   \/ H = {<<z, wave>>}

\* The partitions the store is filled for.
PartsRead(H) ==
  LET ws == {k[2] : k \in H}
  IN FirstPart(z, Min(ws)) .. LastPart(z, Max(ws))

\* The partitions read are those of the buckets.
LEMMA PartsReadAre ==
  ASSUME PlanInv, NEW H, Filling(H), ~Single
  PROVE  /\ PartsRead(H) # {} /\ PartsRead(H) \subseteq Parts(z)
         /\ \E a \in Nat : \E n \in Nat : PartsRead(H) = a..n
         /\ \A i \in Parts(z) : i \in PartsRead(H) <=> <<z, WaveOf(i)>> \in H
<1> DEFINE ws == {k[2] : k \in H}
<1>1. /\ z \in Zooms /\ wave \in Nat \ {0} /\ H # {} /\ H \subseteq Buckets
      /\ H = {b \in Buckets : b[1] = z} \/ H = {<<z, wave>>}
  BY DEF Filling
<1>2. PICK l \in Zooms : l = z
  BY <1>1
<1>3. /\ run \in Setups /\ Len(plan[l]) \in Nat /\ (plan[l] = <<>> <=> Len(plan[l]) = 0)
  BY PlanShape
<1>4. /\ Waves(l) \in SUBSET (Nat \ {0}) /\ LastPart(l, 0) = 0
      /\ \E t \in Nat : Waves(l) = 1..t
      /\ \A i \in Parts(l) : WaveOf(i) \in Waves(l)
      /\ \A w \in Nat \ {0} : \A i \in Parts(l) :
           WaveOf(i) = w <=> FirstPart(l, w) <= i /\ i <= LastPart(l, w)
      /\ \A w \in Waves(l) :
           /\ FirstPart(l, w) \in Parts(l) /\ LastPart(l, w) \in Parts(l)
           /\ FirstPart(l, w) <= LastPart(l, w)
           /\ LastPart(l, w - 1) = FirstPart(l, w) - 1
      /\ \A w \in Nat \ {0} : w \notin Waves(l) => LastPart(l, w - 1) = Len(plan[l])
  BY <1>3, WavesAre
<1>5. \A b \in H : b[1] = l /\ b[2] \in Waves(l) /\ b = <<l, b[2]>>
  BY <1>1, <1>2, BucketsAre
<1>6. Parts(l) = 1..Len(plan[l])
  BY DEF Parts
<1>7. PartsRead(H) = FirstPart(l, Min(ws)) .. LastPart(l, Max(ws))
  BY <1>2 DEF PartsRead
<1>8. CASE H = {<<z, wave>>}
  <2>1. ws = {wave} /\ wave \in Waves(l)
    BY <1>2, <1>5, <1>8
  <2>2. Min(ws) = wave /\ Max(ws) = wave
    <3>1. PICK m \in Nat : m = wave
      BY <1>1
    <3>2. Min({m}) = m /\ Max({m}) = m
      BY DEF Min, Max
    <3> QED  BY <2>1, <3>1, <3>2
  <2>3. PartsRead(H) = FirstPart(l, wave) .. LastPart(l, wave)
    BY <1>7, <2>2
  <2>4. PICK a \in 1..Len(plan[l]), n \in 1..Len(plan[l]) :
          a = FirstPart(l, wave) /\ n = LastPart(l, wave) /\ a <= n
    BY <1>4, <1>6, <2>1
  <2>5. a \in a..n /\ a..n \subseteq 1..Len(plan[l])
    BY <1>3, <2>4
  <2>6. ASSUME NEW i \in Parts(l)  PROVE i \in a..n <=> <<l, WaveOf(i)>> \in H
    <3>1. WaveOf(i) = wave <=> a <= i /\ i <= n
      BY <1>1, <1>4, <2>4
    <3>2. i \in a..n <=> a <= i /\ i <= n
      BY <1>3, <1>6, <2>4
    <3>3. <<l, WaveOf(i)>> \in H <=> WaveOf(i) = wave
      BY <1>2, <1>8
    <3> QED  BY <3>1, <3>2, <3>3
  <2>7. a \in Nat /\ n \in Nat /\ PartsRead(H) = a..n
    BY <1>3, <2>3, <2>4
  <2> QED  BY <1>2, <1>6, <2>5, <2>6, <2>7
<1>9. CASE H = {b \in Buckets : b[1] = z}
  <2>1. \A w \in Waves(l) : <<l, w>> \in H
    BY <1>2, <1>9, BucketsAre
  <2>2. ws = Waves(l)
    <3>1. \A w \in Waves(l) : w \in ws
      <4>1. \A w : <<l, w>>[2] = w
        OBVIOUS
      <4> QED  BY <2>1, <4>1
    <3>2. \A w \in ws : w \in Waves(l)
      BY <1>5
    <3> QED  BY <3>1, <3>2
  <2>3. PICK t \in Nat : Waves(l) = 1..t
    BY <1>4
  <2>4. t # 0
    <3>1. PICK b \in H : TRUE
      BY <1>1
    <3>2. b[2] \in 1..t
      BY <1>5, <2>3
    <3> QED  BY <2>3, <3>2
  <2>5. Min(ws) = 1 /\ Max(ws) = t
    <3>1. 1 \in 1..t /\ t \in 1..t /\ 1..t \in SUBSET Nat /\ 1..t \in SUBSET 0..t
      BY <2>4
    <3>2. PICK x, y : x = Min(1..t) /\ y = Max(1..t)
      OBVIOUS
    <3>3. x \in 1..t /\ \A i \in 1..t : x <= i
      BY <3>1, <3>2, MinOf
    <3>4. y \in 1..t /\ \A i \in 1..t : i <= y
      BY <3>1, <3>2, MaxOf
    <3>5. x = 1 /\ y = t
      BY <3>1, <3>3, <3>4
    <3> QED  BY <2>2, <2>3, <3>2, <3>5
  <2>6. FirstPart(l, 1) = 1
    <3>1. 1 \in Waves(l)
      BY <2>3, <2>4
    <3>2. LastPart(l, 1 - 1) = FirstPart(l, 1) - 1 /\ FirstPart(l, 1) \in 1..Len(plan[l])
      BY <1>4, <1>6, <3>1
    <3>3. LastPart(l, 1 - 1) = 0
      BY <1>4
    <3> QED  BY <3>2, <3>3
  <2>7. LastPart(l, t) = Len(plan[l])
    <3>1. PICK u \in Nat \ {0} : u = t + 1 /\ u \notin 1..t
      BY <2>3
    <3>2. LastPart(l, u - 1) = Len(plan[l])
      BY <1>4, <2>3, <3>1
    <3>3. u - 1 = t
      BY <3>1
    <3> QED  BY <3>2, <3>3
  <2>8. PartsRead(H) = Parts(l)
    BY <1>6, <1>7, <2>5, <2>6, <2>7
  <2>9. Parts(l) # {}
    BY <1>4, <2>3, <2>4
  <2>10. \A i \in Parts(l) : <<l, WaveOf(i)>> \in H
    BY <1>4, <2>1
  <2>11. PICK a \in Nat, n \in Nat : PartsRead(H) = a..n
    BY <1>3, <1>6, <2>8
  <2> QED  BY <1>2, <2>8, <2>9, <2>10, <2>11
<1> QED  BY <1>1, <1>8, <1>9

\* The export has no range of tiles when its file is read once.
WholeWorld == Single => \A l \in Zooms : KeysAt(l) \subseteq run.tiles[l]

\* A level's key that a row of it has, and that is wanted, is planned.
LEMMA WantedPlanned ==
  ASSUME run \in Setups, NEW l \in Zooms, NEW p \in Places, Draws(p[1], l),
         NEW k \in KeysOf(RowAt(p), l), k \in run.tiles[l]
  PROVE  k \in PlannedKeys(l)
<1>1. p \in DrawnRows(l, k)
  BY DEF DrawnRows
<1> QED  BY <1>1, PlannedAre

\* A row is clipped for the tiles of the buckets that fill, and for no other.
LEMMA WindowIs ==
  ASSUME PlanInv, WholeWorld, Filling(DOMAIN held),
         NEW p \in Places, ~Single => Draws(p[1], z)
  PROVE  /\ \A l \in Targets(p[1]) : \A k \in KeysOf(RowAt(p), l) \cap Window :
              /\ l \in Zooms /\ Draws(p[1], l) /\ k \in Nat
              /\ k \in KeysIn(Bucket(l, k)) /\ Bucket(l, k) \in DOMAIN held
         /\ \A b \in DOMAIN held : Draws(p[1], b[1]) =>
              \A k \in KeysOf(RowAt(p), b[1]) \cap KeysIn(b) :
                b[1] \in Targets(p[1]) /\ k \in Window /\ Bucket(b[1], k) = b
<1> DEFINE H == DOMAIN held
<1>1. /\ z \in Zooms /\ H \subseteq Buckets /\ run \in Setups /\ p[1] \in DOMAIN File
      /\ RowAt(p) \in Spans
  BY PlaceShape DEF Filling, PlanInv
<1>2. ASSUME NEW l \in Zooms, NEW k \in PlannedKeys(l)
      PROVE  /\ Bucket(l, k) \in Buckets /\ k \in KeysIn(Bucket(l, k)) /\ Bucket(l, k)[1] = l
             /\ \A b \in Buckets : b[1] = l /\ k \in KeysIn(b) => b = Bucket(l, k)
  <2>1. PICK i \in Parts(l) : k \in ToSet(plan[l][i])
    BY PlanShape
  <2>2. Bucket(l, k) \in Buckets
    BY <2>1, KeyBucket
  <2>3. \A b \in Buckets : b[1] = l /\ k \in KeysIn(b) <=> b = Bucket(l, k)
    BY <2>1, KeyBucket
  <2> QED  BY <2>2, <2>3
<1>3. ASSUME NEW b \in H
      PROVE  /\ b[1] \in Zooms /\ b \in Buckets
             /\ \A k \in KeysIn(b) : k \in PlannedKeys(b[1]) /\ Bucket(b[1], k) = b
  <2>1. b \in Buckets
    BY <1>1
  <2>2. b[1] \in Zooms /\ KeysIn(b) \in SUBSET PlannedKeys(b[1])
    BY <2>1, BucketsAre
  <2> QED  BY <1>2, <2>1, <2>2
<1>4. \A l \in Zooms : KeysOf(RowAt(p), l) \in SUBSET KeysAt(l) /\ KeysAt(l) \in SUBSET Nat
  BY <1>1, KeysShape, KeysAre
<1>5. CASE Single
  <2>1. /\ H = Buckets /\ run.partitioning /\ Window = Nat
        /\ Targets(p[1]) = {l \in Zooms : File[p[1]].band <= l /\ plan[l] # <<>>}
        /\ \A l \in Zooms : KeysAt(l) \subseteq run.tiles[l]
    BY <1>1, <1>5 DEF Filling, Single, Window, Targets, WholeWorld
  <2>2. \A l : Draws(p[1], l) <=> File[p[1]].band <= l
    BY <2>1 DEF Draws
  <2>3. ASSUME NEW l \in Targets(p[1]), NEW k \in KeysOf(RowAt(p), l)
        PROVE  /\ l \in Zooms /\ Draws(p[1], l) /\ k \in Nat
               /\ k \in KeysIn(Bucket(l, k)) /\ Bucket(l, k) \in H
    <3>1. l \in Zooms /\ Draws(p[1], l)
      BY <2>1, <2>2
    <3>2. k \in PlannedKeys(l) /\ k \in Nat
      BY <1>1, <1>4, <2>1, <3>1, WantedPlanned
    <3> QED  BY <1>2, <2>1, <3>1, <3>2
  <2>4. ASSUME NEW b \in H, Draws(p[1], b[1]), NEW k \in KeysOf(RowAt(p), b[1]) \cap KeysIn(b)
        PROVE  b[1] \in Targets(p[1]) /\ k \in Window /\ Bucket(b[1], k) = b
    <3>1. b[1] \in Zooms /\ Bucket(b[1], k) = b
      BY <1>3
    <3>2. k \in Nat
      BY <1>4, <3>1
    <3>3. plan[b[1]] # <<>>
      <4>1. Parts(b[1]) # {}
        BY DEF KeysIn
      <4> QED  BY <4>1 DEF Parts
    <3> QED  BY <2>1, <2>2, <2>4, <3>1, <3>2, <3>3
  <2> QED  BY <2>1, <2>3, <2>4
<1>6. CASE ~Single
  <2> DEFINE wanted == UNION {ToSet(plan[z][i]) : i \in PartsRead(H)}
  <2>1. /\ Targets(p[1]) = {z} /\ Draws(p[1], z)
        /\ Window = IF run.picked THEN wanted ELSE Min(wanted) .. Max(wanted)
    BY <1>6 DEF Targets, Window, PartsRead
  <2>2. /\ PartsRead(H) # {} /\ PartsRead(H) \subseteq Parts(z)
        /\ \A i \in Parts(z) : i \in PartsRead(H) <=> <<z, WaveOf(i)>> \in H
    BY <1>6, PartsReadAre
  <2>3. PICK l \in Zooms : l = z
    BY <1>1
  <2>4. /\ Split(plan[l], PlannedKeys(l)) /\ PlannedKeys(l) \in SUBSET Nat
        /\ \A i \in Parts(l) : ToSet(plan[l][i]) \in SUBSET PlannedKeys(l)
        /\ \A k \in PlannedKeys(l) : \E i \in Parts(l) : k \in ToSet(plan[l][i])
    BY PlanShape
  <2>5. /\ \A i \in Parts(l) : ToSet(plan[l][i]) # {}
        /\ \A i, j \in Parts(l) : i < j =>
             \A k \in ToSet(plan[l][i]), d \in ToSet(plan[l][j]) : k < d
    <3>1. PICK S \in SUBSET Nat : S = PlannedKeys(l) /\ Split(plan[l], S)
      BY <2>4
    <3>2. \A i \in 1..Len(plan[l]) : plan[l][i][1] \in ToSet(plan[l][i])
      BY <3>1, PartsAre
    <3>3. \A i, j \in 1..Len(plan[l]) : i < j =>
             \A k \in ToSet(plan[l][i]), d \in ToSet(plan[l][j]) : k < d
      BY <3>1, PartsAre
    <3> QED  BY <3>2, <3>3 DEF Parts
  <2>6. ASSUME NEW i \in Parts(l), NEW k \in ToSet(plan[l][i])
        PROVE  /\ k \in PlannedKeys(l) /\ Bucket(l, k) = <<l, WaveOf(i)>>
               /\ k \in wanted <=> Bucket(l, k) \in H
    <3>1. k \in PlannedKeys(l) /\ Bucket(l, k) = <<l, WaveOf(i)>>
      BY <2>4, KeyBucket
    <3>2. \A j \in Parts(l) : k \in ToSet(plan[l][j]) => j = i
      BY <2>4, KeyBucket
    <3>3. k \in wanted <=> i \in PartsRead(H)
      BY <2>2, <2>3, <3>2
    <3> QED  BY <2>2, <2>3, <3>1, <3>3
  <2>7. wanted \in SUBSET PlannedKeys(l) /\ wanted # {} /\ IsFiniteSet(wanted)
    <3>1. wanted \in SUBSET PlannedKeys(l)
      BY <2>2, <2>3, <2>4
    <3>2. wanted # {}
      BY <2>2, <2>3, <2>5
    <3>3. IsFiniteSet(PlannedKeys(l))
      BY <1>1, PlannedAre
    <3> HIDE DEF wanted
    <3> QED  BY <3>1, <3>2, <3>3, FS_Subset
  <2> HIDE DEF wanted
  <2>8. PICK lo \in wanted, hi \in wanted :
          lo = Min(wanted) /\ hi = Max(wanted) /\ \A k \in wanted : lo <= k /\ k <= hi
    <3>1. wanted \in SUBSET Int
      BY <2>4, <2>7
    <3> QED  BY <2>7, <3>1, Extremes
  <2>9. lo \in Nat /\ hi \in Nat /\ lo \in run.tiles[l] /\ hi \in run.tiles[l]
    BY <1>1, <2>4, <2>7, PlannedAre
  <2>10. ASSUME NEW k \in KeysOf(RowAt(p), l), k \in Window  PROVE k \in wanted
    <3>1. CASE run.picked
      BY <2>1, <2>10, <3>1
    <3>2. CASE ~run.picked
      <4>1. k \in lo..hi
        BY <2>1, <2>8, <2>10, <3>2
      <4>2. lo..hi \subseteq run.tiles[l]
        BY <1>1, <2>9, <3>2, SetupsAssumption DEF Zooms
      <4>3. k \in PlannedKeys(l)
        BY <1>1, <2>1, <2>3, <4>1, <4>2, WantedPlanned
      <4>4. PICK j \in Parts(l) : k \in ToSet(plan[l][j])
        BY <2>4, <4>3
      <4>5. PICK i \in Parts(l) : lo \in ToSet(plan[l][i])
        BY <2>4, <2>7
      <4>6. PICK n \in Parts(l) : hi \in ToSet(plan[l][n])
        BY <2>4, <2>7
      <4>7. i \in PartsRead(H) /\ n \in PartsRead(H)
        BY <2>2, <2>3, <2>6, <4>5, <4>6
      <4>8. i <= j /\ j <= n
        <5>1. ~(j < i) /\ ~(n < j)
          <6>1. lo <= k /\ k <= hi /\ k \in Nat
            BY <2>9, <4>1
          <6>2. ASSUME j < i  PROVE FALSE
            <7>1. k < lo
              BY <2>5, <4>4, <4>5, <6>2
            <7> QED  BY <2>9, <6>1, <7>1
          <6>3. ASSUME n < j  PROVE FALSE
            <7>1. hi < k
              BY <2>5, <4>4, <4>6, <6>3
            <7> QED  BY <2>9, <6>1, <7>1
          <6> QED  BY <6>2, <6>3
        <5>2. i \in Nat /\ j \in Nat /\ n \in Nat
          BY DEF Parts
        <5> QED  BY <5>1, <5>2
      <4>9. j \in PartsRead(H)
        <5>1. PICK a \in Nat, c \in Nat : PartsRead(H) = a..c
          BY <1>6, PartsReadAre
        <5>2. i \in Int /\ j \in Int /\ n \in Int
          BY DEF Parts
        <5> QED  BY <4>7, <4>8, <5>1, <5>2
      <4>10. <<l, WaveOf(j)>> \in H
        BY <2>2, <2>3, <4>9
      <4> QED  BY <2>6, <4>4, <4>10
    <3> QED  BY <3>1, <3>2
  <2>11. ASSUME NEW k \in wanted
         PROVE  /\ k \in Window /\ k \in Nat /\ k \in PlannedKeys(l) /\ Bucket(l, k) \in H
    <3>1. k \in PlannedKeys(l) /\ k \in Nat
      BY <2>4, <2>7
    <3>2. k \in Window
      BY <2>1, <2>8, <2>9, <3>1
    <3>3. Bucket(l, k) \in H
      BY <2>4, <2>6, <3>1
    <3> QED  BY <3>1, <3>2, <3>3
  <2>12. ASSUME NEW c \in Targets(p[1]), NEW k \in KeysOf(RowAt(p), c) \cap Window
         PROVE  /\ c \in Zooms /\ Draws(p[1], c) /\ k \in Nat
                /\ k \in KeysIn(Bucket(c, k)) /\ Bucket(c, k) \in H
    <3>1. c = l
      BY <2>1, <2>3
    <3>2. k \in wanted
      BY <2>10, <3>1
    <3> QED  BY <1>2, <2>1, <2>3, <2>11, <3>1, <3>2
  <2>13. ASSUME NEW b \in H, Draws(p[1], b[1]), NEW k \in KeysOf(RowAt(p), b[1]) \cap KeysIn(b)
         PROVE  b[1] \in Targets(p[1]) /\ k \in Window /\ Bucket(b[1], k) = b
    <3>1. b[1] = l
      <4>1. H = {d \in Buckets : d[1] = z} \/ H = {<<z, wave>>}
        BY <1>6 DEF Filling
      <4> QED  BY <2>3, <4>1
    <3>2. k \in PlannedKeys(l) /\ Bucket(l, k) = b
      BY <1>3, <3>1
    <3>3. k \in wanted
      BY <2>4, <2>6, <3>2
    <3> QED  BY <2>1, <2>3, <2>11, <3>1, <3>2, <3>3
  <2> QED  BY <2>12, <2>13
<1> QED  BY <1>5, <1>6

-----------------------------------------------------------------------------
(* A tile of its members *)

\* The members of a tile, and as they are encoded.
Made(l, key) == {MemberOf(p, l, key) : p \in DrawnRows(l, key)}
Encoded(M) ==
  [j \in 1..Cardinality({m.seq : m \in M}) |->
     Fields(CHOOSE m \in M : Cardinality({x \in M : x.seq < m.seq}) + 1 = j)]

\* The members of a tile by row are its rows in file order.
LEMMA TileMembers ==
  ASSUME run \in Setups, NEW l, NEW k
  PROVE  Encoded(Made(l, k)) = TileOf(l, k).members
<1> DEFINE M == Made(l, k)
           own == DrawnRows(l, k)
           rank == [p \in own |-> Cardinality({q \in own : Ahead(q, p)})]
           Nth(j) == CHOOSE p \in own : Cardinality({q \in own : Ahead(q, p)}) = j - 1
           n == Cardinality(own)
           g == [p \in own |-> Global(p)]
           f == [p \in own |-> MemberOf(p, l, k)]
<1>1. own \in SUBSET Places
  BY DEF DrawnRows
<1>2. TileOf(l, k).members
        = [j \in 1..n |-> [seq |-> Global(Nth(j)), gap |-> Before(Nth(j)),
                           band |-> File[Nth(j)[1]].band]]
  BY DEF TileOf, DrawnRows
<1> HIDE DEF own, g, f
<1>3. /\ IsFiniteSet(own) /\ Ordering(InFileOrder, own)
      /\ \A p \in own : Below(InFileOrder, own, p) = {q \in own : Ahead(q, p)}
  BY <1>1, PlacesOrdered
<1>4. /\ n \in Nat /\ \A p \in own : rank[p] \in 0..(n - 1)
      /\ \A j \in 1..n : \E p \in own : rank[p] = j - 1
      /\ \A p, q \in own : rank[p] = rank[q] => p = q
  <2> DEFINE r2 == [p \in own |-> Cardinality(Below(InFileOrder, own, p))]
  <2>1. /\ n \in Nat /\ \A p \in own : r2[p] \in 0..(n - 1)
        /\ \A j \in 1..n : \E p \in own : r2[p] = j - 1
        /\ \A p, q \in own : r2[p] = r2[q] => p = q
    BY <1>3, Ranking
  <2>2. rank = r2
    BY <1>3
  <2> HIDE DEF rank, r2
  <2> QED  BY <2>1, <2>2
<1>5. \A p \in own : Global(p) \in Nat /\ \A q \in own : /\ Global(q) < Global(p) <=> Ahead(q, p)
                                                         /\ Global(p) = Global(q) => p = q
  BY <1>1, GlobalOrder
<1>6. /\ M = {f[p] : p \in own}
      /\ \A p \in own : f[p] = MemberOf(p, l, k) /\ f[p].seq = Global(p)
  BY DEF own, f, MemberOf, Made
<1> HIDE DEF M
<1>7. Cardinality({m.seq : m \in M}) = n
  <2>1. {m.seq : m \in M} = {g[p] : p \in own}
    BY <1>6 DEF g
  <2>2. \A p, q \in own : g[p] = g[q] => p = q
    BY <1>5 DEF g
  <2>3. Cardinality({g[p] : p \in own}) = Cardinality(own)
    BY <1>3, <2>2, SameCount
  <2> QED  BY <2>1, <2>3
<1>8. ASSUME NEW p \in own
      PROVE  Cardinality({m \in M : m.seq < f[p].seq}) = rank[p]
  <2> DEFINE T == {q \in own : Ahead(q, p)}
  <2>1. {m \in M : m.seq < f[p].seq} = {f[q] : q \in T}
    BY <1>5, <1>6
  <2>2. IsFiniteSet(T)
    BY <1>3, FS_Subset
  <2>3. \A x, y \in T : f[x] = f[y] => x = y
    BY <1>5, <1>6
  <2>4. rank[p] = Cardinality(T)
    OBVIOUS
  <2> HIDE DEF T, rank
  <2>5. Cardinality({f[q] : q \in T}) = Cardinality(T)
    BY <2>2, <2>3, SameCount
  <2> QED  BY <2>1, <2>4, <2>5
<1>9. ASSUME NEW j \in 1..n
      PROVE  /\ Nth(j) \in own
             /\ (CHOOSE m \in M : Cardinality({x \in M : x.seq < m.seq}) + 1 = j)
                  = f[Nth(j)]
  <2>1. Nth(j) \in own /\ rank[Nth(j)] = j - 1
    <3>1. PICK p \in own : rank[p] = j - 1
      BY <1>4
    <3> QED  BY <3>1
  <2>2. PICK p \in own : p = Nth(j) /\ rank[p] = j - 1
    BY <2>1
  <2> HIDE DEF rank, Nth, n
  <2>3. f[p] \in M /\ Cardinality({x \in M : x.seq < f[p].seq}) + 1 = j
    <3>1. f[p] \in M
      BY <1>6
    <3>2. Cardinality({x \in M : x.seq < f[p].seq}) = j - 1
      BY <1>8, <2>2
    <3>3. j - 1 + 1 = j
      BY <1>4
    <3> QED  BY <3>1, <3>2, <3>3
  <2>4. ASSUME NEW m \in M, Cardinality({x \in M : x.seq < m.seq}) + 1 = j  PROVE m = f[p]
    <3>1. PICK q \in own : m = f[q]
      BY <1>6
    <3>2. Cardinality({x \in M : x.seq < m.seq}) = rank[q]
      BY <1>8, <3>1
    <3>3. rank[q] \in 0..(n - 1) /\ n \in Nat
      BY <1>4
    <3>4. rank[q] = rank[p]
      BY <2>2, <2>4, <3>2, <3>3
    <3> QED  BY <1>4, <3>1, <3>4
  <2>5. (CHOOSE m \in M : Cardinality({x \in M : x.seq < m.seq}) + 1 = j) = f[p]
    BY <2>3, <2>4
  <2> QED  BY <2>2, <2>5
<1> HIDE DEF Nth, n, rank
<1>10. ASSUME NEW j \in 1..n
       PROVE  Fields(CHOOSE m \in M : Cardinality({x \in M : x.seq < m.seq}) + 1 = j)
                = [seq |-> Global(Nth(j)), gap |-> Before(Nth(j)), band |-> File[Nth(j)[1]].band]
  <2>1. PICK p : p = Nth(j)
    OBVIOUS
  <2>2. p \in own /\ (CHOOSE m \in M : Cardinality({x \in M : x.seq < m.seq}) + 1 = j)
                       = MemberOf(p, l, k)
    BY <1>6, <1>9, <2>1
  <2>3. Fields(MemberOf(p, l, k))
          = [seq |-> Global(p), gap |-> Before(p), band |-> File[p[1]].band]
    BY DEF Fields, MemberOf
  <2> QED  BY <2>1, <2>2, <2>3
<1> QED  BY <1>2, <1>7, <1>10 DEF Encoded, M

\* A partition's members are encoded to its tiles.
LEMMA TilesDrawn ==
  ASSUME PlanInv, z \in Zooms, NEW i \in Parts(z), NEW ms,
         ms = UNION {{MemberOf(p, z, k) : k \in KeysOf(RowAt(p), z) \cap ToSet(plan[z][i])} :
                       p \in {q \in Places : Draws(q[1], z)}}
  PROVE  Tiles(ms) = Drawn(z, plan[z][i])
<1>1. PICK l \in Zooms : l = z
  OBVIOUS
<1>2. PICK part : part = plan[l][i]
  OBVIOUS
<1>3. /\ ToSet(part) \in SUBSET PlannedKeys(l) /\ run \in Setups
      /\ Split(plan[l], PlannedKeys(l)) /\ PlannedKeys(l) \in SUBSET Nat
  BY <1>1, <1>2, PlanShape
<1>4. Ascending(ToSet(part)) = part
  <2>1. PICK S \in SUBSET Nat : Split(plan[l], S)
    BY <1>3
  <2>2. \A j \in 1..Len(plan[l]) : Ascending(ToSet(plan[l][j])) = plan[l][j]
    BY <2>1, PartsAre
  <2> QED  BY <1>1, <1>2, <2>2 DEF Parts
<1>5. \A m : m \in ms <=> \E p \in Places : /\ Draws(p[1], l)
                                            /\ \E k \in KeysOf(RowAt(p), l) \cap ToSet(part) :
                                                 m = MemberOf(p, l, k)
  BY <1>1, <1>2
<1>6. \A p, k : MemberOf(p, l, k).key = k
  BY DEF MemberOf
<1>7. {m.key : m \in ms} = ToSet(part)
  <2>1. ASSUME NEW k \in ToSet(part)  PROVE \E m \in ms : m.key = k
    <3>1. PICK p \in DrawnRows(l, k) : TRUE
      BY <1>3, PlannedAre
    <3>2. p \in Places /\ Draws(p[1], l) /\ k \in KeysOf(RowAt(p), l)
      BY DEF DrawnRows
    <3>3. MemberOf(p, l, k) \in ms
      BY <1>5, <3>2
    <3> QED  BY <1>6, <3>3
  <2>2. \A m \in ms : m.key \in ToSet(part)
    BY <1>5, <1>6
  <2> QED  BY <2>1, <2>2
<1>8. ASSUME NEW k \in ToSet(part)
      PROVE  {m \in ms : m.key = k} = Made(l, k)
  BY <1>5, <1>6 DEF DrawnRows, Made
<1>9. Tiles(ms) = [j \in DOMAIN part |->
        [level |-> z, key |-> part[j], members |-> Encoded({m \in ms : m.key = part[j]})]]
  <2>1. Tiles(ms) = [j \in DOMAIN Ascending({m.key : m \in ms}) |->
          [level |-> z, key |-> Ascending({m.key : m \in ms})[j],
           members |-> Encoded({m \in ms : m.key = Ascending({m2.key : m2 \in ms})[j]})]]
    BY DEF Tiles, Encoded
  <2>2. Ascending({m.key : m \in ms}) = part
    BY <1>4, <1>7
  <2> QED  BY ONLY <2>1, <2>2
<1>10. \A j \in DOMAIN part :
         Encoded({m \in ms : m.key = part[j]}) = TileOf(l, part[j]).members
  <2>1. ASSUME NEW j \in DOMAIN part
        PROVE  Encoded({m \in ms : m.key = part[j]}) = TileOf(l, part[j]).members
    <3>1. PICK k \in ToSet(part) : k = part[j]
      BY DEF ToSet
    <3>2. {m \in ms : m.key = part[j]} = Made(l, k)
      BY <1>8, <3>1
    <3>3. Encoded(Made(l, k)) = TileOf(l, k).members
      BY <1>3, TileMembers
    <3> QED  BY <3>1, <3>2, <3>3
  <2> QED  BY <2>1
<1>11. \A k : TileOf(l, k) = [level |-> l, key |-> k, members |-> TileOf(l, k).members]
  BY DEF TileOf
<1>12. Drawn(z, plan[z][i]) = [j \in DOMAIN part |-> TileOf(l, part[j])]
  BY <1>1, <1>2 DEF Drawn
<1>13. Tiles(ms) = [j \in DOMAIN part |-> [level |-> l, key |-> part[j],
                                           members |-> TileOf(l, part[j]).members]]
  BY <1>1, <1>9, <1>10
<1>14. \A j \in DOMAIN part : TileOf(l, part[j])
         = [level |-> l, key |-> part[j], members |-> TileOf(l, part[j]).members]
  BY <1>11
<1> QED  BY <1>12, <1>13, <1>14

-----------------------------------------------------------------------------
(* The plan rests *)

\* What follows from the export and its plan rests with them.
LEMMA FileRests ==
  ASSUME UNCHANGED <<run, plan>>
  PROVE  /\ File' = File /\ (Single <=> Single')
         /\ Places' = Places /\ \A p : RowAt(p)' = RowAt(p)
         /\ \A p : Global(p)' = Global(p)
         /\ \A p : Before(p)' = Before(p)
         /\ \A g, l : Draws(g, l)' <=> Draws(g, l)
         /\ \A row, l : KeysOf(row, l)' = KeysOf(row, l)
         /\ \A G : RowsOf(G)' = RowsOf(G)
<1>1. File' = File /\ run' = run
  BY DEF File
<1>2. Single <=> Single'
  BY DEF Single
<1>3. Places' = Places
  BY <1>1 DEF Places
<1>4. \A p : RowAt(p)' = RowAt(p)
  BY <1>1 DEF RowAt
<1>5. \A p : Global(p)' = Global(p)
  BY <1>3 DEF Global
<1>6. \A g, l : Draws(g, l)' <=> Draws(g, l)
  BY <1>1 DEF Draws
<1>7. \A l : Buffer(l)' = Buffer(l)
  BY DEF Buffer
<1>8. \A row, l : Shifts(row, l)' = Shifts(row, l)
  BY <1>7 DEF Shifts
<1>9. \A row, l : KeysOf(row, l)' = KeysOf(row, l)
  BY <1>7, <1>8 DEF KeysOf
<1>10. \A G : RowsOf(G)' = RowsOf(G)
  BY <1>3 DEF RowsOf
<1>11. \A p : Before(p)' = Before(p)
  BY <1>3, <1>4, <1>5 DEF Before
<1> QED  BY <1>1, <1>2, <1>3, <1>4, <1>5, <1>6, <1>9, <1>10, <1>11

\* What follows from the plan rests with it.
LEMMA PlanRests ==
  ASSUME UNCHANGED <<run, plan>>
  PROVE  /\ \A l : PlannedKeys(l)' = PlannedKeys(l)
         /\ \A l : Parts(l)' = Parts(l)
         /\ \A l : Waves(l)' = Waves(l)
         /\ Buckets' = Buckets
         /\ \A l, w : LastPart(l, w)' = LastPart(l, w)
         /\ \A l, k : Bucket(l, k)' = Bucket(l, k)
         /\ \A b : KeysIn(b)' = KeysIn(b)
         /\ \A b, P : Due(b, P)' = Due(b, P)
         /\ \A l, part : Drawn(l, part)' = Drawn(l, part)
         /\ \A l : DrawnLevel(l)' = DrawnLevel(l)
<1>1. /\ File' = File /\ Places' = Places /\ \A p : RowAt(p)' = RowAt(p)
      /\ \A p : Global(p)' = Global(p)
      /\ \A p : Before(p)' = Before(p)
      /\ \A g, l : Draws(g, l)' <=> Draws(g, l)
      /\ \A row, l : KeysOf(row, l)' = KeysOf(row, l)
  BY FileRests
<1>2. run' = run /\ plan' = plan
  OBVIOUS
<1>3. \A k, l : Count(k, l)' = Count(k, l)
  BY <1>1 DEF Count
<1>4. \A l : PlannedKeys(l)' = PlannedKeys(l)
  BY <1>2, <1>3 DEF PlannedKeys
<1>5. \A l : Parts(l)' = Parts(l)
  BY <1>2 DEF Parts
<1>6. \A i : WaveOf(i)' = WaveOf(i)
  BY <1>2 DEF WaveOf
<1>7. \A l : Waves(l)' = Waves(l)
  BY <1>2, <1>6 DEF Waves
<1>8. Buckets' = Buckets
  BY <1>7 DEF Buckets
<1>9. \A l, w : LastPart(l, w)' = LastPart(l, w)
  BY <1>2 DEF LastPart
<1>10. \A l, k : Bucket(l, k)' = Bucket(l, k)
  BY <1>2, <1>6 DEF Bucket, Routed
<1>11. \A b : KeysIn(b)' = KeysIn(b)
  BY <1>2, <1>5, <1>6 DEF KeysIn
<1>12. \A p, l, k : MemberOf(p, l, k)' = MemberOf(p, l, k)
  BY <1>1 DEF MemberOf
<1>13. \A b, P : Due(b, P)' = Due(b, P)
  BY <1>1, <1>11, <1>12 DEF Due
<1>14. \A l, k : TileOf(l, k)' = TileOf(l, k)
  <2> DEFINE Nth(l, k, j) == CHOOSE p \in DrawnRows(l, k) :
                 Cardinality({q \in DrawnRows(l, k) : Ahead(q, p)}) = j - 1
  <2>1. \A l, k : DrawnRows(l, k)' = DrawnRows(l, k)
    BY <1>1 DEF DrawnRows
  <2>2. \A l, k, j : Nth(l, k, j)' = Nth(l, k, j)
    BY <2>1
  <2>3. \A l, k : TileOf(l, k) =
          [level |-> l, key |-> k,
           members |-> [j \in 1..Cardinality(DrawnRows(l, k)) |->
             [seq |-> Global(Nth(l, k, j)), gap |-> Before(Nth(l, k, j)),
              band |-> File[Nth(l, k, j)[1]].band]]]
    BY DEF TileOf, DrawnRows
  <2>4. \A l, k : TileOf(l, k)' =
          [level |-> l, key |-> k,
           members |-> [j \in 1..Cardinality(DrawnRows(l, k)') |->
             [seq |-> Global(Nth(l, k, j))', gap |-> Before(Nth(l, k, j))',
              band |-> File'[Nth(l, k, j)'[1]].band]]]
    BY DEF TileOf, DrawnRows
  <2> HIDE DEF Nth
  <2>5. \A l, k, j : /\ Global(Nth(l, k, j))' = Global(Nth(l, k, j))
                     /\ Before(Nth(l, k, j))' = Before(Nth(l, k, j))
    BY <1>1, <2>2
  <2> QED  BY <1>1, <2>1, <2>2, <2>3, <2>4, <2>5
<1>15. \A l, part : Drawn(l, part)' = Drawn(l, part)
  BY <1>14 DEF Drawn
<1>16. \A l : DrawnLevel(l)' = DrawnLevel(l)
  BY <1>2, <1>5, <1>15 DEF DrawnLevel
<1> QED  BY <1>4, <1>5, <1>7, <1>8, <1>9, <1>10, <1>11, <1>13, <1>15, <1>16

-----------------------------------------------------------------------------
(* The invariant *)

\* Where the export is.
PlaceInv ==
  /\ z \in 0..Levels /\ wave \in Nat \ {0}
  /\ pc \in {"next", "read", "finish"} => z \in Zooms
  /\ pc = "done" => z = Levels /\ wave = 1
  /\ pc \in {"next", "finish"} => rows = {} /\ todo = <<>>

\* What a read has left, of all the file or of row groups of the level.
RowsLeft(R, v, n, l) ==
  \E G \in SUBSET DOMAIN File :
    /\ Passed(G, R, v)
    /\ Single => G = DOMAIN File /\ n = Cardinality(Places \ R)
    /\ ~Single => \A g \in G : Draws(g, l)
RowsInv == pc = "read" => RowsLeft(rows, prev, read, z)

\* The buckets of the store, and whose the members on their way to it are.
AnyMember == UNION {Due(b, Places) : b \in Buckets}
FillInv ==
  /\ pc = "read" => Filling(DOMAIN held)
  /\ pc \in {"read", "finish"} => DOMAIN held = DOMAIN spilled /\ DOMAIN held \subseteq Buckets
  /\ todo \in Seq(AnyMember)
  /\ \A m \in ToSet(todo) : Bucket(m.level, m.key) \in DOMAIN held

\* A bucket not yet encoded has, or has still to get, the members due to it.
Pending(b) == z < b[1] \/ (z = b[1] /\ wave <= b[2])
Queued(t, b) == {m \in ToSet(t) : Bucket(m.level, m.key) = b}
DueInv ==
  pc \in {"read", "finish"} =>
    \A b \in DOMAIN held : Pending(b) =>
      held[b] \cup spilled[b] \cup Queued(todo, b) \cup Due(b, rows) = Due(b, Places)

\* The archive before a wave of a level.
ArchiveTo(l, w) ==
  FlattenSeq([i \in 1..l |-> DrawnLevel(i - 1)])
    \o (IF l = Levels THEN <<>>
        ELSE FlattenSeq([i \in 1..LastPart(l, w - 1) |-> Drawn(l, plan[l][i])]))
WrittenInv == written = ArchiveTo(z, wave)

ReadInv == PlanInv /\ PlaceInv /\ RowsInv /\ FillInv /\ DueInv /\ WrittenInv

\* So do the invariant's parts.
LEMMA ReadRests ==
  ASSUME UNCHANGED <<run, plan>>
  PROVE  /\ PlanInv => PlanInv'
         /\ \A l, w : ArchiveTo(l, w)' = ArchiveTo(l, w)
         /\ \A R, v, n, l : RowsLeft(R, v, n, l)' <=> RowsLeft(R, v, n, l)
         /\ AnyMember' = AnyMember
         /\ \A t, b : Queued(t, b)' = Queued(t, b)
<1>1. run' = run /\ plan' = plan
  OBVIOUS
<1>2. PlanInv => PlanInv'
  <2>1. \A l : PlannedKeys(l)' = PlannedKeys(l)
    BY PlanRests
  <2> QED  BY <1>1, <2>1 DEF PlanInv
<1>3. \A l, w : ArchiveTo(l, w)' = ArchiveTo(l, w)
  <2>1. /\ \A l : DrawnLevel(l)' = DrawnLevel(l)
        /\ \A l, part : Drawn(l, part)' = Drawn(l, part)
        /\ \A l, w : LastPart(l, w)' = LastPart(l, w)
    BY PlanRests
  <2>2. \A l : FlattenSeq([i \in 1..l |-> DrawnLevel(i - 1)])'
                 = FlattenSeq([i \in 1..l |-> DrawnLevel(i - 1)])
    BY <2>1
  <2>3. \A l, w : FlattenSeq([i \in 1..LastPart(l, w - 1) |-> Drawn(l, plan[l][i])])'
                    = FlattenSeq([i \in 1..LastPart(l, w - 1) |-> Drawn(l, plan[l][i])])
    BY <1>1, <2>1
  <2> QED  BY <2>2, <2>3 DEF ArchiveTo
<1>4. /\ File' = File /\ Places' = Places /\ (Single <=> Single')
      /\ \A g, l : Draws(g, l)' <=> Draws(g, l)
  BY FileRests
<1>5. \A G, R, v : Passed(G, R, v)' <=> Passed(G, R, v)
  <2>1. /\ \A p : RowAt(p)' = RowAt(p)
        /\ \A p : Global(p)' = Global(p)
        /\ \A G : RowsOf(G)' = RowsOf(G)
    BY FileRests
  <2> QED  BY <2>1 DEF Passed
<1>6. \A R, v, n, l : RowsLeft(R, v, n, l)' <=> RowsLeft(R, v, n, l)
  BY <1>4, <1>5 DEF RowsLeft
<1>7. /\ \A b, P : Due(b, P)' = Due(b, P)
      /\ Buckets' = Buckets
      /\ \A l, k : Bucket(l, k)' = Bucket(l, k)
  BY PlanRests
<1>8. AnyMember' = AnyMember
  BY <1>4, <1>7 DEF AnyMember
<1>9. \A t, b : Queued(t, b)' = Queued(t, b)
  BY <1>7 DEF Queued
<1> QED  BY <1>2, <1>3, <1>6, <1>8, <1>9

\* A read starts.
LEMMA Started ==
  ASSUME ReadInv, pc = "next", NEW G \in SUBSET DOMAIN File, NEW B, NEW res, Start(G, B, res),
         Filling(B), Single => G = DOMAIN File, ~Single => \A g \in G : Draws(g, z),
         \A b \in B : Due(b, RowsOf(G)) = Due(b, Places)
  PROVE  ReadInv'
<1>1. /\ pc' = "read" /\ rows' = RowsOf(G) /\ read' = 0 /\ prev' = NoRow
      /\ held' = [k \in B |-> {}] /\ spilled' = [k \in B |-> {}]
      /\ run' = run /\ plan' = plan /\ z' = z /\ wave' = wave /\ todo' = todo
      /\ written' = written
  BY DEF Start
<1>2. /\ PlanInv' /\ \A l, w : ArchiveTo(l, w)' = ArchiveTo(l, w)
      /\ \A R, v, n, l : RowsLeft(R, v, n, l)' <=> RowsLeft(R, v, n, l)
      /\ AnyMember' = AnyMember
      /\ \A t, b : Queued(t, b)' = Queued(t, b)
  BY <1>1, ReadRests DEF ReadInv
<1>3. /\ Places' = Places /\ Buckets' = Buckets /\ (Single <=> Single')
      /\ \A b, P : Due(b, P)' = Due(b, P)
      /\ \A l, k : Bucket(l, k)' = Bucket(l, k)
  BY <1>1, FileRests, PlanRests
<1>4. /\ z \in 0..Levels /\ z \in Zooms /\ wave \in Nat \ {0} /\ todo = <<>>
  BY DEF ReadInv, PlaceInv
<1>5. PlaceInv'
  BY <1>1, <1>4 DEF PlaceInv, Zooms
<1>6. RowsInv'
  <2>1. Passed(G, RowsOf(G), NoRow)
    BY PassedStarts
  <2>2. Single => 0 = Cardinality(Places \ RowsOf(G))
    <3>1. ASSUME Single  PROVE Places \ RowsOf(G) = {}
      <4>1. run \in Setups /\ G = DOMAIN File
        BY <3>1 DEF ReadInv, PlanInv
      <4> QED  BY <4>1, PlaceShape DEF RowsOf
    <3> QED  BY <3>1, FS_EmptySet
  <2>3. RowsLeft(RowsOf(G), NoRow, 0, z)
    BY <2>1, <2>2 DEF RowsLeft
  <2>4. PICK R, v, n, l : R = RowsOf(G) /\ v = NoRow /\ n = 0 /\ l = z
    OBVIOUS
  <2>5. RowsLeft(R, v, n, l)'
    BY <1>2, <2>3, <2>4
  <2>6. RowsLeft(rows, prev, read, z)'
    BY <1>1, <2>4, <2>5
  <2> QED  BY <2>6 DEF RowsInv
<1>7. FillInv'
  <2>1. PICK H : H = DOMAIN held'
    OBVIOUS
  <2>2. H = B /\ H \subseteq Buckets /\ DOMAIN spilled' = H
    BY <1>1, <2>1 DEF Filling
  <2>3. Filling(H)'
    BY <1>1, <1>3, <2>2 DEF Filling
  <2>4. todo' = <<>> /\ ToSet(<<>>) = {}
    BY <1>1, <1>4 DEF ToSet
  <2>5. Filling(DOMAIN held)'
    BY <2>1, <2>3
  <2> QED  BY <1>3, <2>1, <2>2, <2>4, <2>5 DEF FillInv
<1>8. DueInv'
  <2>1. ASSUME NEW b \in B
        PROVE  held'[b] \cup spilled'[b] \cup Queued(todo, b)' \cup Due(b, rows)' = Due(b, Places)'
    <3>1. held'[b] = {} /\ spilled'[b] = {}
      BY <1>1
    <3>2. PICK t, R, P : t = todo /\ R = RowsOf(G) /\ P = Places
      OBVIOUS
    <3>3. Queued(todo, b)' = Queued(t, b)' /\ Due(b, rows)' = Due(b, R)' /\ Due(b, Places)' = Due(b, P)'
      BY <1>1, <1>3, <3>2
    <3>4. Queued(t, b) = {}
      BY <1>4, <3>2 DEF Queued, ToSet
    <3> QED  BY <1>2, <1>3, <3>1, <3>2, <3>3, <3>4
  <2>2. DOMAIN held' = B
    BY <1>1
  <2> QED  BY <2>1, <2>2 DEF DueInv
<1>9. WrittenInv'
  <2>1. PICK l, w : l = z /\ w = wave
    OBVIOUS
  <2>2. ArchiveTo(z, wave)' = ArchiveTo(l, w)'
    BY <1>1, <2>1
  <2> QED  BY <1>1, <1>2, <2>1, <2>2 DEF ReadInv, WrittenInv
<1> QED  BY <1>2, <1>5, <1>6, <1>7, <1>8, <1>9 DEF ReadInv

-----------------------------------------------------------------------------
(* The archive *)

AnyTile == UNION {{TileOf(l, k) : k \in Nat} : l \in Zooms}

\* What a level is.
LEMMA LevelsAre ==
  /\ Levels \in Nat \ {0} /\ \A l \in 0..Levels : l \in Nat /\ (l = Levels \/ l \in Zooms)
  /\ \A l \in Zooms : l \in Nat /\ l \in 0..Levels /\ l + 1 \in 0..Levels /\ l # Levels
BY WorldAssumption DEF Zooms

\* Drawn tiles are sequences of tiles.
LEMMA DrawnTyped ==
  ASSUME PlanInv, NEW l \in Zooms
  PROVE  /\ \A i \in Parts(l) : Drawn(l, plan[l][i]) \in Seq(AnyTile)
         /\ DrawnLevel(l) \in Seq(AnyTile)
<1>1. Split(plan[l], PlannedKeys(l)) /\ Len(plan[l]) \in Nat /\ PlannedKeys(l) \in SUBSET Nat
  BY PlanShape
<1>2. \A i \in Parts(l) : Drawn(l, plan[l][i]) \in Seq(AnyTile)
  <2>1. SUFFICES ASSUME NEW i \in Parts(l)  PROVE Drawn(l, plan[l][i]) \in Seq(AnyTile)
    OBVIOUS
  <2>2. PICK part : part = plan[l][i]
    OBVIOUS
  <2>3. part \in Seq(PlannedKeys(l))
    BY <1>1, <2>2, PartsAre DEF Parts
  <2>4. Len(part) \in Nat /\ DOMAIN part = 1..Len(part) /\ \A j \in DOMAIN part : part[j] \in Nat
    BY <1>1, <2>3
  <2>5. \A j \in DOMAIN part : TileOf(l, part[j]) \in AnyTile
    BY <2>4 DEF AnyTile
  <2>6. Drawn(l, part) = [j \in 1..Len(part) |-> TileOf(l, part[j])]
    BY <2>4 DEF Drawn
  <2> QED  BY <2>2, <2>4, <2>5, <2>6
<1>3. DrawnLevel(l) \in Seq(AnyTile)
  <2>1. PICK n \in Nat : n = Len(plan[l])
    BY <1>1
  <2>2. PICK f : f = [i \in Parts(l) |-> Drawn(l, plan[l][i])]
    OBVIOUS
  <2>3. Parts(l) = 1..n
    BY <2>1 DEF Parts
  <2>4. f \in Seq(Seq(AnyTile))
    BY <1>2, <2>2, <2>3
  <2>5. FlattenSeq(f) \in Seq(AnyTile)
    BY <2>4, FlattenTyped
  <2> QED  BY <2>2, <2>5 DEF DrawnLevel
<1> QED  BY <1>2, <1>3

\* Levels whole, and parts of one.
LevelsDrawn(l) == FlattenSeq([i \in 1..l |-> DrawnLevel(i - 1)])
Begun(l, n) == FlattenSeq([i \in 1..n |-> Drawn(l, plan[l][i])])

LEMMA WholeGrows ==
  ASSUME PlanInv
  PROVE  /\ \A l \in 0..Levels : LevelsDrawn(l) \in Seq(AnyTile)
         /\ LevelsDrawn(0) = <<>>
         /\ \A l \in Zooms : LevelsDrawn(l + 1) = LevelsDrawn(l) \o DrawnLevel(l)
         /\ \A l \in 0..Levels : \E t \in Seq(AnyTile) : Archive = LevelsDrawn(l) \o t
         /\ Archive = LevelsDrawn(Levels)
<1>1. Levels \in Nat \ {0}
  BY LevelsAre
<1>2. PICK f : f = [i \in 1..Levels |-> DrawnLevel(i - 1)]
  OBVIOUS
<1>3. \A i \in 1..Levels : f[i] = DrawnLevel(i - 1) /\ f[i] \in Seq(AnyTile)
  <2>1. \A i \in 1..Levels : i - 1 \in Zooms
    BY <1>1 DEF Zooms
  <2> QED  BY <1>2, <2>1, DrawnTyped
<1>4. \A l \in 0..Levels : LevelsDrawn(l) = FlattenSeq([i \in 1..l |-> f[i]])
  <2>1. \A l \in 0..Levels : [i \in 1..l |-> DrawnLevel(i - 1)] = [i \in 1..l |-> f[i]]
    <3>1. \A l \in 0..Levels : \A i \in 1..l : i \in 1..Levels
      BY <1>1
    <3> QED  BY <1>3, <3>1
  <2> QED  BY <2>1 DEF LevelsDrawn
<1>5. Archive = LevelsDrawn(Levels)
  BY DEF Archive, LevelsDrawn
<1>6. ASSUME NEW l \in 0..Levels
      PROVE  LevelsDrawn(l) \in Seq(AnyTile) /\ \E t \in Seq(AnyTile) : Archive = LevelsDrawn(l) \o t
  <2>1. PICK n, m : n = l /\ m = Levels - l
    OBVIOUS
  <2>2. n \in Nat /\ m \in Nat /\ n + m = Levels
    BY <1>1, <2>1
  <2>3. \A i \in 1..(n + m) : f[i] \in Seq(AnyTile)
    BY <1>3, <2>2
  <2>4. PICK s, t, u : /\ s = [i \in 1..n |-> f[i]] /\ t = [i \in 1..m |-> f[n + i]]
                      /\ u = [i \in 1..(n + m) |-> f[i]]
    OBVIOUS
  <2>5. JoinedSeqs(u, s, t, AnyTile)
    BY <2>2, <2>3, <2>4 DEF JoinedSeqs
  <2>6. /\ FlattenSeq(s) \in Seq(AnyTile) /\ FlattenSeq(t) \in Seq(AnyTile)
        /\ FlattenSeq(u) = FlattenSeq(s) \o FlattenSeq(t)
    BY <2>5, FlattenJoins
  <2>7. LevelsDrawn(n) = FlattenSeq([i \in 1..n |-> f[i]])
    BY <1>4, <2>1
  <2>8. Archive = FlattenSeq([i \in 1..(n + m) |-> f[i]])
    <3>1. n + m \in 0..Levels
      BY <1>1, <2>2
    <3> QED  BY <1>4, <1>5, <2>2, <3>1
  <2> QED  BY <2>1, <2>4, <2>6, <2>7, <2>8
<1>7. ASSUME NEW l \in Zooms  PROVE LevelsDrawn(l + 1) = LevelsDrawn(l) \o DrawnLevel(l)
  <2>1. PICK n \in Nat : n = l /\ n + 1 \in 0..Levels /\ n \in 0..Levels
    BY LevelsAre
  <2>2. \A i \in 1..(n + 1) : f[i] \in Seq(AnyTile)
    BY <1>1, <1>3, <2>1
  <2>3. FlattenSeq([i \in 1..(n + 1) |-> f[i]])
          = FlattenSeq([i \in 1..n |-> f[i]]) \o f[n + 1]
    BY <2>2, FlattenMore
  <2>4. f[n + 1] = DrawnLevel(n)
    <3>1. n + 1 \in 1..Levels /\ (n + 1) - 1 = n
      BY <1>1, <2>1
    <3> QED  BY <1>3, <3>1
  <2> QED  BY <1>4, <2>1, <2>3, <2>4
<1>8. LevelsDrawn(0) = <<>>
  <2>1. [i \in 1..0 |-> DrawnLevel(i - 1)] = <<>>
    OBVIOUS
  <2> QED  BY <2>1, FlattenNone DEF LevelsDrawn
<1> QED  BY <1>5, <1>6, <1>7, <1>8

LEMMA BegunGrows ==
  ASSUME PlanInv, NEW l \in Zooms
  PROVE  /\ Begun(l, 0) = <<>> /\ Begun(l, Len(plan[l])) = DrawnLevel(l)
         /\ \A n \in 0..Len(plan[l]) :
              /\ Begun(l, n) \in Seq(AnyTile)
              /\ \A c \in n..Len(plan[l]) :
                   Begun(l, c)
                     = Begun(l, n) \o FlattenSeq([i \in 1..(c - n) |-> Drawn(l, plan[l][n + i])])
              /\ \E t \in Seq(AnyTile) : DrawnLevel(l) = Begun(l, n) \o t
<1>1. PICK len \in Nat : len = Len(plan[l])
  BY PlanShape
<1>2. PICK f : f = [i \in 1..len |-> Drawn(l, plan[l][i])]
  OBVIOUS
<1>3. \A i \in 1..len : f[i] = Drawn(l, plan[l][i]) /\ f[i] \in Seq(AnyTile)
  BY <1>1, <1>2, DrawnTyped DEF Parts
<1>4. \A n \in 0..len : Begun(l, n) = FlattenSeq([i \in 1..n |-> f[i]])
  <2>1. \A n \in 0..len : [i \in 1..n |-> Drawn(l, plan[l][i])] = [i \in 1..n |-> f[i]]
    <3>1. \A n \in 0..len : \A i \in 1..n : i \in 1..len
      BY <1>1
    <3> QED  BY <1>3, <3>1
  <2> QED  BY <2>1 DEF Begun
<1>5. Begun(l, len) = DrawnLevel(l)
  BY <1>1 DEF Begun, DrawnLevel, Parts
<1>6. Begun(l, 0) = <<>>
  <2>1. [i \in 1..0 |-> Drawn(l, plan[l][i])] = <<>>
    OBVIOUS
  <2> QED  BY <2>1, FlattenNone DEF Begun
<1>7. ASSUME NEW n \in 0..len, NEW c \in n..len
      PROVE  LET rest == FlattenSeq([i \in 1..(c - n) |-> Drawn(l, plan[l][n + i])])
             IN  /\ Begun(l, n) \in Seq(AnyTile) /\ rest \in Seq(AnyTile)
                 /\ Begun(l, c) = Begun(l, n) \o rest
  <2>1. PICK m : m = c - n
    OBVIOUS
  <2>2. n \in Nat /\ m \in Nat /\ n + m = c /\ c \in 0..len
    BY <1>1, <2>1
  <2>3. \A i \in 1..(n + m) : f[i] \in Seq(AnyTile)
    BY <1>1, <1>3, <2>2
  <2>4. PICK s, t, u : /\ s = [i \in 1..n |-> f[i]] /\ t = [i \in 1..m |-> f[n + i]]
                      /\ u = [i \in 1..(n + m) |-> f[i]]
    OBVIOUS
  <2>5. JoinedSeqs(u, s, t, AnyTile)
    BY <2>2, <2>3, <2>4 DEF JoinedSeqs
  <2>6. /\ FlattenSeq(s) \in Seq(AnyTile) /\ FlattenSeq(t) \in Seq(AnyTile)
        /\ FlattenSeq(u) = FlattenSeq(s) \o FlattenSeq(t)
    BY <2>5, FlattenJoins
  <2>7. t = [i \in 1..m |-> Drawn(l, plan[l][n + i])]
    <3>1. \A i \in 1..m : n + i \in 1..len
      BY <1>1, <2>2
    <3> QED  BY <1>3, <2>4, <3>1
  <2>8. Begun(l, n) = FlattenSeq([i \in 1..n |-> f[i]])
    BY <1>4
  <2>9. Begun(l, c) = FlattenSeq([i \in 1..(n + m) |-> f[i]])
    BY <1>4, <2>2
  <2> QED  BY <2>1, <2>4, <2>6, <2>7, <2>8, <2>9
<1>8. ASSUME NEW n \in 0..len
      PROVE  Begun(l, n) \in Seq(AnyTile) /\ \E t \in Seq(AnyTile) : DrawnLevel(l) = Begun(l, n) \o t
  <2>1. len \in n..len
    BY <1>1
  <2> QED  BY <1>5, <1>7, <2>1
<1> QED  BY <1>1, <1>5, <1>6, <1>7, <1>8

\* What LastPart can be.
LEMMA LastPartIs ==
  ASSUME PlanInv, NEW l \in Zooms, NEW w \in Nat \ {0}
  PROVE  /\ LastPart(l, w - 1) \in 0..Len(plan[l])
         /\ ArchiveTo(l, w) = LevelsDrawn(l) \o Begun(l, LastPart(l, w - 1))
<1>1. run \in Setups /\ Len(plan[l]) \in Nat /\ (plan[l] = <<>> <=> Len(plan[l]) = 0)
  BY PlanShape
<1>2. LastPart(l, w - 1) \in 0..Len(plan[l])
  <2>1. CASE w \in Waves(l)
    <3>1. FirstPart(l, w) \in Parts(l) /\ LastPart(l, w - 1) = FirstPart(l, w) - 1
      BY <1>1, <2>1, WavesAre
    <3>2. FirstPart(l, w) \in 1..Len(plan[l])
      BY <3>1 DEF Parts
    <3> QED  BY <1>1, <3>1, <3>2
  <2>2. CASE w \notin Waves(l)
    <3>1. LastPart(l, w - 1) = Len(plan[l])
      BY <1>1, <2>2, WavesAre
    <3> QED  BY <1>1, <3>1
  <2> QED  BY <2>1, <2>2
<1>3. l # Levels
  BY LevelsAre
<1> QED  BY <1>2, <1>3 DEF ArchiveTo, LevelsDrawn, Begun

\* The archive at the start, and at the end.
LEMMA ArchiveEnds ==
  ASSUME PlanInv
  PROVE  /\ ArchiveTo(0, 1) = <<>>
         /\ \A w : ArchiveTo(Levels, w) = Archive
<1>1. 0 \in Zooms /\ 1 \in Nat \ {0} /\ 1 - 1 = 0
  BY WorldAssumption DEF Zooms
<1>2. ArchiveTo(0, 1) = LevelsDrawn(0) \o Begun(0, LastPart(0, 0))
  BY <1>1, LastPartIs
<1>3. LastPart(0, 0) = 0
  BY <1>1, PlanShape, WavesAre
<1>4. Begun(0, 0) = <<>> /\ LevelsDrawn(0) = <<>>
  BY <1>1, BegunGrows, WholeGrows
<1>5. ArchiveTo(0, 1) = <<>>
  BY <1>2, <1>3, <1>4
<1>6. Archive \in Seq(AnyTile)
  BY WholeGrows, LevelsAre
<1>7. \A w : ArchiveTo(Levels, w) = Archive \o <<>>
  BY WholeGrows DEF ArchiveTo, LevelsDrawn
<1> QED  BY <1>5, <1>6, <1>7

\* A wave more.
LEMMA ArchiveWave ==
  ASSUME PlanInv, NEW l \in Zooms, NEW w \in Waves(l), NEW a, a = FirstPart(l, w),
         NEW n, n = LastPart(l, w)
  PROVE  ArchiveTo(l, w + 1)
           = ArchiveTo(l, w) \o FlattenSeq([i \in 1..(n - a + 1) |-> Drawn(l, plan[l][a + i - 1])])
<1>1. run \in Setups /\ Len(plan[l]) \in Nat /\ (plan[l] = <<>> <=> Len(plan[l]) = 0)
  BY PlanShape
<1>2. w \in Nat \ {0} /\ w + 1 \in Nat \ {0} /\ (w + 1) - 1 = w
  <2>1. w \in Nat \ {0}
    BY <1>1, WavesAre
  <2> QED  BY <2>1
<1>3. a \in 1..Len(plan[l]) /\ n \in 1..Len(plan[l]) /\ a <= n /\ LastPart(l, w - 1) = a - 1
  BY <1>1, WavesAre DEF Parts
<1>4. PICK c : c = a - 1
  OBVIOUS
<1>5. /\ c \in 0..Len(plan[l]) /\ n \in c..Len(plan[l]) /\ n \in 0..Len(plan[l])
      /\ n - c = n - a + 1 /\ \A i \in 1..(n - c) : c + i = a + i - 1
  BY <1>1, <1>3, <1>4
<1>6. PICK rest : rest = FlattenSeq([i \in 1..(n - c) |-> Drawn(l, plan[l][c + i])])
  OBVIOUS
<1>7. Begun(l, n) = Begun(l, c) \o rest /\ Begun(l, c) \in Seq(AnyTile) /\ Begun(l, n) \in Seq(AnyTile)
  BY <1>5, <1>6, BegunGrows
<1>8. rest = FlattenSeq([i \in 1..(n - a + 1) |-> Drawn(l, plan[l][a + i - 1])])
  <2>1. [i \in 1..(n - c) |-> Drawn(l, plan[l][c + i])]
          = [i \in 1..(n - a + 1) |-> Drawn(l, plan[l][a + i - 1])]
    BY <1>5
  <2> QED  BY <1>6, <2>1
<1>9. ArchiveTo(l, w) = LevelsDrawn(l) \o Begun(l, c)
  BY <1>2, <1>3, <1>4, LastPartIs
<1>10. ArchiveTo(l, w + 1) = LevelsDrawn(l) \o Begun(l, n)
  <2>1. ArchiveTo(l, w + 1) = LevelsDrawn(l) \o Begun(l, LastPart(l, (w + 1) - 1))
    BY <1>2, LastPartIs
  <2> QED  BY <1>2, <2>1
<1>11. PICK W : W = LevelsDrawn(l) /\ W \in Seq(AnyTile)
  BY WholeGrows, LevelsAre
<1>12. rest \in Seq(AnyTile)
  <2>1. \A i \in 1..(n - c) : Drawn(l, plan[l][c + i]) \in Seq(AnyTile)
    <3>1. \A i \in 1..(n - c) : c + i \in Parts(l)
      BY <1>1, <1>5 DEF Parts
    <3> QED  BY <3>1, DrawnTyped
  <2>2. PICK m \in Nat : m = n - c
    BY <1>1, <1>5
  <2>3. PICK f : f = [i \in 1..m |-> Drawn(l, plan[l][c + i])]
    OBVIOUS
  <2>4. f \in Seq(Seq(AnyTile))
    BY <2>1, <2>2, <2>3
  <2> QED  BY <1>6, <2>2, <2>3, <2>4, FlattenTyped
<1>13. PICK B : B = Begun(l, c) /\ B \in Seq(AnyTile)
  BY <1>7
<1>14. W \o (B \o rest) = (W \o B) \o rest
  BY <1>11, <1>12, <1>13
<1> QED  BY <1>7, <1>8, <1>9, <1>10, <1>11, <1>13, <1>14

\* A level more.
LEMMA ArchiveNext ==
  ASSUME PlanInv, NEW l \in Zooms, NEW w \in Nat \ {0}, w \notin Waves(l)
  PROVE  ArchiveTo(l, w) = ArchiveTo(l + 1, 1)
<1>1. run \in Setups /\ Len(plan[l]) \in Nat /\ (plan[l] = <<>> <=> Len(plan[l]) = 0)
  BY PlanShape
<1>2. LastPart(l, w - 1) = Len(plan[l])
  BY <1>1, WavesAre
<1>3. ArchiveTo(l, w) = LevelsDrawn(l) \o DrawnLevel(l)
  BY <1>2, LastPartIs, BegunGrows
<1>4. LevelsDrawn(l + 1) = LevelsDrawn(l) \o DrawnLevel(l) /\ l + 1 \in 0..Levels /\ LevelsDrawn(l + 1) \in Seq(AnyTile)
  BY WholeGrows, LevelsAre
<1>5. CASE l + 1 = Levels
  BY <1>3, <1>4, <1>5, ArchiveEnds, WholeGrows
<1>6. CASE l + 1 # Levels
  <2>1. l + 1 \in Zooms /\ 1 \in Nat \ {0} /\ 1 - 1 = 0
    BY <1>4, <1>6, LevelsAre
  <2>2. PICK d : d = l + 1 /\ d \in Zooms
    BY <2>1
  <2>3. LastPart(d, 0) = 0
    BY <2>2, PlanShape, WavesAre
  <2>4. ArchiveTo(d, 1) = LevelsDrawn(d) \o Begun(d, 0)
    <3>1. ArchiveTo(d, 1) = LevelsDrawn(d) \o Begun(d, LastPart(d, 1 - 1))
      BY <2>1, <2>2, LastPartIs
    <3> QED  BY <2>1, <2>3, <3>1
  <2>5. Begun(d, 0) = <<>>
    BY <2>2, BegunGrows
  <2>6. LevelsDrawn(d) \o <<>> = LevelsDrawn(d)
    BY <1>4, <2>2
  <2> QED  BY <1>3, <1>4, <2>2, <2>4, <2>5, <2>6
<1> QED  BY <1>5, <1>6

\* What is written then starts the archive.
LEMMA ArchiveStarts ==
  ASSUME PlanInv, NEW l \in 0..Levels, NEW w \in Nat \ {0}
  PROVE  ArchiveTo(l, w) \in Seq(AnyTile) /\ \E t \in Seq(AnyTile) : Archive = ArchiveTo(l, w) \o t
<1>1. CASE l = Levels
  <2>1. Archive \in Seq(AnyTile)
    BY WholeGrows, LevelsAre
  <2>2. Archive = Archive \o <<>> /\ <<>> \in Seq(AnyTile)
    BY <2>1
  <2> QED  BY <1>1, <2>1, <2>2, ArchiveEnds
<1>2. CASE l # Levels
  <2>1. l \in Zooms
    BY <1>2, LevelsAre
  <2>2. PICK n : n = LastPart(l, w - 1) /\ n \in 0..Len(plan[l])
    BY <2>1, LastPartIs
  <2>3. ArchiveTo(l, w) = LevelsDrawn(l) \o Begun(l, n)
    BY <2>1, <2>2, LastPartIs
  <2>4. PICK t \in Seq(AnyTile) : DrawnLevel(l) = Begun(l, n) \o t
    BY <2>1, <2>2, BegunGrows
  <2>5. PICK B : B = Begun(l, n) /\ B \in Seq(AnyTile)
    BY <2>1, <2>2, BegunGrows
  <2>6. l + 1 \in 0..Levels
    BY <2>1, LevelsAre
  <2>7. PICK u \in Seq(AnyTile) : Archive = LevelsDrawn(l + 1) \o u
    BY <2>6, WholeGrows
  <2>8. PICK W : W = LevelsDrawn(l) /\ W \in Seq(AnyTile)
    BY WholeGrows
  <2>9. LevelsDrawn(l + 1) = W \o (B \o t)
    BY <2>1, <2>4, <2>5, <2>8, WholeGrows
  <2>10. (W \o (B \o t)) \o u = (W \o B) \o (t \o u) /\ t \o u \in Seq(AnyTile) /\ W \o B \in Seq(AnyTile)
    <3>1. PICK T : T = Seq(AnyTile)
      OBVIOUS
    <3>2. W \in T /\ B \in T /\ t \in T /\ u \in T
      BY <2>4, <2>5, <2>7, <2>8, <3>1
    <3>3. \A e, f \in T : e \o f \in T
      BY <3>1
    <3>4. \A e, f, g \in T : (e \o f) \o g = e \o (f \o g)
      BY ONLY <3>1
    <3>5. B \o t \in T /\ t \o u \in T /\ W \o B \in T
      BY <3>2, <3>3
    <3>6. (W \o (B \o t)) \o u = W \o ((B \o t) \o u)
      BY <3>2, <3>4, <3>5
    <3>7. (B \o t) \o u = B \o (t \o u)
      BY <3>2, <3>4
    <3>8. (W \o B) \o (t \o u) = W \o (B \o (t \o u))
      BY <3>2, <3>4, <3>5
    <3> QED  BY <3>1, <3>5, <3>6, <3>7, <3>8
  <2> QED  BY <2>3, <2>5, <2>7, <2>8, <2>9, <2>10
<1> QED  BY <1>1, <1>2

-----------------------------------------------------------------------------
(* A read starts *)

\* The invariant holds at the start,
LEMMA ReadInit ==
  ASSUME Init
  PROVE  ReadInv
<1>1. /\ run \in Setups /\ plan = [l \in Zooms |-> Partitions(l)]
      /\ pc = "next" /\ z = 0 /\ wave = 1 /\ rows = {} /\ todo = <<>> /\ written = <<>>
  BY DEF Init
<1>2. PlanInv
  <2>1. \A l \in Zooms : Split(Partitions(l), PlannedKeys(l))
    <3>1. \A l \in Zooms : IsFiniteSet(PlannedKeys(l)) /\ PlannedKeys(l) \in SUBSET Nat
      BY <1>1, PlannedAre
    <3> QED  BY <3>1, PlanSplit
  <2> QED  BY <1>1, <2>1 DEF PlanInv
<1>3. PlaceInv
  BY <1>1, WorldAssumption DEF PlaceInv, Zooms
<1>4. FillInv
  <2>1. ToSet(<<>>) = {} /\ <<>> \in Seq(AnyMember)
    BY DEF ToSet
  <2> QED  BY <1>1, <2>1 DEF FillInv
<1>5. WrittenInv
  BY <1>1, <1>2, ArchiveEnds DEF WrittenInv
<1> QED  BY <1>1, <1>2, <1>3, <1>4, <1>5 DEF ReadInv, RowsInv, DueInv

\* when the file is read for every level,
LEMMA ReadingFile ==
  ASSUME ReadInv, ReadFile
  PROVE  ReadInv'
<1>1. /\ pc = "next" /\ Single /\ Start(DOMAIN File, Buckets, 0)
  BY DEF ReadFile
<1>2. PlanInv /\ PlaceInv
  BY DEF ReadInv
<1>3. RowsOf(DOMAIN File) = Places
  BY <1>2, PlaceShape DEF PlanInv, RowsOf
<1>4. Filling(Buckets)
  BY <1>1, <1>2 DEF Filling, PlaceInv
<1> QED  BY <1>1, <1>3, <1>4, Started

\* when a level is read for its waves,
LEMMA ReadingLevel ==
  ASSUME ReadInv, ReadLevel
  PROVE  ReadInv'
<1> DEFINE B == {k \in Buckets : k[1] = z}
           G == {g \in DOMAIN File : Reads(g, z, 1, Len(plan[z]))}
<1>1. pc = "next" /\ ~Single /\ Stored(z) /\ Start(G, B, run.resident)
  BY DEF ReadLevel
<1>2. PlanInv /\ PlaceInv /\ z \in Zooms
  BY <1>1 DEF ReadInv, PlaceInv
<1>3. run \in Setups /\ Len(plan[z]) \in Nat /\ (plan[z] = <<>> <=> Len(plan[z]) = 0)
  BY <1>2, PlanShape
<1>4. B # {}
  <2>1. Waves(z) # {}
    <3>1. Cardinality(Waves(z)) > 1
      BY <1>1 DEF Stored
    <3> QED  BY <3>1, FS_EmptySet
  <2>2. PICK w \in Waves(z) : TRUE
    BY <2>1
  <2>3. <<z, w>> \in Buckets
    BY <1>2, BucketsAre
  <2> QED  BY <2>3
<1>5. Filling(B)
  BY <1>1, <1>2, <1>4 DEF Filling, PlaceInv
<1>6. \A g \in G : Draws(g, z)
  BY DEF Reads
<1>7. \A b \in B : Due(b, RowsOf(G)) = Due(b, Places)
  <2>1. SUFFICES ASSUME NEW b \in B  PROVE Due(b, RowsOf(G)) = Due(b, Places)
    OBVIOUS
  <2>2. b \in Buckets /\ b[1] = z
    OBVIOUS
  <2>3. PICK a \in Nat, n \in Nat : a = 1 /\ n = Len(plan[z])
    BY <1>3
  <2>4. \A i \in a..n : i \in Parts(b[1])
    BY <2>2, <2>3 DEF Parts
  <2>5. KeysIn(b) \subseteq UNION {ToSet(plan[b[1]][i]) : i \in a..n}
    BY <2>2, <2>3 DEF KeysIn, Parts
  <2>6. Due(b, RowsOf({g \in DOMAIN File : Reads(g, b[1], a, n)})) = Due(b, Places)
    BY <1>2, <2>2, <2>4, <2>5, DueRead
  <2> QED  BY <2>2, <2>3, <2>6
<1>8. G \in SUBSET DOMAIN File
  OBVIOUS
<1> HIDE DEF B, G
<1> QED  BY <1>1, <1>5, <1>6, <1>7, <1>8, Started

\* and when it is read for one of them.
LEMMA ReadingWave ==
  ASSUME ReadInv, ReadWave
  PROVE  ReadInv'
<1> DEFINE first == FirstPart(z, wave)
           last == LastPart(z, wave)
           B == {<<z, wave>>}
           G == {g \in DOMAIN File : Reads(g, z, first, last)}
<1>1. pc = "next" /\ ~Single /\ wave \in Waves(z) /\ Start(G, B, 0)
  BY DEF ReadWave
<1>2. PlanInv /\ PlaceInv /\ z \in Zooms
  BY <1>1 DEF ReadInv, PlaceInv
<1>3. run \in Setups /\ Len(plan[z]) \in Nat /\ (plan[z] = <<>> <=> Len(plan[z]) = 0)
  BY <1>2, PlanShape
<1>4. <<z, wave>> \in Buckets /\ wave \in Nat \ {0}
  BY <1>1, <1>2, BucketsAre DEF PlaceInv
<1>5. Filling(B)
  BY <1>1, <1>2, <1>4 DEF Filling
<1>6. \A g \in G : Draws(g, z)
  BY DEF Reads
<1>7. \A b \in B : Due(b, RowsOf(G)) = Due(b, Places)
  <2>1. PICK b : b = <<z, wave>>
    OBVIOUS
  <2>2. b \in Buckets /\ b[1] = z /\ b[2] = wave
    BY <1>4, <2>1
  <2>3. /\ first \in Parts(z) /\ last \in Parts(z)
        /\ \A i \in Parts(z) : WaveOf(i) = wave => first <= i /\ i <= last
    BY <1>1, <1>3, <1>4, WavesAre
  <2>4. PICK a \in Nat, n \in Nat : a = first /\ n = last
    BY <2>3 DEF Parts
  <2>5. \A i \in a..n : i \in Parts(b[1])
    <3>1. a \in 1..Len(plan[z]) /\ n \in 1..Len(plan[z])
      BY <2>3, <2>4 DEF Parts
    <3>2. \A i \in a..n : i \in 1..Len(plan[z])
      BY <1>3, <3>1
    <3> QED  BY <2>2, <3>2 DEF Parts
  <2>6. \A i \in Parts(z) : WaveOf(i) = wave => i \in a..n
    <3>1. \A i \in Parts(z) : i \in Nat
      BY DEF Parts
    <3> QED  BY <2>3, <2>4, <3>1
  <2>7. KeysIn(b) \subseteq UNION {ToSet(plan[b[1]][i]) : i \in a..n}
    BY <2>2, <2>6 DEF KeysIn
  <2>8. Due(b, RowsOf({g \in DOMAIN File : Reads(g, b[1], a, n)})) = Due(b, Places)
    BY <1>2, <2>2, <2>5, <2>7, DueRead
  <2>9. {g \in DOMAIN File : Reads(g, b[1], a, n)} = G
    BY <2>2, <2>4
  <2> QED  BY <2>1, <2>8, <2>9
<1>8. G \in SUBSET DOMAIN File
  OBVIOUS
<1> HIDE DEF B, G
<1> QED  BY <1>1, <1>5, <1>6, <1>7, <1>8, Started

-----------------------------------------------------------------------------
(* A step *)

\* The buckets' state, and the next one's.
DueFor(h, s, t, R, l, w) ==
  \A b \in DOMAIN h : l < b[1] \/ (l = b[1] /\ w <= b[2]) =>
    h[b] \cup s[b] \cup Queued(t, b) \cup Due(b, R) = Due(b, Places)

LEMMA DueIs ==
  ASSUME DueInv, pc \in {"read", "finish"}
  PROVE  DueFor(held, spilled, todo, rows, z, wave)
BY DEF DueInv, DueFor, Pending

\* What a step must leave for the invariant to hold after it.
LEMMA NextInv ==
  ASSUME PlanInv, UNCHANGED <<run, plan>>, PlaceInv',
         NEW h, h = held', NEW s, s = spilled', NEW t, t = todo', NEW R, R = rows',
         NEW v, v = prev', NEW n, n = read', NEW l, l = z', NEW w, w = wave',
         pc' = "read" => RowsLeft(R, v, n, l) /\ Filling(DOMAIN h) /\ UNCHANGED <<z, wave>>,
         pc' \in {"read", "finish"} => /\ DOMAIN h = DOMAIN s /\ DOMAIN h \subseteq Buckets
                                       /\ DueFor(h, s, t, R, l, w),
         t \in Seq(AnyMember), \A m \in ToSet(t) : Bucket(m.level, m.key) \in DOMAIN h,
         written' = ArchiveTo(l, w)
  PROVE  ReadInv'
<1>1. /\ PlanInv' /\ AnyMember' = AnyMember
      /\ \A i, j : ArchiveTo(i, j)' = ArchiveTo(i, j)
      /\ \A A, x, y, i : RowsLeft(A, x, y, i)' <=> RowsLeft(A, x, y, i)
      /\ \A a, b : Queued(a, b)' = Queued(a, b)
  BY ReadRests
<1>2. /\ Places' = Places /\ Buckets' = Buckets /\ (Single <=> Single')
      /\ \A b, P : Due(b, P)' = Due(b, P)
      /\ \A i, k : Bucket(i, k)' = Bucket(i, k)
  BY FileRests, PlanRests
<1>3. WrittenInv'
  <2>1. ArchiveTo(z, wave)' = ArchiveTo(l, w)'
    OBVIOUS
  <2>2. ArchiveTo(l, w)' = ArchiveTo(l, w)
    BY <1>1
  <2> QED  BY <2>1, <2>2 DEF WrittenInv
<1>4. RowsInv'
  <2>1. SUFFICES ASSUME pc' = "read"  PROVE RowsLeft(rows, prev, read, z)'
    BY DEF RowsInv
  <2>2. RowsLeft(R, v, n, l)'
    BY <1>1, <2>1
  <2> QED  BY <2>2
<1>5. FillInv'
  <2>1. ASSUME pc' = "read"  PROVE Filling(DOMAIN held)'
    <3>1. PICK H : H = DOMAIN h
      OBVIOUS
    <3>2. Filling(H) /\ z' = z /\ wave' = wave
      BY <2>1, <3>1
    <3>3. Filling(H)'
      BY <1>2, <3>2 DEF Filling
    <3>4. H = DOMAIN held'
      BY <3>1
    <3> QED  BY <3>3, <3>4
  <2>2. todo' \in Seq(AnyMember)'
    BY <1>1
  <2>3. ASSUME NEW m \in ToSet(todo)'  PROVE Bucket(m.level, m.key)' \in DOMAIN held'
    <3>1. Bucket(m.level, m.key) \in DOMAIN h
      OBVIOUS
    <3> QED  BY <1>2, <3>1
  <2>4. pc' \in {"read", "finish"} => DOMAIN held' = DOMAIN spilled' /\ DOMAIN held' \subseteq Buckets'
    BY <1>2
  <2> QED  BY <2>1, <2>2, <2>3, <2>4 DEF FillInv
<1>6. DueInv'
  <2>1. SUFFICES ASSUME pc' \in {"read", "finish"}, NEW b \in DOMAIN held',
                        l < b[1] \/ (l = b[1] /\ w <= b[2])
                 PROVE  held'[b] \cup spilled'[b] \cup Queued(todo, b)' \cup Due(b, rows)' = Due(b, Places)'
    BY DEF DueInv, Pending
  <2>2. h[b] \cup s[b] \cup Queued(t, b) \cup Due(b, R) = Due(b, Places)
    BY <2>1 DEF DueFor
  <2>3. PICK P : P = Places
    OBVIOUS
  <2>4. Queued(todo, b)' = Queued(t, b)' /\ Due(b, rows)' = Due(b, R)' /\ Due(b, Places)' = Due(b, P)'
    BY <1>2, <2>3
  <2>5. Queued(t, b)' = Queued(t, b) /\ Due(b, R)' = Due(b, R) /\ Due(b, P)' = Due(b, P)
    BY <1>1, <1>2
  <2> QED  BY <2>2, <2>3, <2>4, <2>5
<1> QED  BY <1>1, <1>3, <1>4, <1>5, <1>6 DEF ReadInv

\* What a due member is.
LEMMA DueHolds ==
  ASSUME NEW b, NEW P, NEW m
  PROVE  m \in Due(b, P) <=> \E p \in P : \E k \in KeysOf(RowAt(p), b[1]) \cap KeysIn(b) :
                               Draws(p[1], b[1]) /\ m = MemberOf(p, b[1], k)
BY DEF Due

\* What is due to rows is due to each.
LEMMA DueParts ==
  ASSUME NEW b, NEW R, NEW p \in R
  PROVE  /\ Due(b, R) = Due(b, {p}) \cup Due(b, R \ {p})
         /\ Due(b, {}) = {}
BY DEF Due

-----------------------------------------------------------------------------
(* A row's members *)

\* A row's members for the reads to come.
Clipped(p) ==
  UNION {{MemberOf(p, l, k) : k \in KeysOf(RowAt(p), l) \cap Window} : l \in Targets(p[1])}

\* Row's members of a level, as the action has them.
MembersOf(p, l, gap, seq) ==
  LET ks == Ascending(KeysOf(RowAt(p), l) \cap Window)
  IN [i \in DOMAIN ks |-> [level |-> l, key |-> ks[i], seq |-> seq, gap |-> gap,
                           band |-> File[p[1]].band]]

\* A row's members are those due to it, and go to a bucket of the store.
LEMMA RowQueues ==
  ASSUME PlanInv, WholeWorld, Filling(DOMAIN held), NEW p \in Places,
         ~Single => Draws(p[1], z)
  PROVE  /\ Clipped(p) \subseteq AnyMember
         /\ \A m \in Clipped(p) : Bucket(m.level, m.key) \in DOMAIN held
         /\ \A b \in DOMAIN held :
              {m \in Clipped(p) : Bucket(m.level, m.key) = b} = Due(b, {p})
<1> DEFINE Ks(l) == KeysOf(RowAt(p), l)
<1>1. /\ \A l \in Targets(p[1]) : \A k \in Ks(l) \cap Window :
           /\ l \in Zooms /\ Draws(p[1], l) /\ k \in Nat
           /\ k \in KeysIn(Bucket(l, k)) /\ Bucket(l, k) \in DOMAIN held
      /\ \A b \in DOMAIN held : Draws(p[1], b[1]) =>
           \A k \in Ks(b[1]) \cap KeysIn(b) :
             b[1] \in Targets(p[1]) /\ k \in Window /\ Bucket(b[1], k) = b
  BY WindowIs
<1>2. DOMAIN held \subseteq Buckets
  BY DEF Filling
<1>3. \A l, k : Bucket(l, k)[1] = l
  BY DEF Bucket
<1>4. \A l, k : MemberOf(p, l, k).level = l /\ MemberOf(p, l, k).key = k
  BY DEF MemberOf
<1>5. ASSUME NEW m \in Clipped(p)
      PROVE  /\ Bucket(m.level, m.key) \in DOMAIN held
             /\ m \in Due(Bucket(m.level, m.key), {p})
             /\ m \in Due(Bucket(m.level, m.key), Places)
  <2>1. PICK l \in Targets(p[1]) : \E k \in Ks(l) \cap Window : m = MemberOf(p, l, k)
    BY DEF Clipped
  <2>2. PICK k \in Ks(l) \cap Window : m = MemberOf(p, l, k)
    BY <2>1
  <2>3. PICK b : b = Bucket(l, k)
    OBVIOUS
  <2>4. Draws(p[1], l) /\ k \in KeysIn(b) /\ b \in DOMAIN held /\ b[1] = l
    BY <1>1, <1>3, <2>3
  <2>5. m.level = l /\ m.key = k
    BY <1>4, <2>2
  <2>6. m \in Due(b, {p}) /\ m \in Due(b, Places)
    BY <2>2, <2>4, DueHolds
  <2> QED  BY <2>3, <2>4, <2>5, <2>6
<1>6. \A m \in Clipped(p) : m \in AnyMember
  BY <1>2, <1>5 DEF AnyMember
<1>7. ASSUME NEW b \in DOMAIN held, NEW m \in Due(b, {p})
      PROVE  m \in Clipped(p) /\ Bucket(m.level, m.key) = b
  <2>1. PICK k \in Ks(b[1]) \cap KeysIn(b) : Draws(p[1], b[1]) /\ m = MemberOf(p, b[1], k)
    BY DueHolds
  <2>2. b[1] \in Targets(p[1]) /\ k \in Window /\ Bucket(b[1], k) = b
    BY <1>1, <2>1
  <2>3. m.level = b[1] /\ m.key = k
    BY <1>4, <2>1
  <2>4. m \in Clipped(p)
    BY <2>1, <2>2 DEF Clipped
  <2> QED  BY <2>2, <2>3, <2>4
<1> QED  BY <1>5, <1>6, <1>7

\* The members a row's step queues.
LEMMA RowMembers ==
  ASSUME run \in Setups, z \in Zooms, NEW p \in Places, Clipped(p) \subseteq AnyMember,
         NEW gap, gap = Before(p), NEW seq, seq = Global(p),
         NEW t, t = FlattenSeq([i \in 1..Levels |->
                      IF i - 1 \in Targets(p[1]) THEN MembersOf(p, i - 1, gap, seq) ELSE <<>>])
  PROVE  t \in Seq(AnyMember) /\ ToSet(t) = Clipped(p)
<1>1. Levels \in Nat \ {0} /\ Targets(p[1]) \subseteq Zooms
  BY WorldAssumption DEF Targets
<1>2. ASSUME NEW l \in Targets(p[1])
      PROVE  /\ MembersOf(p, l, gap, seq) \in Seq(AnyMember)
             /\ ToSet(MembersOf(p, l, gap, seq))
                  = {MemberOf(p, l, k) : k \in KeysOf(RowAt(p), l) \cap Window}
  <2> DEFINE K == KeysOf(RowAt(p), l) \cap Window
  <2>1. K \in SUBSET Nat /\ IsFiniteSet(K)
    <3>1. l \in Zooms /\ RowAt(p) \in Spans
      BY <1>1, PlaceShape
    <3>2. KeysOf(RowAt(p), l) \subseteq KeysAt(l)
      BY <3>1, KeysShape
    <3>3. KeysAt(l) \in SUBSET Nat /\ IsFiniteSet(KeysAt(l))
      BY <3>1, KeysAre
    <3>4. K \in SUBSET KeysAt(l)
      BY <3>2
    <3> QED  BY <3>3, <3>4, FS_Subset
  <2>2. PICK n \in Nat, ks \in Seq(K) :
          /\ ks = Ascending(K) /\ n = Len(ks)
          /\ \A k \in K : \E i \in 1..n : ks[i] = k
    <3> HIDE DEF K
    <3>1. /\ Ascending(K) \in Seq(K)
          /\ \A k \in K : \E i \in 1..Len(Ascending(K)) : Ascending(K)[i] = k
      BY <2>1, AscendingOf
    <3>2. Len(Ascending(K)) \in Nat
      BY <3>1
    <3> QED  BY <3>1, <3>2
  <2>3. MembersOf(p, l, gap, seq) = [i \in 1..n |-> MemberOf(p, l, ks[i])]
    <3>1. DOMAIN ks = 1..n
      BY <2>2
    <3>2. MembersOf(p, l, gap, seq)
            = [i \in DOMAIN ks |-> [level |-> l, key |-> ks[i], seq |-> seq, gap |-> gap,
                                    band |-> File[p[1]].band]]
      BY <2>2 DEF MembersOf
    <3> QED  BY <3>1, <3>2 DEF MemberOf
  <2>4. \A i \in 1..n : ks[i] \in K
    BY <2>2
  <2>5. \A k \in K : MemberOf(p, l, k) \in Clipped(p)
    BY DEF Clipped
  <2> HIDE DEF K
  <2>6. \A k \in K : MemberOf(p, l, k) \in AnyMember
    BY <2>5
  <2>7. MembersOf(p, l, gap, seq) \in Seq(AnyMember)
    BY <2>3, <2>4, <2>6
  <2>8. ToSet(MembersOf(p, l, gap, seq)) = {MemberOf(p, l, k) : k \in K}
    <3>1. PICK f : f = [i \in 1..n |-> MemberOf(p, l, ks[i])]
      OBVIOUS
    <3>2. ToSet(f) = {f[i] : i \in 1..n}
      BY <3>1 DEF ToSet
    <3>3. ASSUME NEW k \in K  PROVE MemberOf(p, l, k) \in ToSet(f)
      <4>1. PICK i \in 1..n : ks[i] = k
        BY <2>2
      <4>2. f[i] = MemberOf(p, l, k)
        BY <3>1, <4>1
      <4> QED  BY <3>2, <4>2
    <3>4. ASSUME NEW x \in ToSet(f)  PROVE x \in {MemberOf(p, l, k) : k \in K}
      <4>1. PICK i \in 1..n : x = f[i]
        BY <3>2
      <4>2. x = MemberOf(p, l, ks[i]) /\ ks[i] \in K
        BY <2>4, <3>1, <4>1
      <4> QED  BY <4>2
    <3> QED  BY <2>3, <3>1, <3>3, <3>4
  <2> QED  BY <2>7, <2>8 DEF K
<1>3. PICK seqs : seqs = [i \in 1..Levels |->
                            IF i - 1 \in Targets(p[1]) THEN MembersOf(p, i - 1, gap, seq) ELSE <<>>]
  OBVIOUS
<1>4. seqs \in Seq(Seq(AnyMember)) /\ Len(seqs) = Levels
  <2>1. \A i \in 1..Levels : seqs[i] \in Seq(AnyMember)
    BY <1>2, <1>3
  <2> QED  BY <1>1, <1>3, <2>1
<1>5. t = FlattenSeq(seqs)
  BY <1>3
<1>6. \A x : x \in ToSet(t) <=> \E i \in 1..Levels : x \in ToSet(seqs[i])
  BY <1>4, <1>5, FlattenHolds
<1>7. t \in Seq(AnyMember)
  BY <1>4, <1>5, FlattenTyped
<1>8. ASSUME NEW x \in ToSet(t)  PROVE x \in Clipped(p)
  <2>1. PICK i \in 1..Levels : x \in ToSet(seqs[i])
    BY <1>6
  <2>2. i - 1 \in Targets(p[1])
    BY <1>3, <2>1 DEF ToSet
  <2>3. PICK l \in Targets(p[1]) : l = i - 1
    BY <2>2
  <2>4. x \in {MemberOf(p, l, k) : k \in KeysOf(RowAt(p), l) \cap Window}
    BY <1>2, <1>3, <2>1, <2>3
  <2> QED  BY <2>4 DEF Clipped
<1>9. ASSUME NEW x \in Clipped(p)  PROVE x \in ToSet(t)
  <2>1. PICK l \in Targets(p[1]) : x \in {MemberOf(p, l, k) : k \in KeysOf(RowAt(p), l) \cap Window}
    BY DEF Clipped
  <2>2. PICK i \in 1..Levels : i - 1 = l
    <3>1. l + 1 \in 1..Levels /\ (l + 1) - 1 = l
      BY <1>1 DEF Zooms
    <3> QED  BY <3>1
  <2>3. x \in ToSet(seqs[i])
    BY <1>2, <1>3, <2>1, <2>2
  <2> QED  BY <1>6, <2>3
<1> QED  BY <1>7, <1>8, <1>9

\* A row passed leaves its members queued for their buckets,
LEMMA Rowing ==
  ASSUME ReadInv, WholeWorld, Row
  PROVE  ReadInv'
<1>1. PICK p : p = Foremost(rows)
  OBVIOUS
<1>2. PICK gap, seq : /\ gap = IF prev[1] = p[1] THEN prev[2] ELSE -1
                      /\ seq = IF Single THEN read ELSE Global(p)
  OBVIOUS
<1>3. /\ pc = "read" /\ rows # {} /\ todo = <<>> /\ pc' = "read"
      /\ prev' = (IF RowAt(p) = <<>> THEN prev ELSE <<p[1], Global(p)>>)
      /\ rows' = rows \ {p} /\ read' = read + 1
      /\ UNCHANGED <<run, plan, z, wave, held, spilled, written>>
  BY <1>1 DEF Row
<1>4. todo' = FlattenSeq([i \in 1..Levels |->
                IF i - 1 \in Targets(p[1]) THEN MembersOf(p, i - 1, gap, seq) ELSE <<>>])
  BY <1>1, <1>2 DEF Row, MembersOf
<1>5. /\ PlanInv /\ PlaceInv /\ run \in Setups /\ z \in Zooms /\ wave \in Nat \ {0}
      /\ Filling(DOMAIN held) /\ DOMAIN held = DOMAIN spilled /\ DOMAIN held \subseteq Buckets
  BY <1>3 DEF ReadInv, PlaceInv, PlanInv, FillInv
<1>6. PICK G \in SUBSET DOMAIN File :
        /\ Passed(G, rows, prev)
        /\ Single => G = DOMAIN File /\ read = Cardinality(Places \ rows)
        /\ ~Single => \A g \in G : Draws(g, z)
  BY <1>3 DEF ReadInv, RowsInv, RowsLeft
<1>7. rows \in SUBSET Places /\ p \in rows /\ p[1] \in G
  <2>1. rows \in SUBSET RowsOf(G)
    BY <1>6 DEF Passed
  <2>2. rows \in SUBSET Places
    BY <2>1 DEF RowsOf
  <2>3. p \in rows
    BY <1>1, <1>3, <1>5, <2>2, ForemostOf
  <2> QED  BY <2>1, <2>2, <2>3 DEF RowsOf
<1>8. gap = Before(p)
  BY <1>1, <1>2, <1>3, <1>5, <1>6, GapIs
<1>9. seq = Global(p)
  <2>1. CASE Single
    <3>1. Passed(DOMAIN File, rows, prev) /\ read = Cardinality(Places \ rows)
      BY <1>6, <2>1
    <3>2. Cardinality(Places \ rows) = Global(p)
      BY <1>1, <1>3, <1>5, <3>1, ReadIs
    <3> QED  BY <1>2, <2>1, <3>1, <3>2
  <2> QED  BY <1>2, <2>1
<1>10. p \in Places /\ (~Single => Draws(p[1], z))
  BY <1>6, <1>7
<1>11. /\ Clipped(p) \subseteq AnyMember
       /\ \A m \in Clipped(p) : Bucket(m.level, m.key) \in DOMAIN held
       /\ \A b \in DOMAIN held :
            {m \in Clipped(p) : Bucket(m.level, m.key) = b} = Due(b, {p})
  BY <1>5, <1>10, RowQueues
<1>12. PICK t : t = todo'
  OBVIOUS
<1>13. t \in Seq(AnyMember) /\ ToSet(t) = Clipped(p)
  BY <1>4, <1>5, <1>8, <1>9, <1>10, <1>11, <1>12, RowMembers
<1>14. PICK R, v, n, l, w, h, s :
         /\ R = rows' /\ v = prev' /\ n = read' /\ l = z' /\ w = wave' /\ h = held' /\ s = spilled'
  OBVIOUS
<1>15. RowsLeft(R, v, n, l)
  <2>1. Passed(G, rows \ {p}, IF RowAt(p) = <<>> THEN prev ELSE <<p[1], Global(p)>>)
    BY <1>1, <1>3, <1>5, <1>6, PassedNext
  <2>2. Passed(G, R, v)
    BY <1>3, <1>14, <2>1
  <2>3. ASSUME Single  PROVE G = DOMAIN File /\ n = Cardinality(Places \ R)
    <3>1. Passed(DOMAIN File, rows, prev) /\ read = Cardinality(Places \ rows)
      BY <1>6, <2>3
    <3>2. Cardinality(Places \ (rows \ {p})) = Cardinality(Places \ rows) + 1
      BY <1>1, <1>3, <1>5, <3>1, ReadIs
    <3> QED  BY <1>3, <1>6, <1>14, <2>3, <3>1, <3>2
  <2>4. ~Single => \A g \in G : Draws(g, l)
    BY <1>3, <1>6, <1>14
  <2> QED  BY <2>2, <2>3, <2>4 DEF RowsLeft
<1>16. DueFor(h, s, t, R, l, w)
  <2>1. SUFFICES ASSUME NEW b \in DOMAIN held, l < b[1] \/ (l = b[1] /\ w <= b[2])
                 PROVE  held[b] \cup spilled[b] \cup Queued(t, b) \cup Due(b, R) = Due(b, Places)
    BY <1>3, <1>14 DEF DueFor
  <2>2. DueFor(held, spilled, todo, rows, z, wave)
    BY <1>3, DueIs DEF ReadInv
  <2>3. held[b] \cup spilled[b] \cup Queued(todo, b) \cup Due(b, rows) = Due(b, Places)
    BY <1>3, <1>14, <2>1, <2>2 DEF DueFor
  <2>4. Queued(todo, b) = {}
    BY <1>3 DEF Queued, ToSet
  <2>5. Queued(t, b) = Due(b, {p})
    BY <1>11, <1>13 DEF Queued
  <2>6. Due(b, rows) = Due(b, {p}) \cup Due(b, R)
    <3>1. p \in rows
      BY <1>7
    <3>2. Due(b, rows) = Due(b, {p}) \cup Due(b, rows \ {p})
      BY <3>1, DueParts
    <3> QED  BY <1>3, <1>14, <3>2
  <2> QED  BY <2>3, <2>4, <2>5, <2>6
<1>17. PlaceInv'
  BY <1>3, <1>5 DEF PlaceInv
<1>18. written' = ArchiveTo(l, w)
  BY <1>3, <1>14 DEF ReadInv, WrittenInv
<1>19. Filling(DOMAIN h) /\ DOMAIN h = DOMAIN s /\ DOMAIN h \subseteq Buckets
  BY <1>3, <1>5, <1>14
<1>20. \A m \in ToSet(t) : Bucket(m.level, m.key) \in DOMAIN h
  BY <1>3, <1>11, <1>13, <1>14
<1> HIDE DEF Filling
<1> QED  BY <1>3, <1>5, <1>12, <1>13, <1>14, <1>15, <1>16, <1>17, <1>18, <1>19, <1>20, NextInv

-----------------------------------------------------------------------------
(* The fill *)

\* which each then joins,
LEMMA Pushing ==
  ASSUME ReadInv, Push
  PROVE  ReadInv'
<1>1. PICK m, b : m = Head(todo) /\ b = Bucket(m.level, m.key)
  OBVIOUS
<1>2. /\ pc = "read" /\ todo # <<>> /\ pc' = "read"
      /\ held' = [held EXCEPT ![b] = @ \cup {m}] /\ todo' = Tail(todo)
      /\ UNCHANGED <<run, plan, z, wave, rows, read, prev, spilled, written>>
  BY <1>1 DEF Push, Bucket
<1>3. /\ PlanInv /\ PlaceInv /\ Filling(DOMAIN held)
      /\ DOMAIN held = DOMAIN spilled /\ DOMAIN held \subseteq Buckets
      /\ todo \in Seq(AnyMember)
      /\ \A x \in ToSet(todo) : Bucket(x.level, x.key) \in DOMAIN held
      /\ DueFor(held, spilled, todo, rows, z, wave)
  BY <1>2, DueIs DEF ReadInv, FillInv
<1>4. PICK R, v, n, l, w, h, s, t :
        /\ R = rows' /\ v = prev' /\ n = read' /\ l = z' /\ w = wave' /\ h = held' /\ s = spilled'
        /\ t = todo'
  OBVIOUS
<1>5. t \in Seq(AnyMember) /\ m \in ToSet(todo) /\ ToSet(todo) = {m} \cup ToSet(t)
  <2>1. PICK S : S = AnyMember
    OBVIOUS
  <2>2. todo \in Seq(S) /\ todo # <<>> /\ m = Head(todo) /\ t = Tail(todo)
    BY <1>1, <1>2, <1>3, <1>4, <2>1
  <2>3. /\ Len(todo) \in Nat \ {0} /\ m = todo[1] /\ t \in Seq(S) /\ Len(t) = Len(todo) - 1
        /\ \A i \in 1..Len(t) : t[i] = todo[i + 1]
    BY <2>2
  <2>4. ToSet(todo) = {todo[i] : i \in 1..Len(todo)} /\ ToSet(t) = {t[i] : i \in 1..Len(t)}
    <3>1. DOMAIN todo = 1..Len(todo) /\ DOMAIN t = 1..Len(t)
      BY <2>2, <2>3
    <3> QED  BY <3>1 DEF ToSet
  <2>5. 1 \in 1..Len(todo)
    BY <2>3
  <2>6. ASSUME NEW x \in ToSet(t)  PROVE x \in ToSet(todo)
    <3>1. PICK i \in 1..Len(t) : x = t[i]
      BY <2>4
    <3>2. i + 1 \in 1..Len(todo) /\ x = todo[i + 1]
      BY <2>3, <3>1
    <3> QED  BY <2>4, <3>2
  <2>7. ASSUME NEW x \in ToSet(todo), x # m  PROVE x \in ToSet(t)
    <3>1. PICK i \in 1..Len(todo) : x = todo[i]
      BY <2>4
    <3>2. i # 1
      BY <2>3, <2>7, <3>1
    <3>3. i - 1 \in 1..Len(t) /\ (i - 1) + 1 = i
      BY <2>3, <3>2
    <3>4. t[i - 1] = x
      BY <2>3, <3>1, <3>3
    <3> QED  BY <2>4, <3>3, <3>4
  <2> QED  BY <2>1, <2>3, <2>4, <2>5, <2>6, <2>7
<1>6. /\ b \in DOMAIN held /\ DOMAIN h = DOMAIN held /\ h[b] = held[b] \cup {m}
      /\ \A c \in DOMAIN held : c # b => h[c] = held[c]
  BY <1>1, <1>2, <1>3, <1>4, <1>5
<1>7. DueFor(h, s, t, R, l, w)
  <2>1. SUFFICES ASSUME NEW c \in DOMAIN held, l < c[1] \/ (l = c[1] /\ w <= c[2])
                 PROVE  h[c] \cup spilled[c] \cup Queued(t, c) \cup Due(c, rows) = Due(c, Places)
    BY <1>2, <1>4, <1>6 DEF DueFor
  <2>2. held[c] \cup spilled[c] \cup Queued(todo, c) \cup Due(c, rows) = Due(c, Places)
    BY <1>2, <1>3, <1>4, <2>1 DEF DueFor
  <2>3. CASE c = b
    <3>1. Queued(todo, c) = {m} \cup Queued(t, c)
      BY <1>1, <1>5, <2>3 DEF Queued
    <3> QED  BY <1>6, <2>2, <2>3, <3>1
  <2>4. CASE c # b
    <3>1. Queued(todo, c) = Queued(t, c)
      BY <1>1, <1>5, <2>4 DEF Queued
    <3> QED  BY <1>6, <2>2, <2>4, <3>1
  <2> QED  BY <2>3, <2>4
<1>8. PlaceInv'
  BY <1>2, <1>3 DEF PlaceInv
<1>9. RowsLeft(R, v, n, l)
  BY <1>2, <1>4 DEF ReadInv, RowsInv
<1>10. written' = ArchiveTo(l, w)
  BY <1>2, <1>4 DEF ReadInv, WrittenInv
<1>11. Filling(DOMAIN h) /\ DOMAIN h = DOMAIN s /\ DOMAIN h \subseteq Buckets
  BY <1>2, <1>3, <1>4, <1>6
<1>12. \A x \in ToSet(t) : Bucket(x.level, x.key) \in DOMAIN h
  BY <1>3, <1>5, <1>6
<1> QED  BY <1>2, <1>3, <1>4, <1>5, <1>7, <1>8, <1>9, <1>10, <1>11, <1>12, NextInv

\* and a flush takes to disk.
LEMMA Flushed ==
  ASSUME ReadInv, NEW b \in DOMAIN held, Flush(b)
  PROVE  ReadInv'
<1>1. /\ pc \in {"read", "finish"} /\ pc' = pc
      /\ spilled' = [spilled EXCEPT ![b] = @ \cup held[b]] /\ held' = [held EXCEPT ![b] = {}]
      /\ UNCHANGED <<run, plan, z, wave, rows, read, prev, todo, written>>
  BY DEF Flush
<1>2. /\ PlanInv /\ PlaceInv /\ (pc = "read" => Filling(DOMAIN held))
      /\ DOMAIN held = DOMAIN spilled /\ DOMAIN held \subseteq Buckets
      /\ todo \in Seq(AnyMember)
      /\ \A x \in ToSet(todo) : Bucket(x.level, x.key) \in DOMAIN held
      /\ DueFor(held, spilled, todo, rows, z, wave)
  BY <1>1, DueIs DEF ReadInv, FillInv
<1>3. PICK R, v, n, l, w, h, s, t :
        /\ R = rows' /\ v = prev' /\ n = read' /\ l = z' /\ w = wave' /\ h = held' /\ s = spilled'
        /\ t = todo'
  OBVIOUS
<1>4. /\ DOMAIN h = DOMAIN held /\ DOMAIN s = DOMAIN held
      /\ \A c \in DOMAIN held : h[c] \cup s[c] = held[c] \cup spilled[c]
  BY <1>1, <1>2, <1>3
<1>5. DueFor(h, s, t, R, l, w)
  <2>1. SUFFICES ASSUME NEW c \in DOMAIN held, l < c[1] \/ (l = c[1] /\ w <= c[2])
                 PROVE  h[c] \cup s[c] \cup Queued(todo, c) \cup Due(c, rows) = Due(c, Places)
    BY <1>1, <1>3, <1>4 DEF DueFor
  <2>2. held[c] \cup spilled[c] \cup Queued(todo, c) \cup Due(c, rows) = Due(c, Places)
    BY <1>1, <1>2, <1>3, <2>1 DEF DueFor
  <2> QED  BY <1>4, <2>2
<1>6. PlaceInv'
  BY <1>1, <1>2 DEF PlaceInv
<1>7. pc = "read" => RowsLeft(R, v, n, l)
  BY <1>1, <1>3 DEF ReadInv, RowsInv
<1>8. written' = ArchiveTo(l, w)
  BY <1>1, <1>3 DEF ReadInv, WrittenInv
<1>9. (pc = "read" => Filling(DOMAIN h)) /\ DOMAIN h = DOMAIN s /\ DOMAIN h \subseteq Buckets
  BY <1>2, <1>4
<1>10. t \in Seq(AnyMember) /\ \A x \in ToSet(t) : Bucket(x.level, x.key) \in DOMAIN h
  BY <1>1, <1>2, <1>3, <1>4
<1> QED  BY <1>1, <1>2, <1>3, <1>5, <1>6, <1>7, <1>8, <1>9, <1>10, NextInv

\* A fill that ends has nothing left to do.
LEMMA Finishing ==
  ASSUME ReadInv, Finish
  PROVE  ReadInv'
<1>1. /\ pc = "read" /\ pc' = "finish" /\ rows = {} /\ todo = <<>>
      /\ UNCHANGED <<run, plan, z, wave, rows, read, prev, todo, held, spilled, written>>
  BY DEF Finish
<1>2. /\ PlanInv /\ PlaceInv
      /\ DOMAIN held = DOMAIN spilled /\ DOMAIN held \subseteq Buckets
      /\ todo \in Seq(AnyMember)
      /\ \A x \in ToSet(todo) : Bucket(x.level, x.key) \in DOMAIN held
      /\ DueFor(held, spilled, todo, rows, z, wave)
  BY <1>1, DueIs DEF ReadInv, FillInv
<1>3. PICK R, v, n, l, w, h, s, t :
        /\ R = rows' /\ v = prev' /\ n = read' /\ l = z' /\ w = wave' /\ h = held' /\ s = spilled'
        /\ t = todo'
  OBVIOUS
<1>4. DueFor(h, s, t, R, l, w)
  BY <1>1, <1>2, <1>3
<1>5. PlaceInv'
  BY <1>1, <1>2 DEF PlaceInv
<1>6. written' = ArchiveTo(l, w)
  BY <1>1, <1>3 DEF ReadInv, WrittenInv
<1>7. DOMAIN h = DOMAIN s /\ DOMAIN h \subseteq Buckets
  BY <1>1, <1>2, <1>3
<1>8. t \in Seq(AnyMember) /\ \A x \in ToSet(t) : Bucket(x.level, x.key) \in DOMAIN h
  BY <1>1, <1>2, <1>3
<1> QED  BY <1>1, <1>2, <1>3, <1>4, <1>5, <1>6, <1>7, <1>8, NextInv

-----------------------------------------------------------------------------
(* Encoding *)

\* The members of a wave, and of one of its partitions.
LEMMA WaveParts ==
  ASSUME PlanInv, z \in Zooms, NEW b \in Buckets, b[1] = z,
         NEW a, a = FirstPart(z, b[2]), NEW n, n = LastPart(z, b[2]),
         NEW i \in a..n, i \in Parts(z)
  PROVE  Tiles({m \in Due(b, Places) : Routed(z, a, n, m.key) = i}) = Drawn(z, plan[z][i])
<1>1. /\ run \in Setups /\ Len(plan[z]) \in Nat /\ (plan[z] = <<>> <=> Len(plan[z]) = 0)
      /\ Split(plan[z], PlannedKeys(z)) /\ PlannedKeys(z) \in SUBSET Nat
  BY PlanShape
<1>2. b[2] \in Waves(z) /\ b[2] \in Nat \ {0}
  BY BucketsAre
<1>3. /\ a \in Parts(z) /\ n \in Parts(z)
      /\ \A j \in Parts(z) : WaveOf(j) = b[2] <=> a <= j /\ j <= n
  BY <1>1, <1>2, WavesAre
<1>4. Cuts(PlannedKeys(z), z, a, n)
  BY <1>1, <1>3 DEF Cuts, Parts
<1>5. \A j \in a..n : \A k \in ToSet(plan[z][j]) : Routed(z, a, n, k) = j
  BY <1>4, RoutedTo
<1>6. \A j \in Parts(z) : WaveOf(j) = b[2] => j \in a..n
  <2>1. \A j \in Parts(z) : j \in Int
    BY DEF Parts
  <2>2. a \in Int /\ n \in Int
    BY <1>3, <2>1
  <2> QED  BY <1>3, <2>1, <2>2
<1>7. WaveOf(i) = b[2]
  <2>1. a <= i /\ i <= n
    <3>1. a \in Int /\ n \in Int
      BY <1>3 DEF Parts
    <3> QED  BY <3>1
  <2> QED  BY <1>3, <2>1
<1> DEFINE ms == {m \in Due(b, Places) : Routed(z, a, n, m.key) = i}
           own == UNION {{MemberOf(p, z, k) : k \in KeysOf(RowAt(p), z) \cap ToSet(plan[z][i])} :
                           p \in {q \in Places : Draws(q[1], z)}}
<1>8. \A p, k : MemberOf(p, z, k).key = k
  BY DEF MemberOf
<1>9. ASSUME NEW m \in ms  PROVE m \in own
  <2>1. m \in Due(b, Places)
    OBVIOUS
  <2>2. PICK p \in Places : \E k \in KeysOf(RowAt(p), b[1]) \cap KeysIn(b) :
                             Draws(p[1], b[1]) /\ m = MemberOf(p, b[1], k)
    BY <2>1, DueHolds
  <2>3. PICK k \in KeysOf(RowAt(p), b[1]) \cap KeysIn(b) :
          Draws(p[1], b[1]) /\ m = MemberOf(p, b[1], k)
    BY <2>2
  <2>4. PICK j \in Parts(z) : WaveOf(j) = b[2] /\ k \in ToSet(plan[z][j])
    BY <2>3 DEF KeysIn
  <2>5. Routed(z, a, n, k) = j
    BY <1>5, <1>6, <2>4
  <2>6. m.key = k /\ m = MemberOf(p, z, k)
    BY <1>8, <2>3
  <2>7. j = i
    BY <2>5, <2>6
  <2> QED  BY <2>3, <2>4, <2>6, <2>7
<1>10. ASSUME NEW m \in own  PROVE m \in ms
  <2>1. PICK p \in Places : /\ Draws(p[1], z)
                            /\ \E k \in KeysOf(RowAt(p), z) \cap ToSet(plan[z][i]) : m = MemberOf(p, z, k)
    OBVIOUS
  <2>2. PICK k \in KeysOf(RowAt(p), z) \cap ToSet(plan[z][i]) : m = MemberOf(p, z, k)
    BY <2>1
  <2>3. k \in KeysIn(b)
    BY <1>7, <2>2 DEF KeysIn
  <2>4. m \in Due(b, Places)
    BY <2>1, <2>2, <2>3, DueHolds
  <2>5. Routed(z, a, n, m.key) = i
    BY <1>5, <1>8, <2>2
  <2> QED  BY <2>4, <2>5
<1>11. ms = own
  BY <1>9, <1>10
<1> HIDE DEF ms
<1>12. Tiles(ms) = Drawn(z, plan[z][i])
  BY <1>11, TilesDrawn
<1> QED  BY <1>12 DEF ms

\* A wave's tiles are the archive's next.
LEMMA Encoding ==
  ASSUME ReadInv, EncodeWave
  PROVE  ReadInv'
<1>1. PICK b, a, c, ms :
        /\ b = <<z, wave>> /\ a = FirstPart(z, wave) /\ c = LastPart(z, wave)
        /\ ms = spilled[b] \cup held[b]
  OBVIOUS
<1>2. /\ pc = "finish" /\ b \in DOMAIN held /\ pc' \in {"finish", "next"}
      /\ held' = [held EXCEPT ![b] = {}] /\ spilled' = [spilled EXCEPT ![b] = {}]
      /\ wave' = wave + 1
      /\ UNCHANGED <<run, plan, z, rows, read, prev, todo>>
  BY <1>1 DEF EncodeWave, Encode
<1>3. written' = written \o FlattenSeq([i \in 1..(c - a + 1) |->
                              Tiles({m \in ms : Routed(z, a, c, m.key) = a + i - 1})])
  BY <1>1 DEF EncodeWave, Encode
<1>4. /\ PlanInv /\ PlaceInv /\ z \in Zooms /\ wave \in Nat \ {0} /\ rows = {} /\ todo = <<>>
      /\ DOMAIN held = DOMAIN spilled /\ DOMAIN held \subseteq Buckets
      /\ todo \in Seq(AnyMember)
      /\ DueFor(held, spilled, todo, rows, z, wave)
  BY <1>2, DueIs DEF ReadInv, PlaceInv, FillInv
<1>5. b \in Buckets /\ b[1] = z /\ b[2] = wave
  BY <1>1, <1>2, <1>4
<1>6. wave \in Waves(z)
  BY <1>4, <1>5, BucketsAre
<1>7. ms = Due(b, Places)
  <2>1. held[b] \cup spilled[b] \cup Queued(todo, b) \cup Due(b, rows) = Due(b, Places)
    BY <1>2, <1>4, <1>5 DEF DueFor
  <2>2. Queued(todo, b) = {} /\ Due(b, rows) = {}
    BY <1>4 DEF Queued, ToSet, Due
  <2> QED  BY <1>1, <2>1, <2>2
<1>8. /\ run \in Setups /\ Len(plan[z]) \in Nat /\ (plan[z] = <<>> <=> Len(plan[z]) = 0)
  BY <1>4, PlanShape
<1>9. a \in Parts(z) /\ c \in Parts(z) /\ a <= c
  BY <1>1, <1>6, <1>8, WavesAre
<1>10. \A i \in 1..(c - a + 1) :
         Tiles({m \in ms : Routed(z, a, c, m.key) = a + i - 1}) = Drawn(z, plan[z][a + i - 1])
  <2>1. SUFFICES ASSUME NEW i \in 1..(c - a + 1)
                 PROVE  Tiles({m \in ms : Routed(z, a, c, m.key) = a + i - 1})
                          = Drawn(z, plan[z][a + i - 1])
    OBVIOUS
  <2>2. PICK j : j = a + i - 1
    OBVIOUS
  <2>3. j \in a..c /\ j \in Parts(z)
    <3>1. a \in 1..Len(plan[z]) /\ c \in 1..Len(plan[z])
      BY <1>9 DEF Parts
    <3>2. j \in a..c /\ j \in 1..Len(plan[z])
      BY <1>8, <2>2, <3>1
    <3> QED  BY <3>2 DEF Parts
  <2>4. a = FirstPart(z, b[2]) /\ c = LastPart(z, b[2])
    BY <1>1, <1>5
  <2>5. Tiles({m \in Due(b, Places) : Routed(z, a, c, m.key) = j}) = Drawn(z, plan[z][j])
    BY <1>4, <1>5, <2>3, <2>4, WaveParts
  <2> QED  BY <1>7, <2>2, <2>5
<1>11. written' = ArchiveTo(z, wave + 1)
  <2>1. written' = written \o FlattenSeq([i \in 1..(c - a + 1) |-> Drawn(z, plan[z][a + i - 1])])
    <3>1. [i \in 1..(c - a + 1) |-> Tiles({m \in ms : Routed(z, a, c, m.key) = a + i - 1})]
            = [i \in 1..(c - a + 1) |-> Drawn(z, plan[z][a + i - 1])]
      BY <1>10
    <3> QED  BY <1>3, <3>1
  <2>2. written = ArchiveTo(z, wave)
    BY DEF ReadInv, WrittenInv
  <2>3. ArchiveTo(z, wave + 1)
          = ArchiveTo(z, wave)
              \o FlattenSeq([i \in 1..(c - a + 1) |-> Drawn(z, plan[z][a + i - 1])])
    <3>1. z \in Zooms /\ a = FirstPart(z, wave) /\ c = LastPart(z, wave)
      BY <1>1, <1>4
    <3>2. PlanInv
      BY <1>4
    <3> QED  BY <1>6, <3>1, <3>2, ArchiveWave
  <2> QED  BY <2>1, <2>2, <2>3
<1>12. PICK R, v, n, l, w, h, s, t :
         /\ R = rows' /\ v = prev' /\ n = read' /\ l = z' /\ w = wave' /\ h = held' /\ s = spilled'
         /\ t = todo'
  OBVIOUS
<1>13. /\ DOMAIN h = DOMAIN held /\ DOMAIN s = DOMAIN held
       /\ \A d \in DOMAIN held : d # b => h[d] = held[d] /\ s[d] = spilled[d]
  BY <1>2, <1>4, <1>12
<1>14. DueFor(h, s, t, R, l, w)
  <2>1. SUFFICES ASSUME NEW d \in DOMAIN held, z < d[1] \/ (z = d[1] /\ wave + 1 <= d[2])
                 PROVE  h[d] \cup s[d] \cup Queued(todo, d) \cup Due(d, rows) = Due(d, Places)
    BY <1>2, <1>12, <1>13 DEF DueFor
  <2>2. d[1] \in Nat /\ d[2] \in Nat /\ z \in Nat
    BY <1>4, BucketsAre DEF Zooms
  <2>3. d # b /\ (z < d[1] \/ (z = d[1] /\ wave <= d[2]))
    BY <1>4, <1>5, <2>1, <2>2
  <2>4. held[d] \cup spilled[d] \cup Queued(todo, d) \cup Due(d, rows) = Due(d, Places)
    BY <1>4, <2>3 DEF DueFor
  <2> QED  BY <1>13, <2>3, <2>4
<1>15. PlaceInv'
  <2>1. wave + 1 \in Nat \ {0}
    BY <1>4
  <2> QED  BY <1>2, <1>4, <2>1 DEF PlaceInv
<1>16. written' = ArchiveTo(l, w)
  BY <1>2, <1>11, <1>12
<1>17. t \in Seq(AnyMember) /\ \A x \in ToSet(t) : Bucket(x.level, x.key) \in DOMAIN h
  BY <1>2, <1>4, <1>12 DEF ToSet
<1>18. DOMAIN h = DOMAIN s /\ DOMAIN h \subseteq Buckets
  BY <1>4, <1>13
<1> QED  BY <1>2, <1>4, <1>12, <1>14, <1>15, <1>16, <1>17, <1>18, NextInv

\* A level with no wave left is drawn.
LEMMA NextLeveling ==
  ASSUME ReadInv, NextLevel
  PROVE  ReadInv'
<1>1. /\ pc \in {"next", "finish"} /\ wave \notin Waves(z) /\ (Single => pc = "finish")
      /\ z' = z + 1 /\ wave' = 1
      /\ pc' = (IF z + 1 = Levels THEN "done" ELSE IF Single THEN "finish" ELSE "next")
      /\ UNCHANGED <<run, plan, rows, read, prev, todo, held, spilled, written>>
  BY DEF NextLevel
<1>2. PlanInv /\ PlaceInv /\ z \in Zooms /\ wave \in Nat \ {0} /\ rows = {} /\ todo = <<>>
  BY <1>1 DEF ReadInv, PlaceInv
<1>3. /\ todo \in Seq(AnyMember) /\ \A x \in ToSet(todo) : Bucket(x.level, x.key) \in DOMAIN held
      /\ pc = "finish" => /\ DOMAIN held = DOMAIN spilled /\ DOMAIN held \subseteq Buckets
                          /\ DueFor(held, spilled, todo, rows, z, wave)
  BY DueIs DEF ReadInv, FillInv
<1>4. PICK R, v, n, l, w, h, s, t :
        /\ R = rows' /\ v = prev' /\ n = read' /\ l = z' /\ w = wave' /\ h = held' /\ s = spilled'
        /\ t = todo'
  OBVIOUS
<1>5. z \in Nat /\ z + 1 \in 0..Levels /\ (z + 1 # Levels => z + 1 \in Zooms)
  BY <1>2, LevelsAre
<1>6. PlaceInv'
  BY <1>1, <1>2, <1>5 DEF PlaceInv
<1>7. written' = ArchiveTo(l, w)
  <2>1. ArchiveTo(z, wave) = ArchiveTo(z + 1, 1)
    BY <1>1, <1>2, ArchiveNext
  <2>2. written = ArchiveTo(z, wave)
    BY DEF ReadInv, WrittenInv
  <2> QED  BY <1>1, <1>4, <2>1, <2>2
<1>8. pc' \in {"read", "finish"} => pc = "finish" /\ pc' # "read"
  BY <1>1
<1>9. ASSUME pc = "finish"  PROVE DueFor(h, s, t, R, l, w)
  <2>1. SUFFICES ASSUME NEW d \in DOMAIN held, z + 1 < d[1] \/ (z + 1 = d[1] /\ 1 <= d[2])
                 PROVE  held[d] \cup spilled[d] \cup Queued(todo, d) \cup Due(d, rows) = Due(d, Places)
    BY <1>1, <1>4 DEF DueFor
  <2>2. d[1] \in Nat
    BY <1>2, <1>3, <1>9, BucketsAre DEF Zooms
  <2>3. z < d[1]
    BY <1>5, <2>1, <2>2
  <2> QED  BY <1>3, <1>9, <2>3 DEF DueFor
<1>10. pc = "finish" => DOMAIN h = DOMAIN s /\ DOMAIN h \subseteq Buckets
  BY <1>1, <1>3, <1>4
<1>11. t \in Seq(AnyMember) /\ \A x \in ToSet(t) : Bucket(x.level, x.key) \in DOMAIN h
  BY <1>1, <1>3, <1>4
<1> QED  BY <1>1, <1>2, <1>4, <1>6, <1>7, <1>8, <1>9, <1>10, <1>11, NextInv

\* Nothing else changes what is written.
LEMMA Stopping ==
  ASSUME ReadInv, Fail \/ UNCHANGED vars
  PROVE  ReadInv'
<1>1. /\ (pc' = pc \/ pc' = "failed")
      /\ UNCHANGED <<run, plan, z, wave, rows, read, prev, todo, held, spilled, written>>
  BY DEF Fail, vars
<1>2. PlanInv /\ PlaceInv
  BY DEF ReadInv
<1>3. /\ todo \in Seq(AnyMember) /\ \A x \in ToSet(todo) : Bucket(x.level, x.key) \in DOMAIN held
      /\ (pc = "read" => Filling(DOMAIN held) /\ RowsLeft(rows, prev, read, z))
      /\ (pc \in {"read", "finish"} => /\ DOMAIN held = DOMAIN spilled /\ DOMAIN held \subseteq Buckets
                                       /\ DueFor(held, spilled, todo, rows, z, wave))
      /\ written = ArchiveTo(z, wave)
  BY DueIs DEF ReadInv, FillInv, RowsInv, WrittenInv
<1>4. PICK R, v, n, l, w, h, s, t :
        /\ R = rows' /\ v = prev' /\ n = read' /\ l = z' /\ w = wave' /\ h = held' /\ s = spilled'
        /\ t = todo'
  OBVIOUS
<1>5. /\ R = rows /\ v = prev /\ n = read /\ l = z /\ w = wave /\ h = held /\ s = spilled
      /\ t = todo /\ written' = written /\ UNCHANGED <<run, plan, z, wave>>
  BY <1>1, <1>4
<1>6. PlaceInv'
  BY <1>1, <1>2 DEF PlaceInv
<1> QED  BY <1>1, <1>2, <1>3, <1>4, <1>5, <1>6, NextInv

-----------------------------------------------------------------------------
(* The theorem *)

\* Every step keeps the invariant,
LEMMA ReadStep ==
  ASSUME ReadInv, WholeWorld, [Next]_vars
  PROVE  ReadInv'
<1>1. CASE ReadFile \/ ReadLevel \/ ReadWave
  BY <1>1, ReadingFile, ReadingLevel, ReadingWave
<1>2. CASE Row \/ Push \/ Finish
  BY <1>2, Rowing, Pushing, Finishing
<1>3. CASE \E b \in DOMAIN held : Flush(b)
  BY <1>3, Flushed
<1>4. CASE EncodeWave \/ NextLevel
  BY <1>4, Encoding, NextLeveling
<1>5. CASE Fail \/ Stop \/ UNCHANGED vars
  BY <1>5, Stopping DEF Stop
<1> QED  BY <1>1, <1>2, <1>3, <1>4, <1>5 DEF Next

\* which has the tiles as one pass gives them.
LEMMA ReadTiles ==
  ASSUME ReadInv
  PROVE  TilesAsRead
<1>1. /\ PlanInv /\ z \in 0..Levels /\ wave \in Nat \ {0} /\ written = ArchiveTo(z, wave)
      /\ (pc = "done" => z = Levels)
  BY DEF ReadInv, PlaceInv, WrittenInv
<1>2. written \in Seq(AnyTile) /\ \E t \in Seq(AnyTile) : Archive = written \o t
  BY <1>1, ArchiveStarts
<1>3. PICK t \in Seq(AnyTile) : Archive = written \o t
  BY <1>2
<1>4. IsPrefix(written, Archive)
  <2>1. PICK S : S = AnyTile
    OBVIOUS
  <2>2. PICK w, a : w = written /\ a = Archive
    OBVIOUS
  <2>3. w \in Seq(S) /\ t \in Seq(S) /\ a = w \o t
    BY <1>2, <1>3, <2>1, <2>2
  <2>4. /\ a \in Seq(S) /\ Len(w) \in Nat /\ Len(w) <= Len(a)
        /\ \A i \in 1..Len(w) : w[i] = a[i]
    BY <2>3
  <2>5. SubSeq(w, 1, Len(w)) = SubSeq(a, 1, Len(w))
    BY <2>3, <2>4
  <2> QED  BY <2>2, <2>4, <2>5 DEF IsPrefix
<1>5. pc = "done" => Len(written) = Len(Archive)
  BY <1>1, ArchiveEnds
<1> QED  BY <1>4, <1>5 DEF TilesAsRead

(* Read whole, by levels or by waves, with row groups skipped and members   *)
(* spilled, an export writes the tiles of one pass over its file, in order  *)
(* and as far as it gets, and all of them when it is done; unless its file  *)
(* is read once for a range of its tiles, see LevelRead_doc (TilesAsRead).  *)
THEOREM ReadsAgree == WholeWorld /\ Spec => []TilesAsRead
<1> DEFINE Inv == WholeWorld /\ ReadInv
<1>1. WholeWorld /\ Init => Inv
  BY ReadInit
<1>2. Inv /\ [Next]_vars => Inv'
  <2>1. SUFFICES ASSUME Inv, [Next]_vars  PROVE Inv'
    OBVIOUS
  <2>2. ReadInv'
    BY <2>1, ReadStep
  <2>3. run' = run
    BY <2>1 DEF Next, vars, Start, ReadFile, ReadLevel, ReadWave, Row, Push, Flush, Finish,
                EncodeWave, Encode, NextLevel, Fail, Stop
  <2>4. WholeWorld'
    BY <2>1, <2>3 DEF WholeWorld, Single
  <2> QED  BY <2>2, <2>4
<1>3. Inv => TilesAsRead
  BY ReadTiles
<1> QED  BY <1>1, <1>2, <1>3, PTL DEF Spec
=============================================================================
