--------------------------- MODULE ShardingProofs ---------------------------
(***************************************************************************)
(* Proofs about ShardCut and Fleet.                                        *)
(*                                                                         *)
(* ShardCut, for every input, every pivot zoom and every number of shards: *)
(* the ranges cut share out the pivot zoom, each by its weight, each tile  *)
(* below it has one owner, of a plan as it was cut and of one that was     *)
(* edited and is still accepted, and the weights add up to the rows.       *)
(*                                                                         *)
(* Fleet, for every number of jobs and every input, cut and selection: the *)
(* archive of a job is its part of one run over the whole input, and the   *)
(* parts are that run.  Between the two stand what the model is built of:  *)
(* the Hilbert curve (a tile's ids lie together at every zoom below it),   *)
(* the stream of the rows read, the walk that finds the runs a shard keeps *)
(* of it, and the tables cut down to them.                                 *)
(***************************************************************************)
EXTENDS Fleet, ShardCut, SumProofs

-----------------------------------------------------------------------------
(* The inductive invariant *)

Typed ==
  /\ groups \in Seq([rows : Nat, tiles : SUBSET Ids])
  /\ shards \in 1..TileCount(Pivot)
  /\ pc \in {"weigh", "cut", "saved", "edited", "loaded", "refused"}
  /\ DOMAIN weight \subseteq Ids /\ weight \in [DOMAIN weight -> Nat]
  /\ pending \subseteq DOMAIN weight
  /\ taken \in Nat
  /\ cursor \in FirstTile..(LastTile + 1)
  /\ ranges \in Seq([lo : Int, hi : Int, rows : Nat])
  /\ Len(ranges) <= shards

Unweighed ==
  pc = "weigh" => taken = 0 /\ cursor = FirstTile /\ ranges = <<>>

\* The ranges laid so far follow one another from the first tile on.
Laid(rs, upto) ==
  /\ \A i \in DOMAIN rs : /\ rs[i].lo = IF i = 1 THEN FirstTile
                                        ELSE rs[i - 1].hi + 1
                          /\ rs[i].lo <= rs[i].hi
  /\ upto = IF rs = <<>> THEN FirstTile ELSE rs[Len(rs)].hi + 1

\* A range has the weight of its tiles, and no more than its share allows.
Fits(w, n, r) ==
  /\ r.rows = SumFunctionOnSet(w, {id \in DOMAIN w : r.lo <= id /\ id <= r.hi})
  /\ r.rows * n <= SumFunction(w) + n * Max({0} \cup Range(w))

RowsIn(rs) == SumFunction([i \in DOMAIN rs |-> rs[i].rows])

Ordered == pc \in {"cut", "saved"} => Laid(ranges, cursor)
Estimated == pc \in {"cut", "saved"} =>
  \A i \in DOMAIN ranges : Fits(weight, shards, ranges[i])
Counted ==
  pc \in {"cut", "saved"} =>
    taken + WeightOf(pending) = Total /\ RowsIn(ranges) = taken

\* While it cuts: what is not taken lies ahead, a tile is left for each range
\* to come, and the ranges so far hold their share, or what is left is in
\* the tiles that the ranges to come need.
Ahead ==
  pc = "cut" =>
    /\ pending = {id \in DOMAIN weight : cursor <= id}
    /\ Remaining >= 1 /\ cursor <= LatestEnd
    /\ \/ taken * shards >= Total * Len(ranges)
       \/ \A id \in pending : LatestEnd <= id

Closed == pc = "saved" => /\ Len(ranges) = shards /\ cursor = LastTile + 1
                          /\ taken = Total

Accepted == pc = "loaded" => Structured(Plan)

IInv ==
  /\ Typed /\ Unweighed /\ Ordered /\ Estimated /\ Counted /\ Ahead
  /\ Closed /\ Accepted

-----------------------------------------------------------------------------
(* The tiles of a zoom *)

LEMMA ZoomIds ==
  ASSUME NEW z \in Nat
  PROVE  /\ TileCount(z) \in Nat \ {0} /\ FirstId(z) \in Nat
         /\ LastId(z) \in Nat /\ LastId(z) = FirstId(z) + TileCount(z) - 1
<1>1. TileCount(z) \in Nat \ {0}
  <2>1. 2 * z \in Nat
    OBVIOUS
  <2>2. 2^(2 * z) \in Nat \ {0}
    BY <2>1, Subsets
  <2> QED  BY <2>2 DEF TileCount
<1>2. \A t \in Nat \ {0} : (t - 1) \div 3 \in Nat
  OBVIOUS
<1>3. FirstId(z) \in Nat
  BY <1>1, <1>2 DEF FirstId
<1> QED  BY <1>1, <1>3 DEF LastId

LEMMA PivotIds ==
  /\ Pivot \in Nat /\ TileCount(Pivot) \in Nat \ {0}
  /\ FirstTile \in Nat /\ LastTile \in Nat
  /\ LastTile = FirstTile + TileCount(Pivot) - 1
  /\ Ids = FirstTile..LastTile /\ IsFiniteSet(Ids) /\ Ids \subseteq Nat
<1>1. Pivot \in Nat
  BY CutAssumption, ZoomAssumption
<1>2. /\ TileCount(Pivot) \in Nat \ {0} /\ FirstTile \in Nat /\ LastTile \in Nat
      /\ LastTile = FirstTile + TileCount(Pivot) - 1
  BY <1>1, ZoomIds DEF FirstTile, LastTile
<1>3. Ids = FirstTile..LastTile
  BY DEF Ids, IdsOf, FirstTile, LastTile
<1>4. IsFiniteSet(Ids)
  BY <1>2, <1>3, FS_Interval
<1> QED  BY <1>1, <1>2, <1>3, <1>4

\* A zoom holds as many tiles under each tile of the pivot as the zoom
\* as many levels down holds at all.
LEMMA TilesUnder ==
  ASSUME NEW z \in Nat, NEW p \in Nat, p <= z
  PROVE  /\ z - p \in Nat /\ TileCount(z - p) \in Nat \ {0}
         /\ TileCount(z) = TileCount(p) * TileCount(z - p)
<1>1. z - p \in Nat /\ 2 * p \in Nat /\ 2 * (z - p) \in Nat
      /\ 2 * z = 2 * p + 2 * (z - p)
  OBVIOUS
<1>2. 2^(2 * z) = 2^(2 * p) * 2^(2 * (z - p))
  BY <1>1, PowerSum
<1>3. TileCount(z - p) \in Nat \ {0}
  BY <1>1, ZoomIds
<1> QED  BY <1>1, <1>2, <1>3 DEF TileCount

-----------------------------------------------------------------------------
(* Ranges that follow one another *)

\* n ranges follow one another from the tile `first` on, none empty.
Follow(n, lo, hi, first) ==
  /\ n \in Nat \ {0} /\ lo \in [1..n -> Int] /\ hi \in [1..n -> Int]
  /\ \A i \in 1..n : lo[i] <= hi[i]
  /\ lo[1] = first /\ \A i \in 2..n : lo[i] = hi[i - 1] + 1

LEMMA FollowInOrder ==
  ASSUME NEW n, NEW lo, NEW hi, NEW first, Follow(n, lo, hi, first)
  PROVE  \A i, k \in 1..n : i < k => hi[i] < lo[k]
<1>0. /\ n \in Nat \ {0} /\ \A i \in 1..n : lo[i] \in Int /\ hi[i] \in Int
                                           /\ lo[i] <= hi[i]
      /\ \A i \in 2..n : lo[i] = hi[i - 1] + 1
  BY DEF Follow
<1>1. SUFFICES ASSUME NEW i \in 1..n
               PROVE  \A k \in 1..n : i < k => hi[i] < lo[k]
  OBVIOUS
<1> DEFINE Bad == {k \in 1..n : i < k /\ ~(hi[i] < lo[k])}
<1>2. Bad = {}
  <2>1. SUFFICES ASSUME Bad # {}  PROVE FALSE
    OBVIOUS
  <2>2. Bad \in SUBSET Nat
    BY <1>0
  <2>3. PICK k \in Bad : \A j \in Bad : k <= j
    BY <2>1, <2>2, Smallest
  <2>4. k \in 1..n /\ i < k /\ ~(hi[i] < lo[k]) /\ k \in 2..n /\ k - 1 \in 1..n
    BY <1>0, <2>3
  <2>5. lo[k] = hi[k - 1] + 1
    BY <1>0, <2>4
  <2>6. CASE k - 1 = i
    BY <1>0, <2>4, <2>5, <2>6
  <2>7. CASE k - 1 # i
    <3>1. i < k - 1 /\ ~(k <= k - 1)
      BY <1>0, <2>4, <2>7
    <3>2. k - 1 \notin Bad
      BY <2>3, <3>1
    <3>3. hi[i] < lo[k - 1]
      BY <2>4, <3>1, <3>2
    <3> QED  BY <1>0, <2>4, <2>5, <3>3
  <2> QED  BY <2>6, <2>7
<1> QED  BY <1>2

\* A tile from the first on lies in exactly one of them.
LEMMA FollowOnce ==
  ASSUME NEW n, NEW lo, NEW hi, NEW first, Follow(n, lo, hi, first),
         NEW id \in Int, first <= id, id <= hi[n]
  PROVE  \E i \in 1..n : {k \in 1..n : lo[k] <= id /\ id <= hi[k]} = {i}
<1>0. /\ n \in Nat \ {0} /\ \A i \in 1..n : lo[i] \in Int /\ hi[i] \in Int
                                           /\ lo[i] <= hi[i]
      /\ lo[1] = first /\ \A i \in 2..n : lo[i] = hi[i - 1] + 1
  BY DEF Follow
<1> DEFINE S == {i \in 1..n : id <= hi[i]}
<1>1. S # {} /\ S \in SUBSET Nat
  BY <1>0
<1>2. PICK i \in S : \A j \in S : i <= j
  BY <1>1, Smallest
<1>3. i \in 1..n /\ id <= hi[i]
  BY <1>2
<1>4. lo[i] <= id
  <2>1. CASE i = 1
    BY <1>0, <2>1
  <2>2. CASE i # 1
    <3>1. i \in 2..n /\ i - 1 \in 1..n /\ ~(i <= i - 1)
      BY <1>0, <1>3, <2>2
    <3>2. i - 1 \notin S
      BY <1>2, <3>1
    <3>3. hi[i - 1] < id /\ lo[i] = hi[i - 1] + 1
      BY <1>0, <3>1, <3>2
    <3> QED  BY <1>0, <3>1, <3>3
  <2> QED  BY <2>1, <2>2
<1>5. ASSUME NEW k \in 1..n, lo[k] <= id, id <= hi[k]  PROVE k = i
  <2>1. k < i => hi[k] < lo[i]
    BY <1>3, FollowInOrder
  <2>2. i < k => hi[i] < lo[k]
    BY <1>3, FollowInOrder
  <2>3. k < i \/ i < k \/ k = i
    BY <1>0, <1>3
  <2> QED  BY <1>0, <1>3, <1>4, <1>5, <2>1, <2>2, <2>3
<1> QED  BY <1>3, <1>4, <1>5

\* Nor does one begin before the first tile.
LEMMA FollowFrom ==
  ASSUME NEW n, NEW lo, NEW hi, NEW first, Follow(n, lo, hi, first)
  PROVE  \A i \in 1..n : first <= lo[i]
<1>1. /\ n \in Nat \ {0} /\ \A i \in 1..n : lo[i] \in Int /\ hi[i] \in Int
                                           /\ lo[i] <= hi[i]
      /\ lo[1] = first
  BY DEF Follow
<1>2. ASSUME NEW i \in 1..n  PROVE first <= lo[i]
  <2>1. 1 \in 1..n /\ (i = 1 \/ 1 < i)
    BY <1>1
  <2>2. 1 < i => hi[1] < lo[i]
    BY <2>1, FollowInOrder
  <2> QED  BY <1>1, <2>1, <2>2
<1> QED  BY <1>2

LEMMA Members ==
  ASSUME NEW S, NEW s \in Seq(S)
  PROVE  /\ Len(s) \in Nat /\ DOMAIN s = 1..Len(s)
         /\ \A i \in 1..Len(s) : s[i] \in S
OBVIOUS

Starts == [i \in 1..Len(ranges) |-> ranges[i].lo]
Ends == [i \in 1..Len(ranges) |-> ranges[i].hi]

LEMMA RangeTypes ==
  ASSUME ranges \in Seq([lo : Int, hi : Int, rows : Nat])
  PROVE  /\ Len(ranges) \in Nat /\ DOMAIN ranges = 1..Len(ranges)
         /\ \A i \in 1..Len(ranges) :
              ranges[i].lo \in Int /\ ranges[i].hi \in Int /\ ranges[i].rows \in Nat
         /\ Starts \in [1..Len(ranges) -> Int] /\ Ends \in [1..Len(ranges) -> Int]
<1>1. Len(ranges) \in Nat /\ DOMAIN ranges = 1..Len(ranges)
  OBVIOUS
<1>2. \A i \in 1..Len(ranges) : ranges[i] \in [lo : Int, hi : Int, rows : Nat]
  BY Members
<1>3. \A i \in 1..Len(ranges) :
        ranges[i].lo \in Int /\ ranges[i].hi \in Int /\ ranges[i].rows \in Nat
  BY <1>2
<1> QED  BY <1>1, <1>3 DEF Starts, Ends

\* The plan's own ranges are those cut, without their estimates.
LEMMA PlanRanges ==
  ASSUME ranges \in Seq([lo : Int, hi : Int, rows : Nat])
  PROVE  /\ Len(Plan.ranges) = Len(ranges) /\ Plan.pivot = Pivot
         /\ (Plan.ranges = <<>> <=> Len(ranges) = 0)
         /\ Plan.ranges \in Seq([lo : Int, hi : Int])
         /\ \A i \in 1..Len(ranges) : /\ Plan.ranges[i].lo = ranges[i].lo
                                      /\ Plan.ranges[i].hi = ranges[i].hi
<1>1. Len(ranges) \in Nat /\ DOMAIN ranges = 1..Len(ranges)
  OBVIOUS
<1> DEFINE short == [i \in DOMAIN ranges |->
                       [lo |-> ranges[i].lo, hi |-> ranges[i].hi]]
<1>2. Plan.ranges = short /\ Plan.pivot = Pivot
  BY DEF Plan
<1>3. \A i \in 1..Len(ranges) : short[i].lo = ranges[i].lo /\ short[i].hi = ranges[i].hi
  BY <1>1
<1>4. short \in Seq([lo : Int, hi : Int]) /\ DOMAIN short = 1..Len(ranges)
  <2>1. \A i \in 1..Len(ranges) : ranges[i].lo \in Int /\ ranges[i].hi \in Int
    BY RangeTypes
  <2>2. DOMAIN short = 1..Len(ranges)
    BY <1>1
  <2>3. \A i \in 1..Len(ranges) : short[i] \in [lo : Int, hi : Int]
    BY <1>1, <2>1
  <2>4. short \in [1..Len(ranges) -> [lo : Int, hi : Int]]
    BY <1>1, <2>3
  <2> QED  BY <1>1, <2>2, <2>4
<1> HIDE DEF short
<1>5. Len(short) = Len(ranges) /\ (short = <<>> <=> Len(ranges) = 0)
  BY <1>1, <1>4
<1> QED  BY <1>2, <1>3, <1>4, <1>5

\* The ranges of an accepted plan follow one another to the last tile.
LEMMA PlanFollows ==
  ASSUME NEW plan, plan.ranges \in Seq([lo : Int, hi : Int]), Structured(plan),
         NEW n, n = Len(plan.ranges),
         NEW lo, lo = [i \in 1..n |-> plan.ranges[i].lo],
         NEW hi, hi = [i \in 1..n |-> plan.ranges[i].hi]
  PROVE  /\ n \in Nat /\ plan.pivot \in 1..MaxPivot /\ plan.pivot \in Nat
         /\ Follow(n, lo, hi, FirstId(plan.pivot))
         /\ hi[n] = LastId(plan.pivot)
         /\ \A i \in 1..n : hi[i] <= LastId(plan.pivot)
<1> DEFINE p == plan.pivot
           rs == plan.ranges
<1>1. n \in Nat /\ \A i \in 1..n : rs[i] \in [lo : Int, hi : Int]
  BY Members
<1>2. /\ n # 0 /\ p \in 1..MaxPivot
      /\ \A i \in 1..n : /\ rs[i].lo = IF i = 1 THEN FirstId(p)
                                       ELSE rs[i - 1].hi + 1
                         /\ rs[i].lo <= rs[i].hi /\ rs[i].hi <= LastId(p)
      /\ rs[n].hi = LastId(p)
  BY DEF Structured
<1> HIDE DEF p, rs
<1>3. 1 \in 1..n /\ n \in 1..n /\ \A i \in 2..n : i # 1 /\ i \in 1..n /\ i - 1 \in 1..n
  BY <1>1, <1>2
<1>4. /\ \A i \in 1..n : lo[i] = rs[i].lo /\ hi[i] = rs[i].hi
      /\ lo \in [1..n -> Int] /\ hi \in [1..n -> Int]
  BY <1>1 DEF rs
<1>5. lo[1] = FirstId(p) /\ hi[n] = LastId(p)
  BY <1>2, <1>3, <1>4
<1>6. ASSUME NEW i \in 2..n  PROVE lo[i] = hi[i - 1] + 1
  <2>1. i # 1 /\ i \in 1..n /\ i - 1 \in 1..n
    BY <1>3
  <2>2. rs[i].lo = rs[i - 1].hi + 1
    BY <1>2, <2>1
  <2> QED  BY <1>4, <2>1, <2>2
<1>7. \A i \in 1..n : lo[i] <= hi[i] /\ hi[i] <= LastId(p)
  BY <1>2, <1>4
<1>8. Follow(n, lo, hi, FirstId(p))
  BY <1>1, <1>2, <1>4, <1>5, <1>6, <1>7 DEF Follow
<1>9. p \in Nat
  BY <1>2, ZoomAssumption
<1> QED  BY <1>1, <1>2, <1>5, <1>7, <1>8, <1>9 DEF p

\* Each tile, from the pivot zoom down, is in the range its ancestor at the
\* pivot is in, and in no other.
LEMMA PlanOwns ==
  ASSUME NEW plan, plan.ranges \in Seq([lo : Int, hi : Int]), Structured(plan),
         NEW n, n = Len(plan.ranges), NEW p, p = plan.pivot
  PROVE  /\ \A i \in 1..n : HasRange(plan, i, n)
         /\ \A z \in p..FinestZoom : \A id \in IdsOf(z) :
              LET up == FirstId(p) + (id - FirstId(z)) \div TileCount(z - p)
              IN \E i \in 1..n :
                   /\ {k \in 1..n : id \in IdsAt(p, plan.ranges[k], z)} = {i}
                   /\ plan.ranges[i].lo <= up /\ up <= plan.ranges[i].hi
<1> DEFINE rs == plan.ranges
           first == FirstId(p)
           last == LastId(p)
           lo == [i \in 1..n |-> rs[i].lo]
           hi == [i \in 1..n |-> rs[i].hi]
<1>1. /\ n \in Nat /\ p \in 1..MaxPivot /\ p \in Nat /\ FinestZoom \in Nat
      /\ Follow(n, lo, hi, first) /\ hi[n] = last
      /\ \A i \in 1..n : hi[i] <= last
  BY PlanFollows, ZoomAssumption
<1>2. /\ first \in Nat /\ last \in Nat /\ TileCount(p) \in Nat \ {0}
      /\ last = first + TileCount(p) - 1
  BY <1>1, ZoomIds
<1>3. \A i \in 1..n : /\ lo[i] = rs[i].lo /\ hi[i] = rs[i].hi
                      /\ lo[i] \in Int /\ hi[i] \in Int
  <2>1. \A i \in 1..n : rs[i] \in [lo : Int, hi : Int]
    BY Members
  <2> QED  BY <2>1
<1> HIDE DEF lo, hi
<1>4. \A i \in 1..n : first <= lo[i]
  BY <1>1, FollowFrom
<1>5. \A i \in 1..n : lo[i] <= hi[i]
  BY <1>1 DEF Follow
<1>6. \A i \in 1..n : HasRange(plan, i, n)
  <2>1. SUFFICES ASSUME NEW i \in 1..n  PROVE HasRange(plan, i, n)
    OBVIOUS
  <2>2. {lo[i], hi[i]} \subseteq IdsOf(p)
    <3>1. first <= lo[i] /\ lo[i] <= hi[i] /\ hi[i] <= last
      BY <1>1, <1>4, <1>5
    <3>2. lo[i] \in Int /\ hi[i] \in Int
      BY <1>3
    <3>3. IdsOf(p) = first..last
      BY DEF IdsOf
    <3> HIDE DEF first, last
    <3> QED  BY <1>2, <3>1, <3>2, <3>3
  <2>3. GoodRange(p, lo[i], hi[i])
    BY <1>1, <1>5, <2>2 DEF GoodRange
  <2> QED  BY <1>3, <2>3 DEF HasRange
<1>7. SUFFICES ASSUME NEW z \in p..FinestZoom, NEW id \in IdsOf(z)
      PROVE  LET up == first + (id - FirstId(z)) \div TileCount(z - p)
             IN \E i \in 1..n :
                  /\ {k \in 1..n : id \in IdsAt(p, rs[k], z)} = {i}
                  /\ lo[i] <= up /\ up <= hi[i]
  BY <1>3, <1>6
<1> DEFINE d == id - FirstId(z)
           span == TileCount(z - p)
           q == d \div span
           up == first + q
<1>9. z \in Nat /\ p <= z /\ z <= FinestZoom
  BY <1>1
<1>10. /\ FirstId(z) \in Nat /\ TileCount(z) \in Nat \ {0} /\ id \in Int
       /\ d \in Nat /\ d <= TileCount(z) - 1
  <2>1. /\ FirstId(z) \in Nat /\ TileCount(z) \in Nat \ {0}
        /\ LastId(z) \in Nat /\ LastId(z) = FirstId(z) + TileCount(z) - 1
    BY <1>9, ZoomIds
  <2>2. id \in FirstId(z)..LastId(z)
    BY DEF IdsOf
  <2>3. id \in Int /\ FirstId(z) <= id /\ id <= LastId(z)
    BY <2>1, <2>2
  <2>4. d \in Nat /\ d <= TileCount(z) - 1
    BY <2>1, <2>3
  <2> QED  BY <2>1, <2>3, <2>4
<1>11. span \in Nat \ {0} /\ TileCount(z) = TileCount(p) * span
  BY <1>1, <1>9, TilesUnder
<1> HIDE DEF d, span
<1>13. q \in Nat /\ first <= up /\ up <= last
  <2> DEFINE t == TileCount(p)
  <2>1. t \in Nat \ {0} /\ d \in Nat /\ d <= t * span - 1
    BY <1>2, <1>10, <1>11
  <2>2. last = first + t - 1
    BY <1>2
  <2> HIDE DEF t
  <2>3. 0 * span <= d /\ d <= ((t - 1) + 1) * span - 1
    BY <1>11, <2>1
  <2>4. 0 \in Int /\ t - 1 \in Int
    BY <2>1
  <2>5. 0 <= q /\ q <= t - 1
    BY <1>11, <2>1, <2>3, <2>4, QuotientBetween
  <2>6. q \in Nat
    BY <1>11, <2>1, Quotient
  <2> HIDE DEF q, first, last
  <2> QED  BY <1>2, <2>1, <2>2, <2>5, <2>6
<1>14. \A k \in 1..n : id \in IdsAt(p, rs[k], z) <=> lo[k] <= up /\ up <= hi[k]
  <2>1. SUFFICES ASSUME NEW k \in 1..n
                 PROVE  id \in IdsAt(p, rs[k], z) <=> lo[k] <= up /\ up <= hi[k]
    OBVIOUS
  <2> DEFINE a == lo[k] - first
             b == hi[k] - first
  <2>2. a \in Int /\ b \in Int
    <3>1. lo[k] \in Int /\ hi[k] \in Int
      BY <1>3
    <3>2. first \in Int
      BY <1>2
    <3> HIDE DEF first
    <3> QED  BY <3>1, <3>2
  <2>3. ~(z < p \/ z > FinestZoom)
    BY <1>1, <1>9
  <2>4. IdsAt(p, rs[k], z)
          = FirstId(z) + a * span .. FirstId(z) + (b + 1) * span - 1
    BY <1>3, <2>3 DEF IdsAt, span
  <2>5. a * span \in Int /\ (b + 1) * span \in Int
    BY <1>11, <2>2
  <2>6. id = FirstId(z) + d
    BY <1>10 DEF d
  <2> HIDE DEF a, b
  <2>7. PICK sa \in Int, sb \in Int : sa = a * span /\ sb = (b + 1) * span
    BY <2>5
  <2>8. IdsAt(p, rs[k], z) = FirstId(z) + sa .. FirstId(z) + sb - 1
    BY <2>4, <2>7
  <2>9. id \in FirstId(z) + sa .. FirstId(z) + sb - 1 <=> sa <= d /\ d <= sb - 1
    <3>1. PICK e \in Int : e = FirstId(z)
      BY <1>10
    <3>2. d \in Int /\ id = e + d
      BY <1>10, <2>6, <3>1
    <3>3. id \in e + sa .. e + sb - 1 <=> sa <= d /\ d <= sb - 1
      BY <3>2
    <3> QED  BY <3>1, <3>3
  <2>10. sa <= d /\ d <= sb - 1 <=> a <= q /\ q <= b
    BY <1>10, <1>11, <2>2, <2>7, QuotientBetween
  <2> HIDE DEF q
  <2>11. a <= q /\ q <= b <=> lo[k] <= up /\ up <= hi[k]
    <3>1. lo[k] \in Int /\ hi[k] \in Int /\ first \in Nat /\ q \in Nat
      BY <1>2, <1>3, <1>13
    <3> HIDE DEF first
    <3>2. (lo[k] - first <= q /\ q <= hi[k] - first)
            <=> (lo[k] <= first + q /\ first + q <= hi[k])
      BY <3>1
    <3> QED  BY <3>2 DEF a, b
  <2> QED  BY <2>8, <2>9, <2>10, <2>11
<1> HIDE DEF q, first, last
<1>15. up \in Int
  BY <1>2, <1>13
<1>16. PICK i \in 1..n : {k \in 1..n : lo[k] <= up /\ up <= hi[k]} = {i}
  <2>1. Follow(n, lo, hi, first) /\ up \in Int /\ first <= up /\ up <= hi[n]
    BY <1>1, <1>13, <1>15
  <2> HIDE DEF up
  <2> QED  BY ONLY <2>1, FollowOnce
<1>17. {k \in 1..n : id \in IdsAt(p, rs[k], z)}
         = {k \in 1..n : lo[k] <= up /\ up <= hi[k]}
  BY <1>14
<1>18. lo[i] <= up /\ up <= hi[i]
  BY <1>16
<1> QED  BY <1>16, <1>17, <1>18 DEF up, q, d, span

\* The ranges cut, as an accepted plan.
LEMMA AcceptedOwns ==
  ASSUME ranges \in Seq([lo : Int, hi : Int, rows : Nat]), Structured(Plan)
  PROVE  \A z \in Pivot..FinestZoom : \A id \in IdsOf(z) :
      LET Owner == {i \in DOMAIN ranges :
                      /\ HasRange(Plan, i, Len(ranges))
                      /\ id \in IdsAt(Pivot, Plan.ranges[i], z)}
          up == FirstTile + (id - FirstId(z)) \div TileCount(z - Pivot)
      IN \E i \in Owner : /\ Owner = {i}
                          /\ ranges[i].lo <= up /\ up <= ranges[i].hi
<1> DEFINE n == Len(ranges)
<1>1. n \in Nat /\ DOMAIN ranges = 1..n
  BY RangeTypes
<1>2. /\ Len(Plan.ranges) = n /\ Plan.pivot = Pivot
      /\ \A i \in 1..n : /\ Plan.ranges[i].lo = ranges[i].lo
                         /\ Plan.ranges[i].hi = ranges[i].hi
      /\ Plan.ranges \in Seq([lo : Int, hi : Int])
  BY PlanRanges
<1> HIDE DEF n
<1>3. /\ \A i \in 1..n : HasRange(Plan, i, n)
      /\ \A z \in Pivot..FinestZoom : \A id \in IdsOf(z) :
           LET up == FirstTile + (id - FirstId(z)) \div TileCount(z - Pivot)
           IN \E i \in 1..n :
                /\ {k \in 1..n : id \in IdsAt(Pivot, Plan.ranges[k], z)} = {i}
                /\ Plan.ranges[i].lo <= up /\ up <= Plan.ranges[i].hi
  <2>1. /\ Plan.ranges \in Seq([lo : Int, hi : Int]) /\ Structured(Plan)
        /\ n = Len(Plan.ranges) /\ Pivot = Plan.pivot
    BY <1>2
  <2>2. /\ \A i \in 1..n : HasRange(Plan, i, n)
        /\ \A z \in Pivot..FinestZoom : \A id \in IdsOf(z) :
             LET up == FirstId(Pivot) + (id - FirstId(z)) \div TileCount(z - Pivot)
             IN \E i \in 1..n :
                  /\ {k \in 1..n : id \in IdsAt(Pivot, Plan.ranges[k], z)} = {i}
                  /\ Plan.ranges[i].lo <= up /\ up <= Plan.ranges[i].hi
    BY ONLY <2>1, PlanOwns
  <2> QED  BY <2>2 DEF FirstTile
<1>4. SUFFICES ASSUME NEW z \in Pivot..FinestZoom, NEW id \in IdsOf(z)
      PROVE  \E i \in 1..n :
        LET up == FirstTile + (id - FirstId(z)) \div TileCount(z - Pivot)
        IN /\ {k \in 1..n : /\ HasRange(Plan, k, n)
                            /\ id \in IdsAt(Pivot, Plan.ranges[k], z)} = {i}
           /\ ranges[i].lo <= up /\ up <= ranges[i].hi
  BY <1>1 DEF n
<1> DEFINE up == FirstTile + (id - FirstId(z)) \div TileCount(z - Pivot)
<1>5. PICK i \in 1..n :
        /\ {k \in 1..n : id \in IdsAt(Pivot, Plan.ranges[k], z)} = {i}
        /\ Plan.ranges[i].lo <= up /\ up <= Plan.ranges[i].hi
  BY <1>3
<1>6. {k \in 1..n : HasRange(Plan, k, n) /\ id \in IdsAt(Pivot, Plan.ranges[k], z)}
        = {k \in 1..n : id \in IdsAt(Pivot, Plan.ranges[k], z)}
  BY <1>3
<1> QED  BY <1>2, <1>5, <1>6

-----------------------------------------------------------------------------
(* Weights *)

\* What is used of a sum of zeros.
LEMMA SumOfZeros ==
  ASSUME NEW D, IsFiniteSet(D), NEW f, \A k \in D : f[k] = 0
  PROVE  SumFunctionOnSet(f, D) = 0
<1> DEFINE F == [s \in SUBSET D |-> 0]
<1>1. Sums(f, D, F)
  <2>1. ASSUME NEW s \in SUBSET D, s # {}
        PROVE  F[s] = f[Picked(s)] + F[s \ {Picked(s)}]
    <3>1. Picked(s) \in D
      BY <2>1 DEF Picked
    <3>2. f[Picked(s)] = 0 /\ F[s] = 0 /\ F[s \ {Picked(s)}] = 0
      BY <3>1
    <3> QED  BY <3>2
  <2> QED  BY <2>1 DEF Sums
<1>2. Summable(f, f, D)
  BY DEF Summable
<1>3. SumFunctionOnSet(f, D) = F[D]
  BY <1>1, <1>2, FoldSums
<1> QED  BY <1>3

LEMMA Weights ==
  ASSUME NEW w, IsFiniteSet(DOMAIN w), w \in [DOMAIN w -> Nat]
  PROVE  /\ \A s \in SUBSET DOMAIN w : SumFunctionOnSet(w, s) \in Nat
         /\ SumFunctionOnSet(w, {}) = 0
         /\ \A x \in DOMAIN w : SumFunctionOnSet(w, {x}) = w[x]
         /\ \A a, b \in SUBSET DOMAIN w : a \cap b = {} =>
              SumFunctionOnSet(w, a \cup b)
                = SumFunctionOnSet(w, a) + SumFunctionOnSet(w, b)
         /\ SumFunction(w) = SumFunctionOnSet(w, DOMAIN w)
<1>1. \A k \in DOMAIN w : w[k] \in Nat
  OBVIOUS
<1>2. SumFunction(w) = SumFunctionOnSet(w, DOMAIN w)
  BY DEF SumFunction
<1> DEFINE D == DOMAIN w
<1>3. IsFiniteSet(D) /\ Summable(w, w, D)
  BY <1>1 DEF Summable
<1> HIDE DEF D
<1>4. /\ \A s \in SUBSET D : SumFunctionOnSet(w, s) \in Nat
      /\ SumFunctionOnSet(w, {}) = 0
      /\ \A x \in D : SumFunctionOnSet(w, {x}) = w[x]
  BY <1>3, Summing
<1>5. ASSUME NEW a \in SUBSET D, NEW b \in SUBSET D, a \cap b = {}
      PROVE  SumFunctionOnSet(w, a \cup b) = SumFunctionOnSet(w, a) + SumFunctionOnSet(w, b)
  BY <1>3, <1>5, Summing
<1> QED  BY <1>2, <1>4, <1>5 DEF D

LEMMA WeightParts ==
  ASSUME NEW w, IsFiniteSet(DOMAIN w), w \in [DOMAIN w -> Nat],
         NEW a \in SUBSET DOMAIN w, NEW b \in SUBSET a
  PROVE  /\ SumFunctionOnSet(w, b) \in Nat /\ SumFunctionOnSet(w, a) \in Nat
         /\ SumFunctionOnSet(w, a \ b) \in Nat
         /\ SumFunctionOnSet(w, a)
              = SumFunctionOnSet(w, b) + SumFunctionOnSet(w, a \ b)
         /\ SumFunctionOnSet(w, b) <= SumFunctionOnSet(w, a)
<1>1. a \ b \in SUBSET DOMAIN w /\ b \in SUBSET DOMAIN w
      /\ b \cap (a \ b) = {} /\ b \cup (a \ b) = a
  OBVIOUS
<1>2. SumFunctionOnSet(w, b \cup (a \ b))
        = SumFunctionOnSet(w, b) + SumFunctionOnSet(w, a \ b)
  BY <1>1, Weights
<1>3. /\ SumFunctionOnSet(w, b) \in Nat /\ SumFunctionOnSet(w, a) \in Nat
      /\ SumFunctionOnSet(w, a \ b) \in Nat
  BY <1>1, Weights
<1>4. SumFunctionOnSet(w, a) = SumFunctionOnSet(w, b) + SumFunctionOnSet(w, a \ b)
  BY <1>1, <1>2
<1> QED  BY <1>3, <1>4

\* No weight is over the greatest.
LEMMA Heavy ==
  ASSUME NEW w, IsFiniteSet(DOMAIN w), w \in [DOMAIN w -> Nat]
  PROVE  /\ Max({0} \cup Range(w)) \in Nat
         /\ \A x \in DOMAIN w : w[x] <= Max({0} \cup Range(w))
         /\ SumFunction(w) \in Nat
<1> DEFINE S == {0} \cup Range(w)
           t == SumFunctionOnSet(w, DOMAIN w)
<1>1. SumFunction(w) = t
  BY DEF SumFunction
<1>2. t \in Nat
  BY Weights
<1>3. ASSUME NEW x \in DOMAIN w  PROVE w[x] <= t
  <2>1. {x} \in SUBSET DOMAIN w /\ DOMAIN w \in SUBSET DOMAIN w
    OBVIOUS
  <2>2. SumFunctionOnSet(w, {x}) <= t
    BY <2>1, WeightParts
  <2>3. SumFunctionOnSet(w, {x}) = w[x]
    BY Weights
  <2> QED  BY <2>2, <2>3
<1>4. S \in SUBSET Int /\ S # {} /\ S \in SUBSET Nat
  BY DEF Range
<1> HIDE DEF t
<1>5. \A y \in S : y <= t
  BY <1>2, <1>3 DEF Range
<1>6. \A x \in DOMAIN w : w[x] \in S
  BY DEF Range
<1> HIDE DEF S
<1>7. Max(S) \in S /\ \A y \in S : y <= Max(S)
  BY <1>2, <1>4, <1>5, Greatest
<1>8. Max(S) \in Nat /\ \A x \in DOMAIN w : w[x] <= Max(S)
  BY <1>4, <1>6, <1>7
<1> QED  BY <1>1, <1>2, <1>8 DEF S

-----------------------------------------------------------------------------
(* The cut *)

R == [lo : Int, hi : Int, rows : Nat]

LEMMA RowsAppend ==
  ASSUME NEW rs \in Seq(R), NEW r \in R
  PROVE  RowsIn(Append(rs, r)) = RowsIn(rs) + r.rows
<1> DEFINE n == Len(rs)
           more == Append(rs, r)
           f == [i \in DOMAIN rs |-> rs[i].rows]
           g == [i \in DOMAIN more |-> more[i].rows]
<1>1. /\ n \in Nat /\ DOMAIN rs = 1..n /\ \A i \in 1..n : rs[i] \in R
      /\ more \in Seq(R) /\ DOMAIN more = 1..(n + 1)
      /\ more[n + 1] = r /\ \A i \in 1..n : more[i] = rs[i]
  <2>1. n \in Nat /\ DOMAIN rs = 1..n /\ \A i \in 1..n : rs[i] \in R
    BY Members
  <2>2. more \in Seq(R) /\ Len(more) = n + 1
    OBVIOUS
  <2>3. DOMAIN more = 1..(n + 1)
    BY <2>2, Members
  <2>4. more[n + 1] = r
    BY <2>1
  <2>5. \A i \in 1..n : more[i] = rs[i]
    BY <2>1
  <2> QED  BY <2>1, <2>2, <2>3, <2>4, <2>5
<1>2. RowsIn(rs) = SumFunctionOnSet(f, 1..n) /\ RowsIn(more) = SumFunctionOnSet(g, 1..(n + 1))
  BY <1>1 DEF RowsIn, SumFunction
<1> HIDE DEF n, more
<1>3. \A i \in 1..n : f[i] = rs[i].rows /\ g[i] = rs[i].rows
  <2>1. \A i \in 1..n : i \in 1..(n + 1)
    BY <1>1
  <2> QED  BY <1>1, <2>1
<1>4. g[n + 1] = r.rows
  <2>1. n + 1 \in 1..(n + 1)
    BY <1>1
  <2> QED  BY <1>1, <2>1
<1>5. \A i \in 1..n : rs[i].rows \in Nat
  BY <1>1 DEF R
<1>6. r.rows \in Nat
  BY DEF R
<1> HIDE DEF f, g
<1>7. \A i \in 1..(n + 1) : g[i] \in Nat
  <2>1. \A i \in 1..(n + 1) : i \in 1..n \/ i = n + 1
    BY <1>1
  <2> QED  BY <1>3, <1>4, <1>5, <1>6, <2>1
<1>8. IsFiniteSet(1..n)
  BY <1>1, FS_Interval
<1>9. PICK m \in Nat : m = n + 1
  BY <1>1
<1>10. m \in 1..m /\ m - 1 = n
  BY <1>1, <1>9
<1>11. SumFunctionOnSet(g, 1..m) = SumFunctionOnSet(g, 1..(m - 1)) + g[m]
  BY <1>7, <1>9, <1>10, PrefixSums
<1>12. \A i \in 1..n : f[i] = g[i] /\ f[i] \in Nat
  BY <1>3, <1>5
<1>13. SumFunctionOnSet(g, 1..n) = SumFunctionOnSet(f, 1..n)
  BY <1>8, <1>12, SameSum
<1>14. RowsIn(more) = RowsIn(rs) + r.rows
  BY <1>2, <1>4, <1>9, <1>10, <1>11, <1>13
<1> QED  BY <1>14 DEF more

LEMMA LaidAppend ==
  ASSUME NEW rs \in Seq(R), NEW c \in Int, Laid(rs, c),
         NEW r \in R, r.lo = c, c <= r.hi
  PROVE  Laid(Append(rs, r), r.hi + 1)
<1> DEFINE n == Len(rs)
           more == Append(rs, r)
<1>1. /\ n \in Nat /\ DOMAIN rs = 1..n
      /\ more \in Seq(R) /\ Len(more) = n + 1 /\ DOMAIN more = 1..(n + 1)
      /\ more[n + 1] = r /\ \A i \in 1..n : more[i] = rs[i]
      /\ (rs = <<>> <=> n = 0) /\ more # <<>>
  <2>1. n \in Nat /\ DOMAIN rs = 1..n
    BY Members
  <2>2. more \in Seq(R) /\ Len(more) = n + 1
    OBVIOUS
  <2>3. DOMAIN more = 1..(n + 1)
    BY <2>2, Members
  <2>4. more[n + 1] = r /\ \A i \in 1..n : more[i] = rs[i]
    BY <2>1
  <2>5. (rs = <<>> <=> n = 0) /\ more # <<>>
    <3>1. rs = <<>> <=> Len(rs) = 0
      OBVIOUS
    <3>2. Len(more) # 0
      BY <2>1, <2>2
    <3> QED  BY <3>1, <3>2
  <2> QED  BY <2>1, <2>2, <2>3, <2>4, <2>5
<1>2. /\ \A i \in 1..n : /\ rs[i].lo = IF i = 1 THEN FirstTile
                                      ELSE rs[i - 1].hi + 1
                         /\ rs[i].lo <= rs[i].hi
      /\ c = IF n = 0 THEN FirstTile ELSE rs[n].hi + 1
  BY <1>1 DEF Laid
<1> HIDE DEF n, more
<1>3. ASSUME NEW i \in 1..(n + 1)
      PROVE  /\ more[i].lo = IF i = 1 THEN FirstTile ELSE more[i - 1].hi + 1
             /\ more[i].lo <= more[i].hi
  <2>1. CASE i \in 1..n
    <3>1. i # 1 => i - 1 \in 1..n
      BY <1>1, <2>1
    <3>2. more[i] = rs[i] /\ (i # 1 => more[i - 1] = rs[i - 1])
      BY <1>1, <2>1, <3>1
    <3> QED  BY <1>2, <2>1, <3>2
  <2>2. CASE i = n + 1
    <3>1. more[i].lo = c /\ more[i].lo <= more[i].hi
      BY <1>1, <2>2
    <3>2. CASE n = 0
      BY <1>2, <2>2, <3>1, <3>2
    <3>3. CASE n # 0
      <4>1. n \in 1..n /\ i - 1 = n /\ i # 1
        BY <1>1, <2>2, <3>3
      <4>2. more[i - 1].hi + 1 = c
        BY <1>1, <1>2, <3>3, <4>1
      <4> QED  BY <3>1, <4>1, <4>2
    <3> QED  BY <3>2, <3>3
  <2>3. i \in 1..n \/ i = n + 1
    BY <1>1
  <2> QED  BY <2>1, <2>2, <2>3
<1>4. Laid(more, r.hi + 1)
  BY <1>1, <1>3 DEF Laid
<1> QED  BY <1>4 DEF more

\* What is pending is finite, and no sum over it is out of type.
LEMMA Finite ==
  ASSUME Typed
  PROVE  /\ IsFiniteSet(DOMAIN weight) /\ weight \in [DOMAIN weight -> Nat]
         /\ DOMAIN weight \subseteq Nat /\ \A id \in DOMAIN weight : id <= LastTile
         /\ \A id \in DOMAIN weight : FirstTile <= id
<1>1. DOMAIN weight \subseteq Ids /\ weight \in [DOMAIN weight -> Nat]
  BY DEF Typed
<1>2. IsFiniteSet(DOMAIN weight)
  BY <1>1, PivotIds, FS_Subset
<1>3. \A id \in Ids : id \in Nat /\ FirstTile <= id /\ id <= LastTile
  BY PivotIds
<1> QED  BY <1>1, <1>2, <1>3

\* A range takes the weighted tiles it covers.
LEMMA TakesItsTiles ==
  ASSUME Typed, pc = "cut", Ahead, Remaining > 1
  PROVE  /\ Takes \in SUBSET pending
         /\ LatestEnd \in Int /\ Ending(Takes) \in Int
         /\ cursor <= Ending(Takes) /\ Ending(Takes) <= LatestEnd
         /\ Takes = {id \in DOMAIN weight : cursor <= id /\ id <= Ending(Takes)}
         /\ pending \ Takes = {id \in DOMAIN weight : Ending(Takes) + 1 <= id}
         /\ Takes # {} => /\ Max(Takes) \in Takes
                          /\ \A id \in Takes : id <= Max(Takes)
<1> DEFINE T == Takes
<1>1. /\ shards \in Nat /\ Len(ranges) \in Nat /\ cursor \in Int
      /\ LastTile \in Nat /\ Remaining \in Int /\ LatestEnd \in Int
  <2>1. shards \in Nat /\ cursor \in Int /\ LastTile \in Nat
    BY PivotIds DEF Typed
  <2>2. Len(ranges) \in Nat
    BY RangeTypes DEF Typed
  <2> QED  BY <2>1, <2>2 DEF Remaining, LatestEnd
<1>2. /\ pending = {id \in DOMAIN weight : cursor <= id}
      /\ cursor <= LatestEnd
  BY DEF Ahead
<1>3. DOMAIN weight \subseteq Nat
  BY Finite
<1>4. T \in SUBSET pending /\ \A id \in T : id \in Nat /\ id <= LatestEnd /\ cursor <= id
  BY <1>2, <1>3 DEF Takes
<1>5. \A id \in pending : id \in T <=>
         id <= LatestEnd /\ \A k \in pending : k < id => ~Reaches(k)
  BY DEF Takes
<1> HIDE DEF T
<1>6. CASE T = {}
  <2>1. Ending(T) = cursor
    BY <1>6 DEF Ending
  <2>2. ASSUME NEW id \in pending, id <= LatestEnd  PROVE FALSE
    <3> DEFINE Low == {k \in pending : k <= LatestEnd}
    <3>1. Low \in SUBSET Nat /\ Low # {}
      BY <1>2, <1>3, <2>2
    <3>2. PICK m \in Low : \A k \in Low : m <= k
      BY <3>1, Smallest
    <3>3. \A k \in pending : k \in Nat
      BY <1>2, <1>3
    <3>4. m \in pending /\ m <= LatestEnd /\ m \in Nat
      BY <3>2, <3>3
    <3>5. ASSUME NEW k \in pending, k < m  PROVE FALSE
      <4>1. k \in Nat /\ k <= LatestEnd
        BY <1>1, <3>3, <3>4, <3>5
      <4>2. m <= k
        BY <3>2, <4>1
      <4> QED  BY <3>4, <3>5, <4>1, <4>2
    <3>6. m \in T
      BY <1>5, <3>4, <3>5
    <3> QED  BY <1>6, <3>6
  <2>3. \A id \in DOMAIN weight : ~(cursor <= id /\ id <= cursor)
    <3>1. SUFFICES ASSUME NEW id \in DOMAIN weight, cursor <= id, id <= cursor
                   PROVE  FALSE
      OBVIOUS
    <3>2. id \in pending /\ id \in Nat
      BY <1>2, <1>3, <3>1
    <3>3. id <= LatestEnd
      BY <1>1, <1>2, <3>1, <3>2
    <3> QED  BY <2>2, <3>2, <3>3
  <2>4. T = {id \in DOMAIN weight : cursor <= id /\ id <= cursor}
    BY <1>6, <2>3
  <2>5. pending \ T = {id \in DOMAIN weight : cursor + 1 <= id}
    <3>1. \A id \in DOMAIN weight : cursor <= id <=> cursor + 1 <= id
      BY <1>1, <1>3, <2>3
    <3> QED  BY <1>2, <1>6, <3>1
  <2> QED  BY <1>1, <1>2, <1>4, <1>6, <2>1, <2>4, <2>5 DEF T
<1>7. CASE T # {}
  <2> DEFINE t == Max(T)
  <2>1. t \in T /\ \A id \in T : id <= t
    <3>1. T \in SUBSET Int
      BY <1>4
    <3> QED  BY <1>1, <1>4, <1>7, <3>1, Greatest
  <2> HIDE DEF t
  <2>2. t \in Nat /\ cursor <= t /\ t <= LatestEnd /\ t \in pending
    BY <1>4, <2>1
  <2>3. Min({t, LatestEnd}) = t
    BY <1>1, <2>2 DEF Min
  <2>4. Max({cursor, t}) = t
    BY <1>1, <2>2 DEF Max
  <2>5. Ending(T) = t
    BY <1>7, <2>3, <2>4 DEF Ending, t
  <2>6. ASSUME NEW id \in DOMAIN weight, cursor <= id, id <= t  PROVE id \in T
    <3>1. id \in pending /\ id \in Nat /\ id <= LatestEnd
      BY <1>1, <1>2, <1>3, <2>2, <2>6
    <3>2. ASSUME NEW k \in pending, k < id  PROVE ~Reaches(k)
      <4>1. k \in Nat
        BY <1>2, <1>3
      <4>2. k < t
        BY <2>2, <2>6, <3>1, <3>2, <4>1
      <4> QED  BY <1>5, <2>1, <2>2, <4>2
    <3> QED  BY <1>5, <3>1, <3>2
  <2>7. T = {id \in DOMAIN weight : cursor <= id /\ id <= t}
    BY <1>2, <1>4, <2>1, <2>6
  <2>8. pending \ T = {id \in DOMAIN weight : t + 1 <= id}
    <3>1. \A id \in DOMAIN weight : cursor <= id /\ ~(id <= t) <=> t + 1 <= id
      BY <1>1, <1>3, <2>2
    <3> QED  BY <1>2, <2>7, <3>1
  <2>9. Max(T) = t
    BY DEF t
  <2>10. T = {id \in DOMAIN weight : cursor <= id /\ id <= Ending(T)}
    BY <2>5, <2>7
  <2>11. pending \ T = {id \in DOMAIN weight : Ending(T) + 1 <= id}
    BY <2>5, <2>8
  <2>12. Max(T) \in T /\ \A id \in T : id <= Max(T)
    BY <2>1, <2>9
  <2>13. /\ Ending(T) \in Int /\ cursor <= Ending(T)
         /\ Ending(T) <= LatestEnd
    BY <2>2, <2>5
  <2> QED  BY <1>1, <1>4, <2>10, <2>11, <2>12, <2>13 DEF T
<1> QED  BY <1>6, <1>7

\* Its weight is within its share, but for the heaviest tile.
LEMMA TakesItsShare ==
  ASSUME Typed, pc = "cut", Ahead, Remaining > 1
  PROVE  WeightOf(Takes) * shards
           <= SumFunction(weight) + shards * Max({0} \cup Range(weight))
<1> DEFINE T == Takes
           W(s) == SumFunctionOnSet(weight, s)
           heaviest == Max({0} \cup Range(weight))
           total == SumFunction(weight)
<1>1. /\ IsFiniteSet(DOMAIN weight) /\ weight \in [DOMAIN weight -> Nat]
      /\ DOMAIN weight \subseteq Nat
  BY Finite
<1>2. /\ T \in SUBSET pending /\ LatestEnd \in Int
      /\ T = {id \in DOMAIN weight : cursor <= id /\ id <= Ending(T)}
      /\ T # {} => Max(T) \in T /\ \A id \in T : id <= Max(T)
      /\ Ending(T) \in Int /\ Ending(T) <= LatestEnd
  BY TakesItsTiles
<1>3. T \in SUBSET DOMAIN weight
  BY <1>2
<1>4. /\ heaviest \in Nat /\ total \in Nat
      /\ \A x \in DOMAIN weight : weight[x] <= heaviest
  BY <1>1, Heavy
<1>5. /\ shards \in Nat /\ taken \in Nat /\ Len(ranges) \in Nat
  <2>1. Len(ranges) \in Nat
    BY RangeTypes DEF Typed
  <2>2. shards \in Nat /\ taken \in Nat
    BY DEF Typed
  <2> QED  BY <2>1, <2>2
<1>6. \A id \in T : \A k \in pending : k < id => ~Reaches(k)
  BY DEF Takes
<1>7. /\ pending = {id \in DOMAIN weight : cursor <= id}
      /\ \/ taken * shards >= Total * Len(ranges)
         \/ \A id \in pending : LatestEnd <= id
  BY DEF Ahead
<1>8. Total = total
  BY DEF Total
<1>9. WeightOf(T) = W(T)
  BY DEF WeightOf
<1> HIDE DEF T, heaviest, total
<1>10. SUFFICES W(T) * shards <= total + shards * heaviest
  BY <1>9 DEF T, heaviest, total
<1>11. \A s \in SUBSET DOMAIN weight : W(s) \in Nat
  BY <1>1, Weights
<1>12. ASSUME NEW x \in Nat, x <= heaviest
       PROVE  x * shards <= total + shards * heaviest
  <2>1. heaviest - x \in Nat /\ heaviest = x + (heaviest - x)
    BY <1>4, <1>12
  <2> DEFINE y == heaviest - x
  <2>2. shards * heaviest = x * shards + y * shards
    BY <1>4, <1>5, <2>1
  <2>3. x * shards \in Nat /\ y * shards \in Nat
    BY <1>5, <2>1
  <2> HIDE DEF y
  <2> QED  BY <1>4, <2>2, <2>3
<1>13. CASE T = {}
  <2>1. W(T) = 0
    BY <1>1, <1>13, Weights
  <2>2. 0 \in Nat /\ 0 <= heaviest
    BY <1>4
  <2> QED  BY <1>12, <2>1, <2>2
<1>14. CASE T # {}
  <2> DEFINE t == Max(T)
             U == T \ {t}
  <2>1. t \in T /\ t \in DOMAIN weight /\ \A id \in T : id <= t
    BY <1>2, <1>3, <1>14
  <2> HIDE DEF t
  <2>2. weight[t] \in Nat /\ weight[t] <= heaviest
    BY <1>1, <1>4, <2>1
  <2>3. W(T) = W({t}) + W(U) /\ W(U) \in Nat /\ W({t}) = weight[t]
    <3>1. {t} \in SUBSET T
      BY <2>1
    <3>2. W(T) = W({t}) + W(T \ {t}) /\ W(T \ {t}) \in Nat
      BY <1>1, <1>3, <3>1, WeightParts
    <3>3. W({t}) = weight[t]
      BY <1>1, <2>1, Weights
    <3> QED  BY <3>2, <3>3
  <2>4. CASE U = {}
    <3>1. W(U) = 0
      BY <1>1, <2>4, Weights
    <3>2. W(T) = weight[t]
      BY <2>2, <2>3, <3>1
    <3> QED  BY <1>12, <2>2, <3>2
  <2>5. CASE U # {}
    <3> DEFINE u == Max(U)
    <3>1. u \in U /\ \A id \in U : id <= u
      <4>1. U \in SUBSET Int /\ t \in Int /\ \A id \in U : id <= t
        BY <1>1, <1>3, <2>1
      <4> QED  BY <2>5, <4>1, Greatest
    <3> HIDE DEF u
    <3>2. u \in T /\ u # t /\ u \in Nat /\ t \in Nat /\ u < t /\ u \in pending
      <4>1. u \in T /\ u # t /\ u <= t
        BY <2>1, <3>1
      <4>2. u \in Nat /\ t \in Nat
        BY <1>1, <1>3, <2>1, <4>1
      <4>3. u \in pending
        BY <1>2, <4>1
      <4> QED  BY <4>1, <4>2, <4>3
    <3>3. ~(\A id \in pending : LatestEnd <= id)
      <4>1. t <= LatestEnd
        BY <1>2, <2>1, <3>2
      <4>2. ~(LatestEnd <= u)
        BY <1>2, <3>2, <4>1
      <4> QED  BY <3>2, <4>2
    <3>4. taken * shards >= total * Len(ranges)
      BY <1>7, <1>8, <3>3
    <3>5. {k \in pending : k <= u} = U
      <4>1. ASSUME NEW k \in pending, k <= u  PROVE k \in U
        <5>1. k \in DOMAIN weight /\ cursor <= k /\ k \in Nat
          BY <1>1, <1>7
        <5>2. k # t
          BY <3>2, <4>1, <5>1
        <5>3. u <= Ending(T) /\ k <= Ending(T)
          BY <1>2, <3>2, <4>1, <5>1
        <5> QED  BY <1>2, <5>1, <5>2, <5>3
      <4> QED  BY <1>2, <3>1, <4>1
    <3>6. ~Reaches(u)
      BY <1>6, <2>1, <3>2
    <3>7. ~((taken + W(U)) * shards >= total * (Len(ranges) + 1))
      BY <1>8, <3>5, <3>6 DEF Reaches, WeightOf
    <3>8. PICK a \in Nat, b \in Nat, c \in Nat, d \in Nat :
             a = taken * shards /\ b = W(U) * shards
             /\ c = total * Len(ranges) /\ d = weight[t] * shards
      <4>1. \A x, y \in Nat : x * y \in Nat
        OBVIOUS
      <4>2. taken * shards \in Nat /\ total * Len(ranges) \in Nat
        BY <1>4, <1>5, <4>1
      <4>3. W(U) * shards \in Nat /\ weight[t] * shards \in Nat
        BY <1>5, <2>2, <2>3, <4>1
      <4> QED  BY <4>2, <4>3
    <3>9. PICK x \in Nat : x = W(U)
      BY <2>3
    <3>10. (taken + x) * shards = a + x * shards
      BY <1>5, <3>8, <3>9
    <3>11. total * (Len(ranges) + 1) = c + total
      BY <1>4, <1>5, <3>8
    <3>12. ~(a + b >= c + total)
      BY <3>7, <3>8, <3>9, <3>10, <3>11
    <3>13. W(T) * shards = d + b
      <4>1. (weight[t] + x) * shards = weight[t] * shards + x * shards
        BY <1>5, <2>2, <3>9
      <4> QED  BY <2>3, <3>8, <3>9, <4>1
    <3>14. PICK e \in Nat : e = shards * heaviest
      BY <1>4, <1>5
    <3>15. d <= e
      <4>1. heaviest - weight[t] \in Nat
        BY <1>4, <2>2
      <4> DEFINE y == heaviest - weight[t]
      <4>2. heaviest = weight[t] + y
        BY <1>4, <2>2
      <4>3. shards * (weight[t] + y) = weight[t] * shards + y * shards
        BY <1>5, <2>2, <4>1
      <4>4. y * shards \in Nat
        BY <1>5, <4>1
      <4> HIDE DEF y
      <4> QED  BY <3>8, <3>14, <4>2, <4>3, <4>4
    <3>16. a >= c
      BY <3>4, <3>8
    <3> QED  BY <1>4, <3>12, <3>13, <3>14, <3>15, <3>16
  <2> QED  BY <2>4, <2>5
<1> QED  BY <1>13, <1>14

\* After it the ranges hold their share, or what is left is in the tiles that
\* the ranges to come need.
LEMMA TakesEnough ==
  ASSUME Typed, pc = "cut", Ahead, Remaining > 1
  PROVE  \/ (taken + WeightOf(Takes)) * shards >= Total * (Len(ranges) + 1)
         \/ \A id \in pending \ Takes : LatestEnd + 1 <= id
<1> DEFINE T == Takes
<1>1. /\ IsFiniteSet(DOMAIN weight) /\ weight \in [DOMAIN weight -> Nat]
      /\ DOMAIN weight \subseteq Nat
  BY Finite
<1>2. T \in SUBSET pending /\ LatestEnd \in Int /\ pending \subseteq DOMAIN weight
  BY TakesItsTiles DEF Typed
<1>3. \A id \in pending : id \in T <=>
         id <= LatestEnd /\ \A k \in pending : k < id => ~Reaches(k)
  BY DEF Takes
<1> HIDE DEF T
<1>4. SUFFICES ASSUME NEW id \in pending \ T, ~(LatestEnd + 1 <= id)
               PROVE  (taken + WeightOf(T)) * shards >= Total * (Len(ranges) + 1)
  BY DEF T
<1>5. id \in Nat /\ id <= LatestEnd
  BY <1>1, <1>2, <1>4
<1> DEFINE Early == {k \in pending : k < id /\ Reaches(k)}
<1>6. Early # {} /\ Early \in SUBSET Nat
  BY <1>1, <1>2, <1>3, <1>4, <1>5
<1>7. PICK m \in Early : \A k \in Early : m <= k
  BY <1>6, Smallest
<1>8. m \in pending /\ m \in Nat /\ m < id /\ Reaches(m)
  BY <1>6, <1>7
<1> DEFINE Low == {k \in pending : k <= m}
<1>9. Low \in SUBSET T
  <2>1. SUFFICES ASSUME NEW k \in pending, k <= m  PROVE k \in T
    OBVIOUS
  <2>2. k \in Nat /\ k <= LatestEnd
    BY <1>1, <1>2, <1>5, <1>8, <2>1
  <2>3. ASSUME NEW j \in pending, j < k  PROVE ~Reaches(j)
    <3>1. j \in Nat
      BY <1>1, <1>2
    <3>2. j < id /\ ~(m <= j)
      BY <1>5, <1>8, <2>1, <2>2, <2>3, <3>1
    <3> QED  BY <1>7, <3>2
  <2> QED  BY <1>3, <2>2, <2>3
<1>10. (taken + WeightOf(Low)) * shards >= Total * (Len(ranges) + 1)
  BY <1>8 DEF Reaches
<1> HIDE DEF Low
<1>11. /\ WeightOf(Low) \in Nat /\ WeightOf(T) \in Nat
       /\ WeightOf(Low) <= WeightOf(T)
  <2>1. T \in SUBSET DOMAIN weight
    BY <1>2
  <2> QED  BY <1>1, <1>9, <2>1, WeightParts DEF WeightOf
<1>12. taken \in Nat /\ shards \in Nat
  BY DEF Typed
<1>13. PICK x \in Nat, y \in Nat : x = WeightOf(Low) /\ y = WeightOf(T) /\ x <= y
  BY <1>11
<1>14. (taken + x) * shards <= (taken + y) * shards
  <2>1. y - x \in Nat /\ (y - x) * shards \in Nat
    BY <1>12, <1>13
  <2>2. (taken + y) * shards = (taken + x) * shards + (y - x) * shards
    BY <1>12, <1>13
  <2>3. (taken + x) * shards \in Nat
    BY <1>12, <1>13
  <2> QED  BY <2>1, <2>2, <2>3
<1>15. Total \in Nat
  BY <1>1, Heavy DEF Total
<1>16. Len(ranges) \in Nat
  BY RangeTypes DEF Typed
<1>17. PICK p \in Nat, q \in Nat, r \in Nat :
          /\ p = (taken + x) * shards /\ q = (taken + y) * shards
          /\ r = Total * (Len(ranges) + 1)
  BY <1>12, <1>13, <1>15, <1>16
<1>18. p <= q /\ p >= r
  BY <1>10, <1>13, <1>14, <1>17
<1> QED  BY <1>13, <1>17, <1>18

-----------------------------------------------------------------------------
(* Each step keeps the invariant *)

LEMMA InitCuts == CutInit => IInv
<1> SUFFICES ASSUME CutInit  PROVE IInv
  OBVIOUS
<1>1. groups \in Seq([rows : Nat, tiles : SUBSET Ids])
  BY CutAssumption DEF CutInit, Ids
<1>2. /\ shards \in 1..TileCount(Pivot) /\ pc = "weigh" /\ weight = <<>>
      /\ pending = {} /\ taken = 0 /\ cursor = FirstTile /\ ranges = <<>>
  BY DEF CutInit
<1>3. DOMAIN weight = {} /\ weight \in [DOMAIN weight -> Nat]
  BY <1>2
<1>4. cursor \in FirstTile..(LastTile + 1)
  BY <1>2, PivotIds
<1>5. ranges \in Seq([lo : Int, hi : Int, rows : Nat]) /\ Len(ranges) = 0
  BY <1>2
<1>6. Len(ranges) <= shards
  BY <1>2, <1>5, PivotIds
<1>7. Typed
  BY <1>1, <1>2, <1>3, <1>4, <1>5, <1>6 DEF Typed
<1> QED  BY <1>2, <1>7 DEF IInv, Unweighed, Ordered, Estimated, Counted, Ahead,
                           Closed, Accepted

\* No sum over the rows of the groups is out of type.
LEMMA RowsOfGroups ==
  ASSUME Typed, NEW s \in SUBSET DOMAIN groups
  PROVE  RowsOf(s) \in Nat
<1> DEFINE D == DOMAIN groups
           f == [g \in DOMAIN groups |-> groups[g].rows]
<1>1. /\ Len(groups) \in Nat /\ DOMAIN groups = 1..Len(groups)
      /\ \A g \in 1..Len(groups) : groups[g] \in [rows : Nat, tiles : SUBSET Ids]
  BY Members DEF Typed
<1>2. IsFiniteSet(D) /\ Summable(f, f, D)
  <2>1. IsFiniteSet(D)
    BY <1>1, FS_Interval
  <2>2. \A g \in D : f[g] \in Nat
    BY <1>1
  <2> QED  BY <2>1, <2>2 DEF Summable
<1>3. RowsOf(s) = SumFunctionOnSet(f, s)
  BY DEF RowsOf
<1>4. s \in SUBSET D
  OBVIOUS
<1> HIDE DEF D, f
<1>5. SumFunctionOnSet(f, s) \in Nat
  BY <1>2, <1>4, Summing
<1> QED  BY <1>3, <1>5

LEMMA Shares ==
  ASSUME NEW n \in Nat, NEW s, s \in SUBSET Ids, s # {}
  PROVE  (n * Scale) \div Cardinality(s) \in Nat
<1>1. IsFiniteSet(s)
  BY PivotIds, FS_Subset
<1>2. Cardinality(s) \in Nat \ {0}
  BY <1>1, FS_CardinalityType, FS_EmptySet
<1>3. n * Scale \in Nat
  BY ScaleAssumption
<1> QED  BY <1>2, <1>3, Quotient

LEMMA WeighKeeps ==
  ASSUME IInv, Weigh
  PROVE  IInv'
<1> DEFINE PerTile(n, tiles) == (n * Scale) \div Cardinality(tiles)
           Spread == IF HeldBack > 0 THEN Extent ELSE {}
           Touched == Spread \cup UNION {groups[g].tiles : g \in Placed}
           Share(id) == [g \in Placed |->
              IF id \in groups[g].tiles
              THEN PerTile(groups[g].rows, groups[g].tiles) ELSE 0]
           Rest(id) == IF id \in Spread THEN PerTile(HeldBack, Extent) ELSE 0
<1>1. /\ pc = "weigh" /\ pc' = "cut"
      /\ weight' = [id \in Touched |-> SumFunction(Share(id)) + Rest(id)]
      /\ pending' = DOMAIN weight'
      /\ groups' = groups /\ shards' = shards /\ taken' = taken
      /\ cursor' = cursor /\ ranges' = ranges
  BY DEF Weigh
<1>2. /\ Typed /\ taken = 0 /\ cursor = FirstTile /\ ranges = <<>>
  BY <1>1 DEF IInv, Unweighed
<1>3. /\ Len(groups) \in Nat /\ DOMAIN groups = 1..Len(groups)
      /\ \A g \in 1..Len(groups) : groups[g] \in [rows : Nat, tiles : SUBSET Ids]
  BY <1>2, Members DEF Typed
<1>4. /\ Placed \in SUBSET DOMAIN groups /\ IsFiniteSet(Placed)
      /\ \A g \in Placed : groups[g].rows \in Nat /\ groups[g].tiles \in SUBSET Ids
  <2>1. Placed \in SUBSET DOMAIN groups
    BY DEF Placed, Covering
  <2>2. IsFiniteSet(DOMAIN groups)
    BY <1>3, FS_Interval
  <2>3. IsFiniteSet(Placed)
    BY <2>1, <2>2, FS_Subset
  <2> QED  BY <1>3, <2>1, <2>3
<1>5. HeldBack \in Nat
  <2>1. DOMAIN groups \ Placed \in SUBSET DOMAIN groups
    OBVIOUS
  <2> QED  BY <1>2, <2>1, RowsOfGroups DEF HeldBack
<1>6. Extent \in SUBSET Ids
  BY DEF Extent, IdsIn, Ids
<1>7. Touched \in SUBSET Ids
  BY <1>4, <1>6
<1>8. ASSUME NEW id \in Touched  PROVE SumFunction(Share(id)) + Rest(id) \in Nat
  <2> DEFINE f == Share(id)
  <2>1. \A g \in Placed : f[g] \in Nat
    <3>1. SUFFICES ASSUME NEW g \in Placed, id \in groups[g].tiles
                   PROVE  PerTile(groups[g].rows, groups[g].tiles) \in Nat
      OBVIOUS
    <3>2. /\ groups[g].rows \in Nat /\ groups[g].tiles \in SUBSET Ids
          /\ groups[g].tiles # {}
      BY <1>4, <3>1
    <3> QED  BY <3>2, Shares
  <2>2. DOMAIN f = Placed
    OBVIOUS
  <2> HIDE DEF f
  <2>3. Summable(f, f, Placed) /\ Placed \in SUBSET Placed
    BY <2>1 DEF Summable
  <2>4. SumFunctionOnSet(f, Placed) \in Nat
    BY <1>4, <2>3, Summing
  <2>5. SumFunction(f) \in Nat
    BY <2>2, <2>4 DEF SumFunction
  <2>6. Rest(id) \in Nat
    <3>1. SUFFICES ASSUME id \in Spread  PROVE PerTile(HeldBack, Extent) \in Nat
      OBVIOUS
    <3>2. Extent # {}
      BY <3>1
    <3> QED  BY <1>5, <1>6, <3>2, Shares
  <2> HIDE DEF Rest
  <2>7. SumFunction(f) + Rest(id) \in Nat
    BY <2>5, <2>6
  <2> QED  BY <2>7 DEF f
<1>9. DOMAIN weight' \subseteq Ids /\ weight' \in [DOMAIN weight' -> Nat]
  <2> HIDE DEF Touched, Share, Rest
  <2>1. DOMAIN weight' = Touched
    BY <1>1
  <2>2. weight' \in [Touched -> Nat]
    BY <1>1, <1>8
  <2> QED  BY <1>7, <2>1, <2>2
<1> HIDE DEF Touched, Share, Rest
<1>10. PICK v : v = weight'
  OBVIOUS
<1>11. IsFiniteSet(DOMAIN v) /\ v \in [DOMAIN v -> Nat] /\ DOMAIN v \subseteq Ids
  <2>1. DOMAIN v \subseteq Ids /\ v \in [DOMAIN v -> Nat]
    BY <1>9, <1>10
  <2> QED  BY <2>1, PivotIds, FS_Subset
<1>12. SumFunction(v) \in Nat /\ SumFunctionOnSet(v, DOMAIN v) = SumFunction(v)
  BY <1>11, Heavy DEF SumFunction
<1>13. Typed'
  <2>1. pending' \subseteq DOMAIN weight'
    BY <1>1
  <2> QED  BY <1>1, <1>2, <1>9, <2>1 DEF Typed
<1>14. Laid(<<>>, FirstTile)
  BY DEF Laid
<1>15. RowsIn(<<>>) = 0
  <2> DEFINE f == [i \in DOMAIN <<>> |-> (<<>>)[i].rows]
  <2>1. DOMAIN f = {}
    OBVIOUS
  <2>2. IsFiniteSet({}) /\ \A k \in {} : f[k] = 0
    BY FS_EmptySet
  <2>3. RowsIn(<<>>) = SumFunction(f)
    BY DEF RowsIn
  <2> HIDE DEF f
  <2>4. SumFunctionOnSet(f, {}) = 0
    BY <2>2, SumOfZeros
  <2> QED  BY <2>1, <2>3, <2>4 DEF SumFunction
<1>16. Ordered' /\ Estimated' /\ Unweighed' /\ Closed' /\ Accepted'
  BY <1>1, <1>2, <1>14 DEF Ordered, Estimated, Unweighed, Closed, Accepted
<1>17. Counted'
  <2>1. SumFunctionOnSet(weight', pending') = SumFunction(weight')
    BY <1>1, <1>10, <1>12
  <2>2. 0 + SumFunction(v) = SumFunction(v)
    BY <1>12
  <2>3. taken' + SumFunctionOnSet(weight', pending') = SumFunction(weight')
    BY <1>1, <1>2, <1>10, <2>1, <2>2
  <2>4. RowsIn(ranges') = taken'
    BY <1>1, <1>2, <1>15
  <2> QED  BY <2>3, <2>4 DEF Counted, WeightOf, Total
<1>18. Ahead'
  <2>1. pending' = {id \in DOMAIN weight' : cursor' <= id}
    <3>1. \A id \in DOMAIN v : FirstTile <= id
      BY <1>11, PivotIds
    <3> QED  BY <1>1, <1>2, <1>10, <3>1
  <2>2. shards \in 1..TileCount(Pivot)
    BY <1>2 DEF Typed
  <2>3. Len(<<>>) = 0
    OBVIOUS
  <2>4. /\ shards - 0 >= 1 /\ FirstTile <= LastTile - ((shards - 0) - 1)
    BY <2>2, PivotIds
  <2>5. 0 * shards >= SumFunction(v) * 0
    BY <1>12, <2>2, PivotIds
  <2> QED  BY <1>1, <1>2, <1>10, <2>1, <2>3, <2>4, <2>5
           DEF Ahead, Remaining, LatestEnd, Total
<1> QED  BY <1>13, <1>16, <1>17, <1>18 DEF IInv

\* What the steps of the cut start from.
LEMMA Cutting ==
  ASSUME IInv, pc = "cut"
  PROVE  /\ Typed /\ Ahead /\ Laid(ranges, cursor)
         /\ \A i \in DOMAIN ranges : Fits(weight, shards, ranges[i])
         /\ taken + WeightOf(pending) = Total /\ RowsIn(ranges) = taken
         /\ shards \in Nat \ {0} /\ taken \in Nat /\ cursor \in Int
         /\ Len(ranges) \in Nat /\ ranges \in Seq(R)
         /\ pending \in SUBSET DOMAIN weight
         /\ WeightOf(pending) \in Nat /\ Total \in Nat
<1>1. /\ Typed /\ Ahead /\ Laid(ranges, cursor)
      /\ \A i \in DOMAIN ranges : Fits(weight, shards, ranges[i])
      /\ taken + WeightOf(pending) = Total /\ RowsIn(ranges) = taken
  BY DEF IInv, Ordered, Estimated, Counted
<1>2. /\ shards \in Nat \ {0} /\ taken \in Nat /\ cursor \in Int
      /\ ranges \in Seq(R) /\ pending \in SUBSET DOMAIN weight
  BY <1>1, PivotIds DEF Typed, R
<1>3. Len(ranges) \in Nat
  BY <1>2, Members
<1>4. WeightOf(pending) \in Nat /\ Total \in Nat
  BY <1>1, <1>2, Finite, Weights, Heavy DEF WeightOf, Total
<1> QED  BY <1>1, <1>2, <1>3, <1>4

LEMMA FitsAppend ==
  ASSUME NEW w, NEW n, NEW rs \in Seq(R), NEW r \in R, Fits(w, n, r),
         \A i \in DOMAIN rs : Fits(w, n, rs[i])
  PROVE  /\ \A i \in DOMAIN Append(rs, r) : Fits(w, n, Append(rs, r)[i])
         /\ Append(rs, r) \in Seq(R) /\ Len(Append(rs, r)) = Len(rs) + 1
<1>1. Len(rs) \in Nat /\ DOMAIN rs = 1..Len(rs)
  BY Members
<1> DEFINE more == Append(rs, r)
<1>2. more \in Seq(R) /\ Len(more) = Len(rs) + 1
  OBVIOUS
<1>3. DOMAIN more = 1..(Len(rs) + 1)
  BY <1>2, Members
<1>4. more[Len(rs) + 1] = r /\ \A i \in 1..Len(rs) : more[i] = rs[i]
  BY <1>1
<1> HIDE DEF more
<1>5. \A i \in DOMAIN more : i \in DOMAIN rs \/ i = Len(rs) + 1
  BY <1>1, <1>3
<1>6. \A i \in DOMAIN more : Fits(w, n, more[i])
  BY <1>1, <1>4, <1>5
<1> QED  BY <1>2, <1>6 DEF more

LEMMA CutRangeKeeps ==
  ASSUME IInv, CutRange
  PROVE  IInv'
<1> DEFINE T == Takes
           e == Ending(Takes)
           r == [lo |-> cursor, hi |-> e, rows |-> WeightOf(T)]
<1>1. /\ pc = "cut" /\ pc' = "cut" /\ Remaining > 1
      /\ ranges' = Append(ranges, r) /\ pending' = pending \ T
      /\ taken' = taken + WeightOf(T) /\ cursor' = e + 1
      /\ groups' = groups /\ shards' = shards /\ weight' = weight
  BY DEF CutRange
<1>2. /\ Typed /\ Ahead /\ Laid(ranges, cursor)
      /\ \A i \in DOMAIN ranges : Fits(weight, shards, ranges[i])
      /\ taken + WeightOf(pending) = Total /\ RowsIn(ranges) = taken
      /\ shards \in Nat \ {0} /\ taken \in Nat /\ cursor \in Int
      /\ Len(ranges) \in Nat /\ ranges \in Seq(R)
      /\ pending \in SUBSET DOMAIN weight
      /\ WeightOf(pending) \in Nat /\ Total \in Nat
  BY <1>1, Cutting
<1>3. /\ T \in SUBSET pending /\ LatestEnd \in Int /\ e \in Int
      /\ cursor <= e /\ e <= LatestEnd
      /\ T = {id \in DOMAIN weight : cursor <= id /\ id <= e}
      /\ pending \ T = {id \in DOMAIN weight : e + 1 <= id}
  BY <1>1, <1>2, TakesItsTiles
<1>4. /\ WeightOf(T) \in Nat /\ WeightOf(pending \ T) \in Nat
      /\ WeightOf(pending) = WeightOf(T) + WeightOf(pending \ T)
  <2>1. /\ IsFiniteSet(DOMAIN weight) /\ weight \in [DOMAIN weight -> Nat]
        /\ pending \in SUBSET DOMAIN weight
    BY <1>2, Finite
  <2>2. T \in SUBSET pending
    BY <1>3
  <2> HIDE DEF T
  <2>3. /\ SumFunctionOnSet(weight, T) \in Nat
        /\ SumFunctionOnSet(weight, pending \ T) \in Nat
        /\ SumFunctionOnSet(weight, pending)
             = SumFunctionOnSet(weight, T) + SumFunctionOnSet(weight, pending \ T)
    BY <2>1, <2>2, WeightParts
  <2> QED  BY <2>3 DEF WeightOf
<1>5. WeightOf(T) * shards
        <= SumFunction(weight) + shards * Max({0} \cup Range(weight))
  BY <1>1, <1>2, TakesItsShare
<1>6. \/ (taken + WeightOf(T)) * shards >= Total * (Len(ranges) + 1)
      \/ \A id \in pending \ T : LatestEnd + 1 <= id
  BY <1>1, <1>2, TakesEnough
<1>7. /\ LatestEnd = LastTile - (Remaining - 1)
      /\ Remaining = shards - Len(ranges) /\ LastTile \in Nat /\ FirstTile \in Nat
  BY PivotIds DEF LatestEnd, Remaining
<1> HIDE DEF T, e
<1>8. /\ r \in R /\ r.lo = cursor /\ r.hi = e /\ r.rows = WeightOf(T)
  BY <1>2, <1>3, <1>4 DEF R
<1>9. Fits(weight, shards, r)
  <2>1. r.rows = SumFunctionOnSet(weight,
                   {id \in DOMAIN weight : r.lo <= id /\ id <= r.hi})
    BY <1>3, <1>8 DEF WeightOf
  <2> QED  BY <1>5, <1>8, <2>1 DEF Fits
<1> HIDE DEF r
<1>10. /\ \A i \in DOMAIN ranges' : Fits(weight', shards', ranges'[i])
       /\ ranges' \in Seq(R) /\ Len(ranges') = Len(ranges) + 1
  BY <1>1, <1>2, <1>8, <1>9, FitsAppend
<1>11. Laid(ranges', cursor')
  <2>1. Laid(Append(ranges, r), r.hi + 1)
    BY <1>2, <1>3, <1>8, LaidAppend
  <2> QED  BY <1>1, <1>8, <2>1
<1>12. RowsIn(ranges') = taken'
  <2>1. RowsIn(Append(ranges, r)) = RowsIn(ranges) + r.rows
    BY <1>2, <1>8, RowsAppend
  <2> QED  BY <1>1, <1>2, <1>8, <2>1
<1>13. Typed'
  <2>1. taken' \in Nat /\ pending' \subseteq DOMAIN weight'
    BY <1>1, <1>2, <1>4
  <2>2. cursor' \in FirstTile..(LastTile + 1)
    <3>1. FirstTile <= cursor
      BY <1>2, <1>7 DEF Typed
    <3>2. e <= LastTile
      BY <1>1, <1>2, <1>3, <1>7
    <3> QED  BY <1>1, <1>2, <1>3, <1>7, <3>1, <3>2
  <2>3. Len(ranges') <= shards'
    BY <1>1, <1>2, <1>7, <1>10
  <2> QED  BY <1>1, <1>2, <1>10, <2>1, <2>2, <2>3 DEF Typed, R
<1>14. Counted'
  <2>1. taken + WeightOf(T) + WeightOf(pending \ T) = Total
    BY <1>2, <1>4
  <2>2. taken' + SumFunctionOnSet(weight', pending') = SumFunction(weight')
    BY <1>1, <2>1 DEF WeightOf, Total
  <2> QED  BY <1>12, <2>2 DEF Counted, WeightOf, Total
<1>15. Ahead'
  <2>1. pending' = {id \in DOMAIN weight' : cursor' <= id}
    BY <1>1, <1>3
  <2>2. shards - (Len(ranges) + 1) >= 1
    BY <1>1, <1>2, <1>7
  <2>3. LastTile - ((shards - (Len(ranges) + 1)) - 1) = LatestEnd + 1
    BY <1>2, <1>7
  <2>4. e + 1 <= LatestEnd + 1
    BY <1>3
  <2>5. \/ taken' * shards' >= SumFunction(weight') * Len(ranges')
        \/ \A id \in pending' : LatestEnd + 1 <= id
    BY <1>1, <1>6, <1>10 DEF Total
  <2> QED  BY <1>1, <1>10, <2>1, <2>2, <2>3, <2>4, <2>5
           DEF Ahead, Remaining, LatestEnd, Total
<1> QED  BY <1>1, <1>10, <1>11, <1>13, <1>14, <1>15
         DEF IInv, Unweighed, Ordered, Estimated, Closed, Accepted

LEMMA CutLastKeeps ==
  ASSUME IInv, CutLast
  PROVE  IInv'
<1> DEFINE r == [lo |-> cursor, hi |-> LastTile, rows |-> WeightOf(pending)]
           heaviest == Max({0} \cup Range(weight))
<1>1. /\ pc = "cut" /\ pc' = "saved" /\ Remaining = 1
      /\ ranges' = Append(ranges, r) /\ pending' = {}
      /\ taken' = taken + WeightOf(pending) /\ cursor' = LastTile + 1
      /\ groups' = groups /\ shards' = shards /\ weight' = weight
  BY DEF CutLast
<1>2. /\ Typed /\ Ahead /\ Laid(ranges, cursor)
      /\ \A i \in DOMAIN ranges : Fits(weight, shards, ranges[i])
      /\ taken + WeightOf(pending) = Total /\ RowsIn(ranges) = taken
      /\ shards \in Nat \ {0} /\ taken \in Nat /\ cursor \in Int
      /\ Len(ranges) \in Nat /\ ranges \in Seq(R)
      /\ pending \in SUBSET DOMAIN weight
      /\ WeightOf(pending) \in Nat /\ Total \in Nat
  BY <1>1, Cutting
<1>3. /\ pending = {id \in DOMAIN weight : cursor <= id}
      /\ cursor <= LatestEnd
      /\ \/ taken * shards >= Total * Len(ranges)
         \/ \A id \in pending : LatestEnd <= id
  BY <1>1, <1>2 DEF Ahead
<1>4. /\ LatestEnd = LastTile /\ shards = Len(ranges) + 1
      /\ LastTile \in Nat /\ FirstTile \in Nat /\ FirstTile <= LastTile
  BY <1>1, <1>2, PivotIds DEF LatestEnd, Remaining
<1>5. /\ heaviest \in Nat /\ \A x \in DOMAIN weight : weight[x] <= heaviest
      /\ IsFiniteSet(DOMAIN weight) /\ weight \in [DOMAIN weight -> Nat]
      /\ \A id \in DOMAIN weight : id \in Nat /\ id <= LastTile
  BY <1>2, Finite, Heavy
<1> HIDE DEF heaviest
<1>6. WeightOf(pending) * shards <= Total + shards * heaviest
  <2>1. PICK x \in Nat : x = WeightOf(pending)
    BY <1>2
  <2>2. x * shards \in Nat /\ taken * shards \in Nat /\ shards * heaviest \in Nat
    BY <1>2, <1>5
  <2>3. CASE taken * shards >= Total * Len(ranges)
    <3>1. (taken + x) * shards = taken * shards + x * shards
      BY <1>2
    <3>2. Total * shards = Total * Len(ranges) + Total
      BY <1>2, <1>4
    <3>3. taken * shards + x * shards = Total * Len(ranges) + Total
      BY <1>2, <2>1, <3>1, <3>2
    <3>4. PICK a \in Nat, b \in Nat, c \in Nat, d \in Nat :
            a = taken * shards /\ b = x * shards /\ c = Total * Len(ranges)
            /\ d = shards * heaviest
      <4>1. Total * Len(ranges) \in Nat
        BY <1>2
      <4> QED  BY <2>2, <4>1
    <3>5. a + b = c + Total /\ a >= c
      BY <2>3, <3>3, <3>4
    <3>6. b <= Total + d
      BY <1>2, <3>5
    <3> QED  BY <2>1, <3>4, <3>6
  <2>4. CASE \A id \in pending : LatestEnd <= id
    <3>1. x <= heaviest
      <4>1. \A id \in pending : id = LastTile
        BY <1>2, <1>4, <1>5, <2>4
      <4>2. CASE pending = {}
        <5>1. SumFunctionOnSet(weight, {}) = 0
          BY <1>5, Weights
        <5> QED  BY <1>5, <2>1, <4>2, <5>1 DEF WeightOf
      <4>3. CASE pending # {}
        <5>1. pending = {LastTile} /\ LastTile \in DOMAIN weight
          BY <1>2, <4>1, <4>3
        <5>2. SumFunctionOnSet(weight, {LastTile}) = weight[LastTile]
          BY <1>5, <5>1, Weights
        <5> QED  BY <1>5, <2>1, <5>1, <5>2 DEF WeightOf
      <4> QED  BY <4>2, <4>3
    <3>2. heaviest - x \in Nat /\ (heaviest - x) * shards \in Nat
      BY <1>2, <1>5, <3>1
    <3>3. shards * heaviest = x * shards + (heaviest - x) * shards
      BY <1>2, <1>5
    <3>4. PICK b \in Nat, d \in Nat, y \in Nat :
            b = x * shards /\ d = shards * heaviest /\ y = (heaviest - x) * shards
      BY <2>2, <3>2
    <3>5. b <= Total + d
      BY <1>2, <3>3, <3>4
    <3> QED  BY <2>1, <3>4, <3>5
  <2> QED  BY <1>3, <2>3, <2>4
<1>7. /\ r \in R /\ r.lo = cursor /\ r.hi = LastTile /\ r.rows = WeightOf(pending)
  BY <1>2, <1>4 DEF R
<1>8. Fits(weight, shards, r)
  <2>1. pending = {id \in DOMAIN weight : r.lo <= id /\ id <= r.hi}
    BY <1>3, <1>5, <1>7
  <2>2. r.rows * shards <= SumFunction(weight) + shards * heaviest
    BY <1>6, <1>7 DEF Total
  <2> QED  BY <1>7, <2>1, <2>2 DEF Fits, WeightOf, heaviest
<1> HIDE DEF r
<1>9. /\ \A i \in DOMAIN ranges' : Fits(weight', shards', ranges'[i])
      /\ ranges' \in Seq(R) /\ Len(ranges') = Len(ranges) + 1
  BY <1>1, <1>2, <1>7, <1>8, FitsAppend
<1>10. Laid(ranges', cursor')
  <2>1. cursor <= r.hi
    BY <1>3, <1>4, <1>7
  <2>2. Laid(Append(ranges, r), r.hi + 1)
    BY <1>2, <1>7, <2>1, LaidAppend
  <2> QED  BY <1>1, <1>7, <2>2
<1>11. RowsIn(ranges') = taken'
  <2>1. RowsIn(Append(ranges, r)) = RowsIn(ranges) + r.rows
    BY <1>2, <1>7, RowsAppend
  <2> QED  BY <1>1, <1>2, <1>7, <2>1
<1>12. taken' = Total /\ taken' \in Nat
  BY <1>1, <1>2
<1>13. Typed'
  <2>1. pending' \subseteq DOMAIN weight'
    BY <1>1
  <2>2. cursor' \in FirstTile..(LastTile + 1)
    BY <1>1, <1>4
  <2>3. Len(ranges') <= shards'
    BY <1>1, <1>2, <1>4, <1>9
  <2> QED  BY <1>1, <1>2, <1>9, <1>12, <2>1, <2>2, <2>3 DEF Typed, R
<1>14. Counted' /\ Closed'
  <2>1. SumFunctionOnSet(weight', pending') = 0
    BY <1>1, <1>5, Weights
  <2>2. taken' = SumFunction(weight')
    BY <1>1, <1>12 DEF Total
  <2>3. taken' + SumFunctionOnSet(weight', pending') = SumFunction(weight')
    BY <1>12, <2>1, <2>2
  <2>4. Len(ranges') = shards'
    BY <1>1, <1>4, <1>9
  <2> QED  BY <1>1, <1>11, <2>2, <2>3, <2>4 DEF Counted, Closed, WeightOf, Total
<1> QED  BY <1>1, <1>9, <1>10, <1>13, <1>14
         DEF IInv, Unweighed, Ordered, Estimated, Ahead, Accepted


\* Where the ranges of equal width begin.
Mark(i) == (TileCount(Pivot) * i) \div shards

LEMMA Marks ==
  ASSUME shards \in 1..TileCount(Pivot)
  PROVE  /\ \A i \in Nat : Mark(i) \in Nat /\ Mark(i) < Mark(i + 1)
         /\ Mark(0) = 0 /\ Mark(shards) = TileCount(Pivot)
<1> DEFINE t == TileCount(Pivot)
<1>1. t \in Nat \ {0} /\ shards \in Nat \ {0} /\ shards <= t
  BY PivotIds
<1>2. \A i \in Nat : Mark(i) = (t * i) \div shards
  BY DEF Mark
<1> HIDE DEF t
<1>3. ASSUME NEW i \in Nat
      PROVE  /\ t * i \in Nat /\ Mark(i) \in Nat
             /\ Mark(i) * shards <= t * i /\ t * i < (Mark(i) + 1) * shards
  <2>1. t * i \in Nat
    BY <1>1
  <2>2. PICK d \in Nat : d = t * i
    BY <2>1
  <2>3. d \div shards \in Nat /\ (d \div shards) * shards <= d
        /\ d < (d \div shards + 1) * shards
    BY <1>1, Quotient
  <2> QED  BY <1>2, <2>1, <2>2, <2>3
<1>4. ASSUME NEW i \in Nat  PROVE Mark(i) < Mark(i + 1)
  <2>1. i + 1 \in Nat /\ t * (i + 1) = t * i + t
    BY <1>1
  <2>2. PICK a \in Nat, b \in Nat : a = Mark(i) /\ b = Mark(i + 1)
    BY <1>3, <2>1
  <2>3. /\ a * shards <= t * i /\ t * (i + 1) < (b + 1) * shards
    BY <1>3, <2>1, <2>2
  <2>4. (b + 1) * shards = b * shards + shards
    BY <1>1, <2>2
  <2>5. t * i \in Nat /\ a * shards \in Int /\ b * shards \in Int
    BY <1>1
  <2>6. PICK u \in Int, v \in Int, x \in Nat :
          u = a * shards /\ v = b * shards /\ x = t * i
    BY <2>5
  <2>7. u <= x /\ x + t < v + shards
    BY <2>1, <2>3, <2>4, <2>6
  <2>8. u < v
    BY <1>1, <2>6, <2>7
  <2>9. a * shards < b * shards
    BY <2>6, <2>8
  <2> QED  BY <1>1, <2>2, <2>9, Scaled
<1>5. Mark(0) = 0
  <2>1. 0 \in Nat /\ t * 0 = 0
    BY <1>1
  <2>2. PICK a \in Nat : a = Mark(0)
    BY <1>3, <2>1
  <2>3. a * shards <= 0
    BY <1>3, <2>1, <2>2
  <2>4. ~(0 < a)
    <3>1. 0 < a => 0 * shards < a * shards
      BY <1>1, <2>2, Scaled
    <3>2. 0 * shards = 0 /\ a * shards \in Int
      BY <1>1
    <3> QED  BY <2>3, <3>1, <3>2
  <2> QED  BY <2>2, <2>4
<1>6. Mark(shards) = t
  <2>1. PICK a \in Nat : a = Mark(shards)
    BY <1>1, <1>3
  <2>2. a * shards <= t * shards /\ t * shards < (a + 1) * shards
    BY <1>1, <1>3, <2>1
  <2>3. /\ t < a => t * shards < a * shards
        /\ t < a + 1 <=> t * shards < (a + 1) * shards
    BY <1>1, <2>1, Scaled
  <2>4. a * shards \in Int /\ t * shards \in Int
    BY <1>1
  <2>5. ~(t < a)
    BY <2>2, <2>3, <2>4
  <2>6. t < a + 1
    BY <2>2, <2>3
  <2> QED  BY <1>1, <2>1, <2>5, <2>6
<1> QED  BY <1>3, <1>4, <1>5, <1>6 DEF t

LEMMA CutEvenlyKeeps ==
  ASSUME IInv, CutEvenly
  PROVE  IInv'
<1> DEFINE even == [i \in 1..shards |->
              [lo |-> FirstTile + Mark(i - 1), hi |-> FirstTile + Mark(i) - 1,
               rows |-> 0]]
<1>1. /\ pc = "cut" /\ pc' = "saved" /\ ranges = <<>> /\ Total = 0
      /\ ranges' = even /\ cursor' = LastTile + 1
      /\ groups' = groups /\ shards' = shards /\ weight' = weight
      /\ pending' = pending /\ taken' = taken
  BY DEF CutEvenly, Mark
<1>2. /\ Typed /\ taken + WeightOf(pending) = Total
      /\ shards \in Nat \ {0} /\ taken \in Nat
      /\ WeightOf(pending) \in Nat
  BY <1>1, Cutting
<1>3. /\ shards \in 1..TileCount(Pivot) /\ pending \subseteq DOMAIN weight
  BY <1>2 DEF Typed
<1>4. /\ \A i \in Nat : Mark(i) \in Nat /\ Mark(i) < Mark(i + 1)
      /\ Mark(0) = 0 /\ Mark(shards) = TileCount(Pivot)
  BY <1>3, Marks
<1>5. /\ FirstTile \in Nat /\ LastTile \in Nat
      /\ LastTile = FirstTile + TileCount(Pivot) - 1
  BY PivotIds
<1>6. /\ IsFiniteSet(DOMAIN weight) /\ weight \in [DOMAIN weight -> Nat]
      /\ Max({0} \cup Range(weight)) \in Nat
  BY <1>2, Finite, Heavy
<1>7. \A i \in 1..shards : i - 1 \in Nat /\ i \in Nat /\ (i - 1) + 1 = i
  BY <1>2
<1>8. \A i \in 1..shards : /\ even[i].lo = FirstTile + Mark(i - 1)
                           /\ even[i].hi = FirstTile + Mark(i) - 1
                           /\ even[i].rows = 0 /\ even[i] \in R
  BY <1>4, <1>5, <1>7 DEF R
<1>9. even \in Seq(R) /\ Len(even) = shards /\ DOMAIN even = 1..shards
  <2>1. even \in [1..shards -> R]
    BY <1>8
  <2> HIDE DEF even
  <2> QED  BY <1>2, <2>1
<1> HIDE DEF even
<1>10. Laid(even, LastTile + 1)
  <2>1. ASSUME NEW i \in 1..shards
        PROVE  /\ even[i].lo = IF i = 1 THEN FirstTile ELSE even[i - 1].hi + 1
               /\ even[i].lo <= even[i].hi
    <3>1. Mark(i - 1) \in Nat /\ Mark(i) \in Nat /\ Mark(i - 1) < Mark(i)
      BY <1>4, <1>7
    <3>2. even[i].lo <= even[i].hi
      BY <1>5, <1>8, <3>1
    <3>3. CASE i = 1
      BY <1>4, <1>5, <1>8, <3>2, <3>3
    <3>4. CASE i # 1
      <4>1. i - 1 \in 1..shards
        BY <1>2, <3>4
      <4>2. even[i - 1].hi = FirstTile + Mark(i - 1) - 1
        BY <1>8, <4>1
      <4> QED  BY <1>5, <1>8, <3>1, <3>2, <3>4, <4>2
    <3> QED  BY <3>3, <3>4
  <2>2. even # <<>> /\ shards \in 1..shards
    BY <1>2, <1>9
  <2>3. LastTile + 1 = even[shards].hi + 1
    <3>1. even[shards].hi = FirstTile + TileCount(Pivot) - 1
      BY <1>4, <1>8, <2>2
    <3> QED  BY <1>5, <3>1
  <2> QED  BY <1>9, <2>1, <2>2, <2>3 DEF Laid
<1>11. \A i \in DOMAIN even : Fits(weight, shards, even[i])
  <2>1. SUFFICES ASSUME NEW i \in 1..shards  PROVE Fits(weight, shards, even[i])
    BY <1>9
  <2> DEFINE s == {id \in DOMAIN weight : even[i].lo <= id /\ id <= even[i].hi}
  <2>2. s \in SUBSET DOMAIN weight /\ DOMAIN weight \in SUBSET DOMAIN weight
    OBVIOUS
  <2>3. SumFunctionOnSet(weight, DOMAIN weight) = 0
    BY <1>1 DEF Total, SumFunction
  <2> HIDE DEF s
  <2>4. SumFunctionOnSet(weight, s) \in Nat
        /\ SumFunctionOnSet(weight, s) <= SumFunctionOnSet(weight, DOMAIN weight)
    BY <1>6, <2>2, WeightParts
  <2>5. SumFunctionOnSet(weight, s) = 0
    BY <2>3, <2>4
  <2>6. PICK h \in Nat : h = Max({0} \cup Range(weight))
    BY <1>6
  <2>7. 0 * shards = 0 /\ shards * h \in Nat
    BY <1>2
  <2>8. 0 * shards <= SumFunction(weight) + shards * h
    BY <1>1, <2>7 DEF Total
  <2> QED  BY <1>8, <2>5, <2>6, <2>8 DEF Fits, s
<1>12. RowsIn(even) = 0
  <2> DEFINE f == [i \in DOMAIN even |-> even[i].rows]
  <2>1. DOMAIN f = 1..shards /\ \A k \in 1..shards : f[k] = 0
    BY <1>8, <1>9
  <2>2. IsFiniteSet(1..shards)
    BY <1>2, FS_Interval
  <2>3. RowsIn(even) = SumFunction(f)
    BY DEF RowsIn
  <2> HIDE DEF f
  <2>4. SumFunctionOnSet(f, 1..shards) = 0
    BY <2>1, <2>2, SumOfZeros
  <2> QED  BY <2>1, <2>3, <2>4 DEF SumFunction
<1>13. taken = 0
  BY <1>1, <1>2
<1>14. Typed'
  <2>1. cursor' \in FirstTile..(LastTile + 1)
    <3>1. FirstTile <= LastTile + 1
      BY <1>5, PivotIds
    <3> QED  BY <1>1, <1>5, <3>1
  <2>2. Len(ranges') <= shards'
    BY <1>1, <1>2, <1>9
  <2> QED  BY <1>1, <1>2, <1>9, <2>1, <2>2 DEF Typed, R
<1>15. Ordered' /\ Estimated'
  BY <1>1, <1>10, <1>11 DEF Ordered, Estimated
<1>16. Counted' /\ Closed'
  <2>1. taken' + SumFunctionOnSet(weight', pending') = SumFunction(weight')
    BY <1>1, <1>2 DEF WeightOf, Total
  <2>2. RowsIn(ranges') = taken'
    BY <1>1, <1>12, <1>13
  <2>3. taken' = SumFunction(weight') /\ Len(ranges') = shards'
    BY <1>1, <1>9, <1>13 DEF Total
  <2> QED  BY <1>1, <2>1, <2>2, <2>3 DEF Counted, Closed, WeightOf, Total
<1> QED  BY <1>1, <1>14, <1>15, <1>16 DEF IInv, Unweighed, Ahead, Accepted

\* An edit leaves a sequence of ranges, no longer than it was.
LEMMA EditedRanges ==
  ASSUME NEW rs \in Seq(R), NEW i \in DOMAIN rs, NEW d \in Int
  PROVE  /\ [rs EXCEPT ![i].lo = @ + d] \in Seq(R)
         /\ Len([rs EXCEPT ![i].lo = @ + d]) = Len(rs)
         /\ [rs EXCEPT ![i].hi = @ + d] \in Seq(R)
         /\ Len([rs EXCEPT ![i].hi = @ + d]) = Len(rs)
         /\ SubSeq(rs, 1, i - 1) \o SubSeq(rs, i + 1, Len(rs)) \in Seq(R)
         /\ Len(SubSeq(rs, 1, i - 1) \o SubSeq(rs, i + 1, Len(rs))) <= Len(rs)
<1>1. Len(rs) \in Nat /\ DOMAIN rs = 1..Len(rs) /\ rs[i] \in R
  BY Members
<1>2. i \in 1..Len(rs) /\ i \in Nat
  BY <1>1
<1>3. [rs[i] EXCEPT !.lo = @ + d] \in R /\ [rs[i] EXCEPT !.hi = @ + d] \in R
  <2>1. PICK x \in R : x = rs[i]
    BY <1>1
  <2>2. x.lo + d \in Int /\ x.hi + d \in Int
    BY DEF R
  <2>3. [x EXCEPT !.lo = x.lo + d] \in R /\ [x EXCEPT !.hi = x.hi + d] \in R
    BY <2>2 DEF R
  <2> QED  BY <2>1, <2>3
<1>4. ASSUME NEW r \in R
      PROVE  [rs EXCEPT ![i] = r] \in Seq(R) /\ Len([rs EXCEPT ![i] = r]) = Len(rs)
  BY <1>1, <1>2
<1>5. /\ [rs EXCEPT ![i].lo = @ + d] = [rs EXCEPT ![i] = [rs[i] EXCEPT !.lo = @ + d]]
      /\ [rs EXCEPT ![i].hi = @ + d] = [rs EXCEPT ![i] = [rs[i] EXCEPT !.hi = @ + d]]
  OBVIOUS
<1>6. /\ SubSeq(rs, 1, i - 1) \in Seq(R) /\ Len(SubSeq(rs, 1, i - 1)) = i - 1
      /\ SubSeq(rs, i + 1, Len(rs)) \in Seq(R)
      /\ Len(SubSeq(rs, i + 1, Len(rs))) = Len(rs) - i
  <2>1. \A k \in 1..Len(rs) : rs[k] \in R
    BY Members
  <2> QED  BY <1>1, <1>2, <2>1
<1>7. SubSeq(rs, 1, i - 1) \o SubSeq(rs, i + 1, Len(rs)) \in Seq(R)
  BY <1>6
<1>8. Len(SubSeq(rs, 1, i - 1) \o SubSeq(rs, i + 1, Len(rs))) <= Len(rs)
  BY <1>1, <1>2, <1>6
<1> QED  BY <1>3, <1>4, <1>5, <1>7, <1>8

LEMMA EditKeeps ==
  ASSUME IInv, Edit
  PROVE  IInv'
<1>1. /\ pc' = "edited" /\ groups' = groups /\ shards' = shards
      /\ weight' = weight /\ pending' = pending /\ taken' = taken
      /\ cursor' = cursor
  BY DEF Edit
<1>2. Typed /\ ranges \in Seq(R) /\ shards \in Nat
  BY PivotIds DEF IInv, Typed, R
<1>3. Len(ranges) \in Nat /\ Len(ranges) <= shards
  BY <1>2, Members DEF Typed
<1>4. ranges' \in Seq(R) /\ Len(ranges') <= Len(ranges)
  <2>1. ASSUME NEW i \in DOMAIN ranges, NEW d \in {-1, 1},
               \/ ranges' = [ranges EXCEPT ![i].lo = @ + d]
               \/ ranges' = [ranges EXCEPT ![i].hi = @ + d]
        PROVE  ranges' \in Seq(R) /\ Len(ranges') <= Len(ranges)
    <3>1. d \in Int
      OBVIOUS
    <3>2. CASE ranges' = [ranges EXCEPT ![i].lo = @ + d]
      <4>1. /\ [ranges EXCEPT ![i].lo = @ + d] \in Seq(R)
            /\ Len([ranges EXCEPT ![i].lo = @ + d]) = Len(ranges)
        BY <1>2, <3>1, EditedRanges
      <4> QED  BY <1>3, <3>2, <4>1
    <3>3. CASE ranges' = [ranges EXCEPT ![i].hi = @ + d]
      <4>1. /\ [ranges EXCEPT ![i].hi = @ + d] \in Seq(R)
            /\ Len([ranges EXCEPT ![i].hi = @ + d]) = Len(ranges)
        BY <1>2, <3>1, EditedRanges
      <4> QED  BY <1>3, <3>3, <4>1
    <3> QED  BY <2>1, <3>2, <3>3
  <2>2. ASSUME NEW i \in DOMAIN ranges, ranges' =
                 SubSeq(ranges, 1, i - 1) \o SubSeq(ranges, i + 1, Len(ranges))
        PROVE  ranges' \in Seq(R) /\ Len(ranges') <= Len(ranges)
    <3>1. 0 \in Int
      OBVIOUS
    <3> QED  BY <1>2, <2>2, <3>1, EditedRanges
  <2> QED  BY <2>1, <2>2 DEF Edit
<1>5. Len(ranges') \in Nat
  BY <1>4, Members
<1>6. Len(ranges') <= shards'
  BY <1>1, <1>2, <1>3, <1>4, <1>5
<1>7. Typed'
  BY <1>1, <1>2, <1>4, <1>6 DEF Typed, R
<1> QED  BY <1>1, <1>7 DEF IInv, Unweighed, Ordered, Estimated, Counted, Ahead,
                           Closed, Accepted

LEMMA LoadKeeps ==
  ASSUME IInv, Load
  PROVE  IInv'
<1>1. /\ pc' = IF Structured(Plan) THEN "loaded" ELSE "refused"
      /\ groups' = groups /\ shards' = shards /\ weight' = weight
      /\ pending' = pending /\ taken' = taken /\ cursor' = cursor
      /\ ranges' = ranges
  BY DEF Load
<1>2. Plan' = Plan
  BY <1>1 DEF Plan
<1>3. pc' \in {"loaded", "refused"} /\ Accepted'
  BY <1>1, <1>2 DEF Accepted
<1>4. Typed'
  BY <1>1, <1>3 DEF IInv, Typed
<1> QED  BY <1>3, <1>4 DEF IInv, Unweighed, Ordered, Estimated, Counted, Ahead,
                           Closed

LEMMA StepCuts == IInv /\ [CutNext]_cutVars => IInv'
<1> SUFFICES ASSUME IInv, [CutNext]_cutVars  PROVE IInv'
  OBVIOUS
<1>1. CASE Weigh
  BY <1>1, WeighKeeps
<1>2. CASE CutEvenly
  BY <1>2, CutEvenlyKeeps
<1>3. CASE CutRange
  BY <1>3, CutRangeKeeps
<1>4. CASE CutLast
  BY <1>4, CutLastKeeps
<1>5. CASE Edit
  BY <1>5, EditKeeps
<1>6. CASE Load
  BY <1>6, LoadKeeps
<1>7. CASE UNCHANGED cutVars
  <2>1. Plan' = Plan
    BY <1>7 DEF cutVars, Plan
  <2>2. Accepted'
    BY <1>7, <2>1 DEF cutVars, IInv, Accepted
  <2>3. Ahead'
    BY <1>7 DEF cutVars, IInv, Ahead, Remaining, LatestEnd, Total
  <2>4. Counted' /\ Closed'
    BY <1>7 DEF cutVars, IInv, Counted, Closed, WeightOf, Total
  <2>5. Typed' /\ Unweighed' /\ Ordered' /\ Estimated'
    BY <1>7 DEF cutVars, IInv, Typed, Unweighed, Ordered, Estimated
  <2> QED  BY <2>2, <2>3, <2>4, <2>5 DEF IInv
<1> QED  BY <1>1, <1>2, <1>3, <1>4, <1>5, <1>6, <1>7 DEF CutNext

-----------------------------------------------------------------------------
(* The properties *)

\* compute, cut_ranges and load: what the cut relies on holds of every plan,
\* from the weighing on to the plan that is loaded.
THEOREM CutInductive == CutSpec => []IInv
<1>1. CutInit => IInv
  BY InitCuts
<1>2. IInv /\ [CutNext]_cutVars => IInv'
  BY StepCuts
<1> QED  BY <1>1, <1>2, PTL DEF CutSpec

\* cut_ranges: the cursor never leaves the pivot zoom, no tile is pending that
\* has no weight, and there are never more ranges than were asked for.
THEOREM CutTyped == CutSpec => []CutTypeOK
<1>1. IInv => CutTypeOK
  BY DEF IInv, Typed, CutTypeOK
<1> QED  BY <1>1, CutInductive, PTL

\* compute and cut_ranges: a plan that has been cut has as many ranges as
\* were asked for; each tile of the pivot zoom is in exactly one; no estimate
\* exceeds an equal share by more than the heaviest tile; each is the weight
\* of the tiles in its range, and together they are the whole weight.
THEOREM CutSharesOut == CutSpec => []CutIsPartition
<1>1. ASSUME IInv, pc = "saved"  PROVE CutIsPartition
  <2>1. /\ Laid(ranges, LastTile + 1) /\ Len(ranges) = shards
        /\ \A i \in DOMAIN ranges : Fits(weight, shards, ranges[i])
        /\ RowsIn(ranges) = Total
        /\ ranges \in Seq([lo : Int, hi : Int, rows : Nat]) /\ shards \in Nat \ {0}
    BY <1>1, PivotIds DEF IInv, Ordered, Estimated, Counted, Closed, Typed
  <2> DEFINE n == Len(ranges)
  <2>2. /\ n \in Nat \ {0} /\ DOMAIN ranges = 1..n
        /\ \A i \in 1..n : ranges[i].lo \in Int /\ ranges[i].hi \in Int
                           /\ Starts[i] = ranges[i].lo /\ Ends[i] = ranges[i].hi
        /\ Starts \in [1..n -> Int] /\ Ends \in [1..n -> Int]
    BY <2>1, RangeTypes DEF Starts, Ends
  <2> HIDE DEF n
  <2>3. \A i \in 1..n : /\ ranges[i].lo = IF i = 1 THEN FirstTile
                                          ELSE ranges[i - 1].hi + 1
                        /\ ranges[i].lo <= ranges[i].hi
    BY <2>1, <2>2 DEF Laid
  <2>4. /\ FirstTile \in Nat /\ LastTile \in Nat
        /\ \A id \in Ids : id \in Int /\ FirstTile <= id /\ id <= LastTile
    BY PivotIds
  <2>5. Ends[n] = LastTile
    <3>1. ranges # <<>> /\ n \in 1..n
      BY <2>2
    <3>2. LastTile + 1 = ranges[n].hi + 1
      BY <2>1, <3>1 DEF Laid, n
    <3> QED  BY <2>2, <2>4, <3>1, <3>2
  <2>6. Follow(n, Starts, Ends, FirstTile)
    <3>1. 1 \in 1..n /\ \A i \in 2..n : i # 1 /\ i \in 1..n /\ i - 1 \in 1..n
      BY <2>2
    <3>2. Starts[1] = FirstTile
      BY <2>2, <2>3, <3>1
    <3>3. ASSUME NEW i \in 2..n  PROVE Starts[i] = Ends[i - 1] + 1
      <4>1. i # 1 /\ i \in 1..n /\ i - 1 \in 1..n
        BY <3>1
      <4>2. ranges[i].lo = ranges[i - 1].hi + 1
        BY <2>3, <4>1
      <4> QED  BY <2>2, <4>1, <4>2
    <3>4. \A i \in 1..n : Starts[i] <= Ends[i]
      BY <2>2, <2>3
    <3> QED  BY <2>2, <3>2, <3>3, <3>4 DEF Follow
  <2>7. ASSUME NEW id \in Ids
        PROVE  Cardinality({i \in DOMAIN ranges :
                   ranges[i].lo <= id /\ id <= ranges[i].hi}) = 1
    <3>1. id \in Int /\ FirstTile <= id /\ id <= Ends[n]
      BY <2>4, <2>5
    <3>2. PICK i \in 1..n : {k \in 1..n : Starts[k] <= id /\ id <= Ends[k]} = {i}
      BY <2>6, <3>1, FollowOnce
    <3>3. {k \in DOMAIN ranges : ranges[k].lo <= id /\ id <= ranges[k].hi} = {i}
      BY <2>2, <3>2
    <3>4. Cardinality({i}) = 1
      BY FS_Singleton
    <3> QED  BY <3>3, <3>4
  <2>8. ASSUME NEW i \in DOMAIN ranges
        PROVE  /\ ranges[i].lo <= ranges[i].hi
               /\ ranges[i].rows = WeightOf(TilesIn(ranges[i]))
               /\ ranges[i].rows * shards <= Total + shards * Heaviest
    <3>1. ranges[i].lo <= ranges[i].hi
      BY <2>2, <2>3
    <3>2. Fits(weight, shards, ranges[i])
      BY <2>1
    <3> QED  BY <3>1, <3>2 DEF Fits, WeightOf, TilesIn, Total, Heaviest
  <2>9. SumFunction([i \in DOMAIN ranges |-> ranges[i].rows]) = Total
    BY <2>1 DEF RowsIn
  <2> QED  BY <2>1, <2>7, <2>8, <2>9 DEF CutIsPartition
<1>2. IInv => CutIsPartition
  BY <1>1 DEF CutIsPartition
<1> QED  BY <1>2, CutInductive, PTL

\* check_structure and ids_at: once a plan is loaded, cut or edited, each tile
\* of each zoom from the pivot down has exactly one owner, which is the owner
\* of its ancestor at the pivot.
THEOREM OwnedOnce == CutSpec => []OneOwner
<1>1. ASSUME IInv, pc = "loaded"  PROVE OneOwner
  <2>1. ranges \in Seq([lo : Int, hi : Int, rows : Nat]) /\ Structured(Plan)
    BY <1>1 DEF IInv, Typed, Accepted
  <2> QED  BY <2>1, AcceptedOwns DEF OneOwner
<1>2. IInv => OneOwner
  BY <1>1 DEF OneOwner
<1> QED  BY <1>2, CutInductive, PTL

Plane == [x : Int, y : Int]

\* A tile's copy in quarter q.
Turn(q, side, t) ==
  CASE q = 0 -> [x |-> t.y, y |-> t.x]
    [] q = 1 -> [x |-> t.x, y |-> t.y + side]
    [] q = 2 -> [x |-> t.x + side, y |-> t.y + side]
    [] OTHER -> [x |-> 2 * side - 1 - t.y, y |-> side - 1 - t.x]

Sized(a, n, S) == n \in Nat /\ a \in Seq(S) /\ Len(a) = n

\* w is a, of m members, and b after it, of n.
Joined(w, a, m, b, n) ==
  /\ \A k \in 1..m : w[k] = a[k]
  /\ \A k \in 1..n : w[m + k] = b[k]

\* Two sequences laid one after the other.
LEMMA TwoLaid ==
  ASSUME NEW S, NEW a, NEW b, NEW m, NEW n, Sized(a, m, S), Sized(b, n, S)
  PROVE  Sized(a \o b, m + n, S) /\ Joined(a \o b, a, m, b, n)
BY DEF Sized, Joined

Four(w, a, b, c, d, n) ==
  \A k \in 1..n : /\ w[k] = a[k] /\ w[n + k] = b[k]
                  /\ w[2 * n + k] = c[k] /\ w[3 * n + k] = d[k]

\* Where four sequences of one length have their members.
LEMMA FourLaid ==
  ASSUME NEW S, NEW n, NEW a, NEW b, NEW c, NEW d,
         Sized(a, n, S), Sized(b, n, S), Sized(c, n, S), Sized(d, n, S)
  PROVE  Sized(a \o b \o c \o d, 4 * n, S) /\ Four(a \o b \o c \o d, a, b, c, d, n)
<1> DEFINE u == a \o b
           v == u \o c
           w == v \o d
<1>0. n \in Nat
  BY DEF Sized
<1>1. Sized(u, n + n, S) /\ Joined(u, a, n, b, n)
  BY TwoLaid
<1> HIDE DEF u
<1>2. Sized(v, n + n + n, S) /\ Joined(v, u, n + n, c, n)
  BY <1>1, TwoLaid
<1> HIDE DEF v
<1>3. Sized(w, n + n + n + n, S) /\ Joined(w, v, n + n + n, d, n)
  BY <1>2, TwoLaid
<1> HIDE DEF w
<1>4. ASSUME NEW k \in 1..n
      PROVE  /\ w[k] = a[k] /\ w[n + k] = b[k]
             /\ w[2 * n + k] = c[k] /\ w[3 * n + k] = d[k]
  <2>1. /\ k \in 1..(n + n) /\ n + k \in 1..(n + n)
        /\ k \in 1..(n + n + n) /\ n + k \in 1..(n + n + n)
        /\ n + n + k \in 1..(n + n + n)
        /\ 2 * n + k = n + n + k /\ 3 * n + k = n + n + n + k
    BY <1>0
  <2> QED  BY <1>1, <1>2, <1>3, <2>1 DEF Joined
<1>5. n + n + n + n = 4 * n
  BY <1>0
<1> QED  BY <1>3, <1>4, <1>5 DEF u, v, w, Four

\* The curve's next zoom, place by place: four turned copies of it.
LEMMA QuartersAre ==
  ASSUME NEW c \in Seq(Plane), NEW side \in Int, NEW n \in Nat, Len(c) = n
  PROVE  /\ Quarters(c, side) \in Seq(Plane) /\ Len(Quarters(c, side)) = 4 * n
         /\ \A k \in 1..n : \A q \in 0..3 :
              Quarters(c, side)[q * n + k] = Turn(q, side, c[k])
<1> DEFINE Part(q) == [k \in 1..n |-> Turn(q, side, c[k])]
<1>1. \A q \in 0..3 : Part(q) \in Seq(Plane) /\ Len(Part(q)) = n
                      /\ \A k \in 1..n : Part(q)[k] = Turn(q, side, c[k])
  <2>1. \A t \in Plane : \A q \in 0..3 : Turn(q, side, t) \in Plane
    BY DEF Turn, Plane
  <2>2. \A k \in 1..n : c[k] \in Plane
    OBVIOUS
  <2>3. ASSUME NEW q \in 0..3  PROVE Part(q) \in [1..n -> Plane]
    BY <2>1, <2>2
  <2> QED  BY <2>3
<1>2. Quarters(c, side) = Part(0) \o Part(1) \o Part(2) \o Part(3)
  <2>1. /\ Part(0) = [k \in 1..Len(c) |-> [x |-> c[k].y, y |-> c[k].x]]
        /\ Part(1) = [k \in 1..Len(c) |-> [x |-> c[k].x, y |-> c[k].y + side]]
        /\ Part(2) = [k \in 1..Len(c) |-> [x |-> c[k].x + side, y |-> c[k].y + side]]
        /\ Part(3) = [k \in 1..Len(c) |-> [x |-> 2 * side - 1 - c[k].y, y |-> side - 1 - c[k].x]]
    BY DEF Turn
  <2> HIDE DEF Part
  <2> QED  BY <2>1, Zenon DEF Quarters
<1> DEFINE w == Part(0) \o Part(1) \o Part(2) \o Part(3)
<1> HIDE DEF Part
<1>3. /\ Sized(Part(0), n, Plane) /\ Sized(Part(1), n, Plane)
      /\ Sized(Part(2), n, Plane) /\ Sized(Part(3), n, Plane)
  BY <1>1 DEF Sized
<1>4. Sized(w, 4 * n, Plane) /\ Four(w, Part(0), Part(1), Part(2), Part(3), n)
  BY <1>3, FourLaid
<1> HIDE DEF w
<1>5. ASSUME NEW k \in 1..n, NEW q \in 0..3
      PROVE  w[q * n + k] = Turn(q, side, c[k])
  <2>1. q = 0 \/ q = 1 \/ q = 2 \/ q = 3
    OBVIOUS
  <2>2. 0 * n + k = k /\ 1 * n + k = n + k
    OBVIOUS
  <2>3. w[q * n + k] = Part(q)[k]
    <3>1. /\ w[k] = Part(0)[k] /\ w[n + k] = Part(1)[k]
          /\ w[2 * n + k] = Part(2)[k] /\ w[3 * n + k] = Part(3)[k]
      BY ONLY <1>4, k \in 1..n DEF Four
    <3> HIDE DEF w
    <3> QED  BY <2>1, <2>2, <3>1
  <2> QED  BY <1>1, <2>3
<1> QED  BY <1>2, <1>4, <1>5 DEF w, Sized

\* The recursion of the curve has a solution, which the curve is.
LEMMA CurveEquation ==
  /\ FinestZoom \in Nat
  /\ Curve[0] = <<[x |-> 0, y |-> 0]>> /\ Curve[0] \in Seq(Plane)
  /\ \A z \in 1..FinestZoom : /\ Curve[z] = Quarters(Curve[z - 1], 2^(z - 1))
                              /\ Curve[z] \in Seq(Plane)
<1> DEFINE a == <<[x |-> 0, y |-> 0]>>
           m == FinestZoom
           g == [k \in 1..m |-> [c \in Seq(Plane) |-> Quarters(c, 2^(k - 1))]]
           Eq(f) == f = [z \in 0..m |-> IF z = 0 THEN a ELSE Quarters(f[z - 1], 2^(z - 1))]
<1>1. m \in Nat /\ a \in Seq(Plane)
  BY ZoomAssumption DEF Plane
<1>2. Keeps(g, m, Seq(Plane))
  <2>1. ASSUME NEW k \in 1..m, NEW c \in Seq(Plane)
        PROVE  Quarters(c, 2^(k - 1)) \in Seq(Plane)
    <3>1. k - 1 \in Nat
      BY <1>1
    <3>2. 2^(k - 1) \in Int
      BY <3>1, Subsets
    <3>3. Len(c) \in Nat
      OBVIOUS
    <3> QED  BY <3>2, <3>3, QuartersAre
  <2> QED  BY <2>1 DEF Keeps
<1>3. PICK F : Folded(F, m, Seq(Plane), a, g)
  <2> HIDE DEF g, m, a
  <2> QED  BY <1>1, <1>2, Folding
<1>4. /\ F \in [0..m -> Seq(Plane)] /\ F[0] = a
      /\ \A z \in 1..m : F[z] = Quarters(F[z - 1], 2^(z - 1))
  <2>1. F \in [0..m -> Seq(Plane)] /\ F[0] = a /\ \A k \in 1..m : F[k] = g[k][F[k - 1]]
    BY <1>3 DEF Folded
  <2>2. \A k \in 1..m : k - 1 \in 0..m
    BY <1>1
  <2>3. \A k \in 1..m : F[k - 1] \in Seq(Plane)
    BY <2>1, <2>2
  <2> QED  BY <2>1, <2>2, <2>3
<1> HIDE DEF a, g
<1>5. Eq(F)
  <2>1. \A z \in 0..m : F[z] = IF z = 0 THEN a ELSE Quarters(F[z - 1], 2^(z - 1))
    <3>1. \A z \in 0..m : z # 0 => z \in 1..m
      BY <1>1
    <3> QED  BY <1>4, <3>1
  <2>2. F = [z \in 0..m |-> F[z]]
    BY <1>4
  <2> QED  BY <2>1, <2>2
<1>6. Eq(Curve)
  <2>1. Curve = CHOOSE f : Eq(f)
    BY DEF Curve, a
  <2> HIDE DEF Eq
  <2> QED  BY <1>5, <2>1
<1>7. /\ Curve[0] = a
      /\ \A z \in 1..m : Curve[z] = Quarters(Curve[z - 1], 2^(z - 1))
  <2>1. Curve = [z \in 0..m |-> IF z = 0 THEN a ELSE Quarters(Curve[z - 1], 2^(z - 1))]
    BY <1>6
  <2>2. 0 \in 0..m /\ \A z \in 1..m : z \in 0..m /\ z # 0
    BY <1>1
  <2> QED  BY <2>1, <2>2
<1> HIDE DEF Eq
<1> DEFINE Bad == {z \in 0..m : Curve[z] # F[z]}
<1>8. Bad = {}
  <2>1. SUFFICES ASSUME Bad # {}  PROVE FALSE
    OBVIOUS
  <2>2. PICK z \in Bad : \A j \in Bad : z <= j
    <3>1. Bad \in SUBSET Nat
      BY <1>1
    <3> HIDE DEF Bad
    <3> QED  BY <2>1, <3>1, Smallest
  <2>3. z \in 0..m /\ Curve[z] # F[z]
    BY <2>2
  <2>4. z # 0
    BY <1>4, <1>7, <2>3
  <2>5. z \in 1..m /\ z - 1 \in 0..m /\ ~(z <= z - 1)
    BY <1>1, <2>3, <2>4
  <2>6. z - 1 \notin Bad
    <3> HIDE DEF Bad
    <3> QED  BY <2>2, <2>5
  <2>7. Curve[z - 1] = F[z - 1]
    BY <2>5, <2>6
  <2> QED  BY <1>4, <1>7, <2>3, <2>5, <2>7
<1>9. \A z \in 0..m : Curve[z] \in Seq(Plane)
  BY <1>4, <1>8
<1>10. 0 \in 0..m /\ \A z \in 1..m : z \in 0..m
  BY <1>1
<1> QED  BY <1>1, <1>7, <1>9, <1>10 DEF a

\* The tiles of zoom z.
Square(z) == [x : 0..(2^z - 1), y : 0..(2^z - 1)]

\* A turned copy of a square lies in a quarter of the next.
LEMMA TurnStays ==
  ASSUME NEW s \in Nat \ {0}, NEW t \in [x : 0..(s - 1), y : 0..(s - 1)], NEW q \in 0..3
  PROVE  Turn(q, s, t) \in [x : 0..(2 * s - 1), y : 0..(2 * s - 1)]
<1>1. PICK x \in 0..(s - 1), y \in 0..(s - 1) : t = [x |-> x, y |-> y]
  OBVIOUS
<1>2. t.x = x /\ t.y = y
  BY <1>1
<1>3. /\ x \in 0..(2 * s - 1) /\ y \in 0..(2 * s - 1)
      /\ x + s \in 0..(2 * s - 1) /\ y + s \in 0..(2 * s - 1)
      /\ 2 * s - 1 - y \in 0..(2 * s - 1) /\ s - 1 - x \in 0..(2 * s - 1)
  OBVIOUS
<1> QED  BY <1>2, <1>3 DEF Turn

\* Where in a quarter a place is.
LEMMA InQuarter ==
  ASSUME NEW n \in Nat \ {0}, NEW k \in 1..(4 * n)
  PROVE  \E q \in 0..3, i \in 1..n : k = q * n + i
<1>1. CASE k <= n
  <2>1. k \in 1..n /\ k = 0 * n + k
    BY <1>1
  <2> QED  BY <2>1
<1>2. CASE n < k /\ k <= 2 * n
  <2>1. k - n \in 1..n /\ k = 1 * n + (k - n)
    BY <1>2
  <2> QED  BY <2>1
<1>3. CASE 2 * n < k /\ k <= 3 * n
  <2>1. k - 2 * n \in 1..n /\ k = 2 * n + (k - 2 * n)
    BY <1>3
  <2> QED  BY <2>1
<1>4. CASE 3 * n < k
  <2>1. k - 3 * n \in 1..n /\ k = 3 * n + (k - 3 * n)
    BY <1>4
  <2> QED  BY <2>1
<1> QED  BY <1>1, <1>2, <1>3, <1>4

\* A quarter of a zoom's curve is the curve of the zoom above, turned.
LEMMA CurveNext ==
  ASSUME NEW z \in 0..(FinestZoom - 1), NEW n \in Nat, Len(Curve[z]) = n
  PROVE  /\ Len(Curve[z + 1]) = 4 * n
         /\ \A k \in 1..n : \A q \in 0..3 :
              Curve[z + 1][q * n + k] = Turn(q, 2^z, Curve[z][k])
<1>1. FinestZoom \in Nat /\ z \in Nat /\ z + 1 \in 1..FinestZoom /\ (z + 1) - 1 = z
  BY CurveEquation
<1>2. Curve[z] \in Seq(Plane)
  <2>1. z = 0 \/ z \in 1..FinestZoom
    BY <1>1
  <2> QED  BY <2>1, CurveEquation
<1>3. Curve[z + 1] = Quarters(Curve[z], 2^z)
  BY <1>1, CurveEquation
<1>4. 2^z \in Int
  BY <1>1, Subsets
<1> DEFINE c == Curve[z]
           side == 2^z
<1>5. c \in Seq(Plane) /\ side \in Int /\ Len(c) = n
  BY <1>2, <1>4
<1> HIDE DEF c, side
<1>6. /\ Len(Quarters(c, side)) = 4 * n
      /\ \A k \in 1..n : \A q \in 0..3 :
           Quarters(c, side)[q * n + k] = Turn(q, side, c[k])
  BY <1>5, QuartersAre
<1> QED  BY <1>3, <1>6 DEF c, side

\* Each zoom has four times the tiles of the one above.
LEMMA TileCountNext ==
  ASSUME NEW z \in Nat
  PROVE  TileCount(z + 1) = 4 * TileCount(z) /\ TileCount(z) \in Nat \ {0}
<1>1. 2 * z \in Nat /\ 2 * z + 1 \in Nat /\ 2 * (z + 1) = (2 * z + 1) + 1
  OBVIOUS
<1>2. 2^((2 * z + 1) + 1) = 2 * 2^(2 * z + 1) /\ 2^(2 * z + 1) = 2 * 2^(2 * z)
  BY <1>1, PowerNext
<1>3. 2^(2 * z) \in Nat \ {0}
  BY <1>1, Subsets
<1>4. \A u \in Nat : 2 * (2 * u) = 4 * u
  OBVIOUS
<1> QED  BY <1>1, <1>2, <1>3, <1>4 DEF TileCount

CurveFills(z) ==
  /\ Len(Curve[z]) = TileCount(z)
  /\ \A k \in 1..TileCount(z) : Curve[z][k] \in Square(z)

\* The curve of a zoom visits as many tiles as the zoom has, all of the zoom.
LEMMA CurveInSquare == \A z \in 0..FinestZoom : CurveFills(z)
<1>0. FinestZoom \in Nat
  BY CurveEquation
<1>1. CurveFills(0)
  <2>1. 2 * 0 = 0 /\ 2^0 = 1
    OBVIOUS
  <2>2. TileCount(0) = 1
    BY <2>1 DEF TileCount
  <2>3. Len(Curve[0]) = 1 /\ Curve[0][1] = [x |-> 0, y |-> 0]
    BY CurveEquation
  <2>7. \A k \in 1..1 : k = 1
    OBVIOUS
  <2>4. Square(0) = [x : {0}, y : {0}]
    <3>1. 0..(1 - 1) = {0}
      OBVIOUS
    <3> QED  BY <2>1, <3>1 DEF Square
  <2>5. Curve[0][1] \in Square(0)
    BY <2>3, <2>4
  <2>6. \A k \in 1..1 : Curve[0][k] \in Square(0)
    BY <2>7, <2>5
  <2> HIDE DEF Square
  <2> QED  BY <2>2, <2>3, <2>6 DEF CurveFills
<1>2. ASSUME NEW z \in 0..(FinestZoom - 1), CurveFills(z)  PROVE CurveFills(z + 1)
  <2>0. z \in Nat
    BY <1>0
  <2>1. z \in Nat /\ 2^z \in Nat \ {0} /\ 2^(z + 1) = 2 * 2^z
    BY <2>0, Subsets, PowerNext
  <2>2. TileCount(z + 1) = 4 * TileCount(z) /\ TileCount(z) \in Nat \ {0}
    BY <2>1, TileCountNext
  <2> DEFINE n == TileCount(z)
  <2>3. n \in Nat \ {0} /\ Len(Curve[z]) = n
    BY <1>2, <2>2 DEF CurveFills
  <2>4. /\ Len(Curve[z + 1]) = 4 * n
        /\ \A k \in 1..n : \A q \in 0..3 :
             Curve[z + 1][q * n + k] = Turn(q, 2^z, Curve[z][k])
    <3> HIDE DEF n
    <3> QED  BY <2>3, CurveNext
  <2>5. \A k \in 1..n : Curve[z][k] \in Square(z)
    BY <1>2 DEF CurveFills
  <2>6. TileCount(z + 1) = 4 * n
    BY <2>2
  <2> HIDE DEF n
  <2>7. ASSUME NEW k \in 1..(4 * n)  PROVE Curve[z + 1][k] \in Square(z + 1)
    <3>1. PICK q \in 0..3, i \in 1..n : k = q * n + i
      BY <2>3, InQuarter
    <3>2. Curve[z + 1][k] = Turn(q, 2^z, Curve[z][i])
      BY <2>4, <3>1
    <3>3. Curve[z][i] \in [x : 0..(2^z - 1), y : 0..(2^z - 1)]
      BY <2>5 DEF Square
    <3>4. Turn(q, 2^z, Curve[z][i]) \in [x : 0..(2 * 2^z - 1), y : 0..(2 * 2^z - 1)]
      BY <2>1, <3>3, TurnStays
    <3> QED  BY <2>1, <3>2, <3>4 DEF Square
  <2> QED  BY <2>4, <2>6, <2>7 DEF CurveFills
<1> DEFINE Bad == {z \in 0..FinestZoom : ~CurveFills(z)}
<1>3. Bad = {}
  <2>1. SUFFICES ASSUME Bad # {}  PROVE FALSE
    OBVIOUS
  <2>2. PICK z \in Bad : \A j \in Bad : z <= j
    <3>1. Bad \in SUBSET Nat
      BY <1>0
    <3> HIDE DEF Bad
    <3> QED  BY <2>1, <3>1, Smallest
  <2>3. z \in 0..FinestZoom /\ ~CurveFills(z) /\ z # 0
    BY <1>1, <2>2
  <2>4. z - 1 \in 0..FinestZoom /\ z - 1 \in 0..(FinestZoom - 1) /\ ~(z <= z - 1)
        /\ (z - 1) + 1 = z
    BY <1>0, <2>3
  <2>5. z - 1 \notin Bad
    <3> HIDE DEF Bad
    <3> QED  BY <2>2, <2>4
  <2>6. CurveFills(z - 1)
    BY <2>4, <2>5
  <2>7. CurveFills((z - 1) + 1)
    BY <1>2, <2>4, <2>6
  <2> QED  BY <2>3, <2>4, <2>7
<1> QED  BY <1>3

\* Dividing twice.
LEMMA QuotientTwice ==
  ASSUME NEW x \in Nat, NEW a \in Nat \ {0}, NEW b \in Nat \ {0}
  PROVE  (x \div a) \div b = x \div (a * b)
<1> DEFINE q == x \div a
           p == q \div b
<1>1. q \in Nat /\ \E r \in 0..(a - 1) : x = a * q + r
  <2>1. q \in Int /\ a * q <= x /\ x < a * q + a
    OBVIOUS
  <2>2. q >= 0
    OBVIOUS
  <2>3. x - a * q \in 0..(a - 1) /\ x = a * q + (x - a * q)
    BY <2>1
  <2> HIDE DEF q
  <2> QED  BY <2>1, <2>2, <2>3
<1>2. PICK r \in 0..(a - 1) : x = a * q + r
  BY <1>1
<1> HIDE DEF q
<1>3. p \in Nat /\ \E s \in 0..(b - 1) : q = b * p + s
  <2>0. q \in Nat
    BY <1>1
  <2>1. p \in Int /\ b * p <= q /\ q < b * p + b
    BY <2>0
  <2>2. p >= 0
    BY <2>0
  <2>3. q - b * p \in 0..(b - 1) /\ q = b * p + (q - b * p)
    BY <2>0, <2>1
  <2> HIDE DEF p
  <2> QED  BY <2>1, <2>2, <2>3
<1>4. PICK s \in 0..(b - 1) : q = b * p + s
  BY <1>3
<1> HIDE DEF p
<1>5. x = (a * b) * p + (a * s + r)
  BY <1>1, <1>2, <1>3, <1>4
<1>6. a * s + r \in 0..(a * b - 1)
  <2>1. a * (b - 1 - s) \in Nat /\ a * (b - 1 - s) = a * b - a - a * s
    OBVIOUS
  <2>2. a * s \in Nat
    OBVIOUS
  <2>3. a * b \in Nat
    OBVIOUS
  <2> QED  BY <2>1, <2>2, <2>3
<1> DEFINE c == a * b
           t == a * s + r
<1>7. c \in Nat \ {0} /\ t \in 0..(c - 1) /\ x = c * p + t
  BY <1>5, <1>6
<1> HIDE DEF c, t
<1>8. x \div c = p
  BY <1>3, <1>7
<1> QED  BY <1>8 DEF c, p, q


\* To turn and to halve is to halve and to turn.
LEMMA TurnHalves ==
  ASSUME NEW s \in Nat \ {0}, NEW q \in 0..3,
         NEW t \in [x : 0..(2 * s - 1), y : 0..(2 * s - 1)]
  PROVE  /\ Turn(q, 2 * s, t).x \div 2 = Turn(q, s, [x |-> t.x \div 2, y |-> t.y \div 2]).x
         /\ Turn(q, 2 * s, t).y \div 2 = Turn(q, s, [x |-> t.x \div 2, y |-> t.y \div 2]).y
<1>1. PICK x \in 0..(2 * s - 1), y \in 0..(2 * s - 1) : t.x = x /\ t.y = y
  OBVIOUS
<1>2. /\ (x + 2 * s) \div 2 = x \div 2 + s /\ (y + 2 * s) \div 2 = y \div 2 + s
      /\ (2 * (2 * s) - 1 - y) \div 2 = 2 * s - 1 - y \div 2
      /\ (2 * s - 1 - x) \div 2 = s - 1 - x \div 2
  OBVIOUS
<1>3. q = 0 \/ q = 1 \/ q = 2 \/ q = 3
  OBVIOUS
<1>4. CASE q = 0
  BY <1>1, <1>4 DEF Turn
<1>5. CASE q = 1
  BY <1>1, <1>2, <1>5 DEF Turn
<1>6. CASE q = 2
  BY <1>1, <1>2, <1>6 DEF Turn
<1>7. CASE q = 3
  BY <1>1, <1>2, <1>7 DEF Turn
<1> QED  BY <1>3, <1>4, <1>5, <1>6, <1>7

CurveNests(z) ==
  \A k \in 1..TileCount(z + 1) :
    /\ Curve[z + 1][k].x \div 2 = Curve[z][(k - 1) \div 4 + 1].x
    /\ Curve[z + 1][k].y \div 2 = Curve[z][(k - 1) \div 4 + 1].y

\* A fourth of a place is a place of the zoom above.
LEMMA FourthPlaces ==
  ASSUME NEW n \in Nat, NEW k \in 1..(4 * n)
  PROVE  (k - 1) \div 4 + 1 \in 1..n
OBVIOUS

\* The curve stays within a tile while it visits the four below it.
LEMMA CurveNesting == \A z \in 0..(FinestZoom - 1) : CurveNests(z)
<1>0. FinestZoom \in Nat
  BY CurveEquation
<1>1. ASSUME 0 \in 0..(FinestZoom - 1)  PROVE CurveNests(0)
  <2>1. 1 \in 0..FinestZoom /\ 0 \in 0..FinestZoom /\ 0 + 1 = 1
    BY <1>0, <1>1
  <2>2. 2 * 0 = 0 /\ 2^0 = 1 /\ 2^1 = 2
    OBVIOUS
  <2>3. TileCount(0) = 1 /\ TileCount(1) = 4
    <3>1. TileCount(0) = 1
      BY <2>2 DEF TileCount
    <3>2. TileCount(0 + 1) = 4 * TileCount(0)
      BY TileCountNext
    <3> QED  BY <2>1, <3>1, <3>2
  <2>4. Curve[0][1] = [x |-> 0, y |-> 0]
    BY CurveEquation
  <2>5. \A k \in 1..4 : Curve[1][k] \in Square(1)
    BY <2>1, <2>3, CurveInSquare DEF CurveFills
  <2>6. \A k \in 1..4 : Curve[1][k].x \in 0..1 /\ Curve[1][k].y \in 0..1
    BY <2>2, <2>5 DEF Square
  <2>7. \A u \in 0..1 : u \div 2 = 0
    OBVIOUS
  <2>8. \A k \in 1..4 : (k - 1) \div 4 + 1 = 1
    OBVIOUS
  <2> QED  BY <2>1, <2>3, <2>4, <2>6, <2>7, <2>8 DEF CurveNests
<1>2. ASSUME NEW z \in Nat, z + 1 \in 0..(FinestZoom - 1), CurveNests(z)
      PROVE  CurveNests(z + 1)
  <2> DEFINE n == TileCount(z)
             s == 2^z
             zz == z + 1
  <2>1. /\ z \in 0..(FinestZoom - 1) /\ z \in 0..FinestZoom
        /\ zz \in 0..FinestZoom /\ zz \in Nat /\ zz \in 0..(FinestZoom - 1)
    BY <1>0, <1>2
  <2>2. s \in Nat \ {0} /\ 2^zz = 2 * s
    BY Subsets, PowerNext
  <2>3. n \in Nat \ {0} /\ TileCount(zz) = 4 * n /\ TileCount(zz + 1) = 4 * (4 * n)
    BY <2>1, TileCountNext
  <2>4. Len(Curve[z]) = n /\ Len(Curve[zz]) = 4 * n
    <3> HIDE DEF zz
    <3> QED  BY <2>1, <2>3, CurveInSquare DEF CurveFills
  <2>5. \A k \in 1..n : \A q \in 0..3 :
          Curve[zz][q * n + k] = Turn(q, s, Curve[z][k])
    <3> HIDE DEF n
    <3> QED  BY <2>1, <2>3, <2>4, CurveNext
  <2> DEFINE nn == 4 * n
  <2>6. nn \in Nat \ {0} /\ Len(Curve[zz]) = nn
    BY <2>3, <2>4
  <2>7. \A k \in 1..nn : \A q \in 0..3 :
          Curve[zz + 1][q * nn + k] = Turn(q, 2 * s, Curve[zz][k])
    <3> HIDE DEF nn, zz, n
    <3>1. \A k \in 1..nn : \A q \in 0..3 :
            Curve[zz + 1][q * nn + k] = Turn(q, 2^zz, Curve[zz][k])
      BY <2>1, <2>6, CurveNext
    <3> HIDE DEF s
    <3> QED  BY <2>2, <3>1
  <2>8. \A k \in 1..nn : Curve[zz][k] \in [x : 0..(2 * s - 1), y : 0..(2 * s - 1)]
    <3> HIDE DEF zz, n
    <3> QED  BY <2>1, <2>2, <2>3, CurveInSquare DEF CurveFills, Square
  <2>9. \A k \in 1..nn : /\ Curve[zz][k].x \div 2 = Curve[z][(k - 1) \div 4 + 1].x
                         /\ Curve[zz][k].y \div 2 = Curve[z][(k - 1) \div 4 + 1].y
    <3> HIDE DEF n
    <3> QED  BY <1>2, <2>3 DEF CurveNests
  <2>10. \A k \in 1..n : Curve[z][k] \in [x : 0..(s - 1), y : 0..(s - 1)]
    BY <2>1, CurveInSquare DEF CurveFills, Square
  <2> HIDE DEF n, s, zz
  <2>11. ASSUME NEW k \in 1..(4 * nn)
         PROVE  /\ Curve[zz + 1][k].x \div 2 = Curve[zz][(k - 1) \div 4 + 1].x
                /\ Curve[zz + 1][k].y \div 2 = Curve[zz][(k - 1) \div 4 + 1].y
    <3> HIDE DEF nn
    <3>1. PICK q \in 0..3, i \in 1..nn : k = q * nn + i
      BY <2>6, InQuarter
    <3> DEFINE t == Curve[zz][i]
               j == (i - 1) \div 4 + 1
               u == Curve[z][j]
    <3>2. Curve[zz + 1][k] = Turn(q, 2 * s, t)
      BY <2>7, <3>1
    <3>3. t \in [x : 0..(2 * s - 1), y : 0..(2 * s - 1)]
      BY <2>8
    <3>4. j \in 1..n
      BY <2>3, FourthPlaces DEF nn
    <3>5. u = [x |-> t.x \div 2, y |-> t.y \div 2]
      <4>1. u.x = t.x \div 2 /\ u.y = t.y \div 2
        BY <2>9
      <4>2. u \in [x : 0..(s - 1), y : 0..(s - 1)]
        BY <2>10, <3>4
      <4> HIDE DEF t, u, j
      <4> QED  BY <4>1, <4>2
    <3>6. Curve[zz][q * n + j] = Turn(q, s, u)
      <4> HIDE DEF j
      <4> QED  BY <2>5, <3>4
    <3>7. (k - 1) \div 4 + 1 = q * n + j
      <4>1. q = 0 \/ q = 1 \/ q = 2 \/ q = 3
        OBVIOUS
      <4>2. k = q * (4 * n) + i /\ i \in Nat
        BY <2>6, <3>1 DEF nn
      <4>3. CASE q = 0
        BY <2>3, <4>2, <4>3
      <4>4. CASE q = 1
        BY <2>3, <4>2, <4>4
      <4>5. CASE q = 2
        BY <2>3, <4>2, <4>5
      <4>6. CASE q = 3
        BY <2>3, <4>2, <4>6
      <4> QED  BY <4>1, <4>3, <4>4, <4>5, <4>6
    <3> HIDE DEF t, u, j
    <3>8. /\ Turn(q, 2 * s, t).x \div 2 = Turn(q, s, u).x
          /\ Turn(q, 2 * s, t).y \div 2 = Turn(q, s, u).y
      BY <2>2, <3>3, <3>5, TurnHalves
    <3> QED  BY <3>2, <3>6, <3>7, <3>8
  <2> QED  BY <2>3, <2>11 DEF CurveNests, nn, zz
<1> DEFINE Bad == {z \in 0..(FinestZoom - 1) : ~CurveNests(z)}
<1>3. Bad = {}
  <2>1. SUFFICES ASSUME Bad # {}  PROVE FALSE
    OBVIOUS
  <2>2. PICK z \in Bad : \A j \in Bad : z <= j
    <3>1. Bad \in SUBSET Nat
      BY <1>0
    <3> HIDE DEF Bad
    <3> QED  BY <2>1, <3>1, Smallest
  <2>3. z \in 0..(FinestZoom - 1) /\ ~CurveNests(z) /\ z # 0
    BY <1>1, <2>2
  <2>4. z - 1 \in 0..(FinestZoom - 1) /\ z - 1 \in Nat /\ ~(z <= z - 1)
        /\ (z - 1) + 1 = z
    BY <1>0, <2>3
  <2>5. z - 1 \notin Bad
    <3> HIDE DEF Bad
    <3> QED  BY <2>2, <2>4
  <2>6. CurveNests(z - 1)
    BY <2>4, <2>5
  <2>7. CurveNests((z - 1) + 1)
    BY <1>2, <2>3, <2>4, <2>6
  <2> QED  BY <2>3, <2>4, <2>7
<1> QED  BY <1>3

\* The place on the curve d zooms above.
CurveUnder(z, d) ==
  \A k \in 1..TileCount(z + d) :
    /\ Curve[z + d][k].x \div 2^d = Curve[z][(k - 1) \div TileCount(d) + 1].x
    /\ Curve[z + d][k].y \div 2^d = Curve[z][(k - 1) \div TileCount(d) + 1].y

\* What holds d zooms below a tile holds one zoom further.
LEMMA UnderNext ==
  ASSUME NEW z \in Nat, NEW d \in Nat, z + d + 1 \in 0..FinestZoom, CurveUnder(z, d)
  PROVE  CurveUnder(z, d + 1)
<1> DEFINE n == TileCount(z + d)
           c == TileCount(d)
           s == 2^d
           w == z + d
<1>0. FinestZoom \in Nat
  BY CurveEquation
<1>1. /\ w \in Nat /\ w \in 0..FinestZoom /\ w + 1 \in 0..FinestZoom
      /\ w \in 0..(FinestZoom - 1) /\ z + (d + 1) = w + 1
  BY <1>0
<1>2. s \in Nat \ {0} /\ 2^(d + 1) = 2 * s
  BY Subsets, PowerNext
<1>3. n \in Nat \ {0} /\ TileCount(w + 1) = 4 * n
  BY <1>1, TileCountNext
<1>4. c \in Nat \ {0} /\ TileCount(d + 1) = 4 * c
  BY TileCountNext
<1>5. \A k \in 1..n : /\ Curve[w][k].x \div s = Curve[z][(k - 1) \div c + 1].x
                      /\ Curve[w][k].y \div s = Curve[z][(k - 1) \div c + 1].y
  BY DEF CurveUnder
<1> HIDE DEF n, c, s
<1>6. ASSUME NEW k \in 1..(4 * n)
      PROVE  /\ Curve[w + 1][k].x \div (2 * s) = Curve[z][(k - 1) \div (4 * c) + 1].x
             /\ Curve[w + 1][k].y \div (2 * s) = Curve[z][(k - 1) \div (4 * c) + 1].y
  <2> HIDE DEF w
  <2> DEFINE t == Curve[w + 1][k]
             j == (k - 1) \div 4 + 1
  <2>1. j \in 1..n
    BY <1>3, FourthPlaces
  <2>2. t.x \div 2 = Curve[w][j].x /\ t.y \div 2 = Curve[w][j].y
    BY <1>1, <1>3, CurveNesting DEF CurveNests
  <2>3. t.x \in Nat /\ t.y \in Nat
    <3>1. t \in Square(w + 1)
      BY <1>1, <1>3, CurveInSquare DEF CurveFills
    <3> HIDE DEF t
    <3>2. t.x \in 0..(2^(w + 1) - 1) /\ t.y \in 0..(2^(w + 1) - 1)
      BY <3>1 DEF Square
    <3> QED  BY <3>2
  <2>4. k - 1 \in Nat /\ j - 1 = (k - 1) \div 4
    <3>1. k \in Nat /\ k - 1 \in Nat
      BY <1>3
    <3>2. (k - 1) \div 4 \in Int
      BY <3>1
    <3> QED  BY <3>1, <3>2
  <2>5. (j - 1) \div c = (k - 1) \div (4 * c)
    BY <1>4, <2>4, QuotientTwice
  <2> HIDE DEF t, j
  <2>6. (t.x \div 2) \div s = t.x \div (2 * s) /\ (t.y \div 2) \div s = t.y \div (2 * s)
    BY <1>2, <2>3, QuotientTwice
  <2>7. /\ Curve[w][j].x \div s = Curve[z][(j - 1) \div c + 1].x
        /\ Curve[w][j].y \div s = Curve[z][(j - 1) \div c + 1].y
    BY <1>5, <2>1
  <2>8. /\ t.x \div (2 * s) = Curve[z][(k - 1) \div (4 * c) + 1].x
        /\ t.y \div (2 * s) = Curve[z][(k - 1) \div (4 * c) + 1].y
    BY <2>2, <2>5, <2>6, <2>7
  <2> QED  BY <2>8 DEF t
<1> HIDE DEF w
<1> QED  BY <1>1, <1>2, <1>3, <1>4, <1>6 DEF CurveUnder

\* The curve below a tile stays within it, however far below.
LEMMA CurveAbove ==
  ASSUME NEW z \in Nat, NEW d \in Nat, z + d \in 0..FinestZoom
  PROVE  CurveUnder(z, d)
<1>0. FinestZoom \in Nat
  BY CurveEquation
<1>1. CurveUnder(z, 0)
  <2>1. TileCount(0) = 1 /\ 2^0 = 1
    <3>1. 2 * 0 = 0 /\ 2^0 = 1
      OBVIOUS
    <3> QED  BY <3>1 DEF TileCount
  <2>2. z + 0 = z /\ z \in 0..FinestZoom
    BY <1>0
  <2>3. \A k \in 1..TileCount(z) : Curve[z][k].x \in Nat /\ Curve[z][k].y \in Nat
    <3>1. ASSUME NEW k \in 1..TileCount(z)  PROVE Curve[z][k].x \in Nat /\ Curve[z][k].y \in Nat
      <4>1. Curve[z][k] \in Square(z)
        BY <2>2, CurveInSquare DEF CurveFills
      <4>2. Curve[z][k].x \in 0..(2^z - 1) /\ Curve[z][k].y \in 0..(2^z - 1)
        BY <4>1 DEF Square
      <4> QED  BY <4>2
    <3> QED  BY <3>1
  <2>4. \A u \in Nat : u \div 1 = u
    OBVIOUS
  <2>5. TileCount(z) \in Nat
    BY ZoomIds
  <2>6. \A k \in 1..TileCount(z) : k - 1 \in Nat /\ (k - 1) \div 1 + 1 = k
    BY <2>5
  <2> QED  BY <2>1, <2>2, <2>3, <2>4, <2>6 DEF CurveUnder
<1> DEFINE Bad == {e \in 0..d : ~CurveUnder(z, e)}
<1>3. Bad = {}
  <2>1. SUFFICES ASSUME Bad # {}  PROVE FALSE
    OBVIOUS
  <2>2. PICK e \in Bad : \A j \in Bad : e <= j
    <3>1. Bad \in SUBSET Nat
      OBVIOUS
    <3> HIDE DEF Bad
    <3> QED  BY <2>1, <3>1, Smallest
  <2>3. e \in 0..d /\ ~CurveUnder(z, e) /\ e # 0
    BY <1>1, <2>2
  <2>4. e - 1 \in 0..d /\ e - 1 \in Nat /\ ~(e <= e - 1)
        /\ (e - 1) + 1 = e /\ z + (e - 1) + 1 \in 0..FinestZoom
    BY <1>0, <2>3
  <2>5. e - 1 \notin Bad
    <3> HIDE DEF Bad
    <3> QED  BY <2>2, <2>4
  <2>6. CurveUnder(z, e - 1)
    BY <2>4, <2>5
  <2>7. CurveUnder(z, (e - 1) + 1)
    BY <2>4, <2>6, UnderNext
  <2> QED  BY <2>3, <2>4, <2>7
<1>4. d \in 0..d
  OBVIOUS
<1> QED  BY <1>3, <1>4

-----------------------------------------------------------------------------
(* Places *)

\* Where a tile lies: in the square of its zoom, at a place of the curve.
LEMMA Placing ==
  ASSUME NEW z \in 0..FinestZoom, NEW id \in IdsOf(z)
  PROVE  /\ z \in Nat /\ id \in Nat /\ id - FirstId(z) \in Nat
         /\ id - FirstId(z) + 1 \in 1..TileCount(z)
         /\ Place(z, id) = Curve[z][id - FirstId(z) + 1]
         /\ Place(z, id) \in Square(z) /\ Place(z, id) \in [x : Nat, y : Nat]
<1>1. z \in Nat
  BY CurveEquation
<1>2. TileCount(z) \in Nat \ {0} /\ FirstId(z) \in Nat /\ LastId(z) = FirstId(z) + TileCount(z) - 1
  BY <1>1, ZoomIds
<1>3. id \in FirstId(z)..LastId(z)
  BY DEF IdsOf
<1>4. /\ id \in Nat /\ id - FirstId(z) \in Nat /\ id - FirstId(z) + 1 \in 1..TileCount(z)
  BY <1>2, <1>3
<1>5. Place(z, id) = Curve[z][id - FirstId(z) + 1]
  BY DEF Place, Curves
<1>6. Place(z, id) \in Square(z)
  BY <1>4, <1>5, CurveInSquare DEF CurveFills
<1>7. 0..(2^z - 1) \subseteq Nat
  OBVIOUS
<1>8. Place(z, id) \in [x : Nat, y : Nat]
  BY <1>6, <1>7 DEF Square
<1> QED  BY <1>1, <1>4, <1>5, <1>6, <1>8

\* The tile of a zoom above that a tile lies in is the one whose
\* descendants it is one of.
LEMMA PlaceAbove ==
  ASSUME NEW p \in Nat, NEW z \in 0..FinestZoom, p <= z, NEW id \in IdsOf(z),
         NEW up, up = FirstId(p) + (id - FirstId(z)) \div TileCount(z - p)
  PROVE  /\ up \in IdsOf(p)
         /\ Place(z, id).x \div 2^(z - p) = Place(p, up).x
         /\ Place(z, id).y \div 2^(z - p) = Place(p, up).y
<1> DEFINE d == z - p
           k == id - FirstId(z) + 1
           c == TileCount(d)
           q == (id - FirstId(z)) \div c
<1>0. FinestZoom \in Nat
  BY CurveEquation
<1>1. z \in Nat /\ d \in Nat /\ p + d = z /\ p \in 0..FinestZoom /\ p + d \in 0..FinestZoom
  BY <1>0
<1>2. /\ id - FirstId(z) \in Nat /\ k \in 1..TileCount(z) /\ Place(z, id) = Curve[z][k]
      /\ id - FirstId(z) < TileCount(z) /\ k - 1 = id - FirstId(z)
  <2>1. id - FirstId(z) \in Nat /\ k \in 1..TileCount(z) /\ Place(z, id) = Curve[z][k]
    BY Placing
  <2>2. TileCount(z) \in Nat
    BY <1>1, ZoomIds
  <2>3. PICK e \in Nat : e = id - FirstId(z)
    BY <2>1
  <2> QED  BY <2>1, <2>2, <2>3
<1>3. c \in Nat \ {0} /\ TileCount(z) = TileCount(p) * c
  BY <1>1, TilesUnder
<1>4. TileCount(p) \in Nat \ {0} /\ FirstId(p) \in Nat
      /\ LastId(p) = FirstId(p) + TileCount(p) - 1
  BY ZoomIds
<1>5. CurveUnder(p, d)
  BY <1>1, CurveAbove
<1> HIDE DEF d, c
<1>6. q \in Nat /\ q <= TileCount(p) - 1
  <2>1. PICK e \in Nat : e = id - FirstId(z) /\ e < TileCount(p) * c
    BY <1>2, <1>3
  <2>2. e \div c \in Nat
    BY <1>3, <2>1, Quotient
  <2> DEFINE b == TileCount(p) - 1
  <2>3. b \in Int /\ b + 1 = TileCount(p)
    BY <1>4
  <2>4. (b + 1) * c \in Int /\ 0 * c = 0 /\ e <= (b + 1) * c - 1
    <3>1. PICK h \in Int : h = TileCount(p) * c
      BY <1>3, <1>4
    <3> HIDE DEF b
    <3>2. 0 * c = 0
      BY <1>3
    <3> QED  BY <2>1, <2>3, <3>1, <3>2
  <2> HIDE DEF b
  <2>5. 0 * c <= e
    BY <2>1, <2>4
  <2>6. e \div c <= b
    BY <1>3, <2>1, <2>3, <2>4, <2>5, QuotientBetween
  <2> QED  BY <2>1, <2>2, <2>6 DEF b
<1>7. up = FirstId(p) + q
  BY DEF c, d
<1>8. up \in IdsOf(p) /\ up - FirstId(p) = q
  <2> HIDE DEF q
  <2> QED  BY <1>4, <1>6, <1>7 DEF IdsOf
<1>9. Place(p, up) = Curve[p][q + 1]
  <2> HIDE DEF q
  <2> QED  BY <1>1, <1>8, Placing
<1>10. /\ Curve[z][k].x \div 2^d = Curve[p][(k - 1) \div c + 1].x
       /\ Curve[z][k].y \div 2^d = Curve[p][(k - 1) \div c + 1].y
  <2> HIDE DEF k
  <2> QED  BY <1>1, <1>2, <1>5 DEF CurveUnder, c
<1>11. (k - 1) \div c = q
  BY <1>2
<1> HIDE DEF k, q
<1> QED  BY <1>2, <1>8, <1>9, <1>10, <1>11 DEF d

\* Quotients are no further apart than what is divided.
LEMMA QuotientNear ==
  ASSUME NEW a \in Nat, NEW b \in Nat, NEW s \in Nat \ {0}, NEW m \in Nat, a <= b + m
  PROVE  a \div s <= b \div s + m
<1> DEFINE p == a \div s
           q == b \div s
<1>1. p \in Nat /\ p * s <= a /\ q \in Nat /\ b < (q + 1) * s
  BY Quotient
<1> HIDE DEF p, q
<1>2. SUFFICES ASSUME p > q + m  PROVE FALSE
  BY <1>1 DEF p, q
<1>3. (q + 1 + m) * s <= p * s
  <2>1. q + 1 + m = p \/ q + 1 + m < p
    BY <1>1, <1>2
  <2>2. q + 1 + m \in Int /\ p \in Int
    BY <1>1
  <2>3. q + 1 + m < p => (q + 1 + m) * s < p * s
    BY <2>2, Scaled
  <2>4. (q + 1 + m) * s \in Int /\ p * s \in Int
    BY <2>2
  <2> QED  BY <2>1, <2>3, <2>4
<1>4. (q + 1 + m) * s = (q + 1) * s + m * s /\ m <= m * s
  BY <1>1
<1>5. PICK u \in Int, v \in Int, w \in Int : u = p * s /\ v = (q + 1) * s /\ w = m * s
  BY <1>1
<1> QED  BY <1>1, <1>3, <1>4, <1>5

-----------------------------------------------------------------------------
(* The whole weight *)

\* The rectangle around some tiles holds them all.
LEMMA HullAround ==
  ASSUME NEW T, T # {}, T \subseteq [x : Nat, y : Nat], NEW b \in Nat,
         \A t \in T : t.x <= b /\ t.y <= b
  PROVE  /\ \A t \in T : Inside(t, Hull(T))
         /\ Hull(T) \in [x0 : Nat, x1 : Nat, y0 : Nat, y1 : Nat]
<1> DEFINE Least(S) == CHOOSE m \in S : \A n \in S : m <= n
           Most(S) == CHOOSE m \in S : \A n \in S : m >= n
           xs == {t.x : t \in T}
           ys == {t.y : t \in T}
<1>1. Hull(T) = [x0 |-> Least(xs), x1 |-> Most(xs), y0 |-> Least(ys), y1 |-> Most(ys)]
  BY DEF Hull
<1>2. ASSUME NEW S \in SUBSET Nat, S # {}, \A n \in S : n <= b
      PROVE  /\ Least(S) \in S /\ \A n \in S : Least(S) <= n
             /\ Most(S) \in S /\ \A n \in S : Most(S) >= n
  <2>1. \E x \in S : \A n \in S : x <= n
    BY <1>2, Smallest
  <2>2. S \in SUBSET Int
    OBVIOUS
  <2>3. Max(S) \in S /\ \A n \in S : n <= Max(S)
    <3>1. b \in Int /\ S # {} /\ \A n \in S : n <= b
      BY <1>2
    <3> HIDE DEF Least, Most
    <3> QED  BY ONLY <2>2, <3>1, Greatest
  <2> DEFINE M == Max(S)
  <2>4. M \in S /\ \A n \in S : n <= M
    BY <2>3
  <2> HIDE DEF M
  <2>5. M \in S /\ \A n \in S : M >= n
    BY <2>4
  <2> QED  BY <2>1, <2>5
<1>3. /\ xs \in SUBSET Nat /\ xs # {} /\ \A n \in xs : n <= b
      /\ ys \in SUBSET Nat /\ ys # {} /\ \A n \in ys : n <= b
  OBVIOUS
<1>4. /\ Least(xs) \in Nat /\ Most(xs) \in Nat /\ \A n \in xs : Least(xs) <= n /\ n <= Most(xs)
      /\ Least(ys) \in Nat /\ Most(ys) \in Nat /\ \A n \in ys : Least(ys) <= n /\ n <= Most(ys)
  <2>1. /\ Least(xs) \in xs /\ \A n \in xs : Least(xs) <= n
        /\ Most(xs) \in xs /\ \A n \in xs : Most(xs) >= n
    BY <1>2, <1>3
  <2>2. /\ Least(ys) \in ys /\ \A n \in ys : Least(ys) <= n
        /\ Most(ys) \in ys /\ \A n \in ys : Most(ys) >= n
    BY <1>2, <1>3
  <2> HIDE DEF Least, Most, xs, ys
  <2> QED  BY <1>3, <2>1, <2>2
<1>5. \A t \in T : t.x \in xs /\ t.y \in ys
  OBVIOUS
<1> HIDE DEF Least, Most, xs, ys
<1> QED  BY <1>1, <1>4, <1>5 DEF Inside

\* What sums over parts of D obey.
Additive(f, D) ==
  /\ \A s \in SUBSET D : SumFunctionOnSet(f, s) \in Nat
  /\ SumFunctionOnSet(f, {}) = 0
  /\ \A x \in D : SumFunctionOnSet(f, {x}) = f[x]
  /\ \A a, b \in SUBSET D : a \cap b = {} =>
       SumFunctionOnSet(f, a \cup b)
         = SumFunctionOnSet(f, a) + SumFunctionOnSet(f, b)

\* A sum of naturals over a finite set is additive.
LEMMA Adds ==
  ASSUME NEW D, IsFiniteSet(D), NEW f, \A k \in D : f[k] \in Nat
  PROVE  Additive(f, D)
<1>1. Summable(f, f, D)
  BY DEF Summable
<1>2. /\ \A s \in SUBSET D : SumFunctionOnSet(f, s) \in Nat
      /\ SumFunctionOnSet(f, {}) = 0
      /\ \A x \in D : SumFunctionOnSet(f, {x}) = f[x]
      /\ \A a, b \in SUBSET D : a \cap b = {} =>
           SumFunctionOnSet(f, a \cup b)
             = SumFunctionOnSet(f, a) + SumFunctionOnSet(f, b)
  BY <1>1, Summing
<1> QED  BY <1>2 DEF Additive

\* Sums over two sets, in either order.
SumOver(f, D, E) == [d \in D |-> SumFunctionOnSet(f[d], E)]
SumDown(f, s, D, E) == [e \in E |-> SumFunctionOnSet([d \in D |-> f[d][e]], s)]

\* Summed by rows and by columns, a table comes to the same with one row more.
LEMMA SumDownSome ==
  ASSUME NEW D, IsFiniteSet(D), NEW E, IsFiniteSet(E), NEW f,
         \A d \in D : \A e \in E : f[d][e] \in Nat,
         NEW s \in SUBSET D, NEW x \in s,
         SumFunctionOnSet(SumOver(f, D, E), s \ {x})
           = SumFunctionOnSet(SumDown(f, s \ {x}, D, E), E)
  PROVE  SumFunctionOnSet(SumOver(f, D, E), s)
           = SumFunctionOnSet(SumDown(f, s, D, E), E)
<1> DEFINE r == s \ {x}
           R1 == SumOver(f, D, E)
           a == SumDown(f, r, D, E)
           h == SumDown(f, s, D, E)
<1>0. IsFiniteSet(D) /\ IsFiniteSet(E)
  OBVIOUS
<1>1. x \in D /\ r \in SUBSET D /\ {x} \in SUBSET D /\ r \cap {x} = {} /\ r \cup {x} = s
  OBVIOUS
<1>2. ASSUME NEW d \in D  PROVE R1[d] = SumFunctionOnSet(f[d], E) /\ R1[d] \in Nat
  <2>1. Summable(f[d], f[d], E)
    BY DEF Summable
  <2>2. SumFunctionOnSet(f[d], E) \in Nat
    BY <2>1, Summing
  <2> QED  BY <2>2 DEF SumOver
<1>3. SumFunctionOnSet(R1, s) = SumFunctionOnSet(R1, r) + R1[x]
  <2> HIDE DEF R1, r
  <2>1. Additive(R1, D)
    BY <1>2, Adds
  <2>2. SumFunctionOnSet(R1, r \cup {x})
          = SumFunctionOnSet(R1, r) + SumFunctionOnSet(R1, {x})
    BY ONLY <1>1, <2>1 DEF Additive
  <2>3. SumFunctionOnSet(R1, {x}) = R1[x]
    BY ONLY <1>1, <2>1 DEF Additive
  <2> QED  BY <1>1, <2>2, <2>3
<1>4. ASSUME NEW e \in E
      PROVE  a[e] \in Nat /\ f[x][e] \in Nat /\ h[e] = a[e] + f[x][e]
  <2> DEFINE c == [d \in D |-> f[d][e]]
  <2>1. (\A d \in D : c[d] \in Nat) /\ c[x] = f[x][e] /\ f[x][e] \in Nat
    BY <1>1
  <2>2. a[e] = SumFunctionOnSet(c, r) /\ h[e] = SumFunctionOnSet(c, s)
    BY DEF SumDown
  <2> HIDE DEF c, r, a, h
  <2>3. Additive(c, D)
    BY <2>1, Adds
  <2>4. SumFunctionOnSet(c, r) \in Nat /\ SumFunctionOnSet(c, {x}) = c[x]
    BY ONLY <1>1, <2>3 DEF Additive
  <2>5. SumFunctionOnSet(c, r \cup {x})
          = SumFunctionOnSet(c, r) + SumFunctionOnSet(c, {x})
    BY ONLY <1>1, <2>3 DEF Additive
  <2> QED  BY <1>1, <2>1, <2>2, <2>4, <2>5
<1>5. SumFunctionOnSet(h, E) = SumFunctionOnSet(a, E) + SumFunctionOnSet(f[x], E)
  <2> DEFINE g == f[x]
  <2>1. \A e \in E : a[e] \in Nat /\ g[e] \in Nat /\ h[e] = a[e] + g[e]
    BY <1>4
  <2> HIDE DEF a, g, h
  <2>2. SumFunctionOnSet(h, E) = SumFunctionOnSet(a, E) + SumFunctionOnSet(g, E)
    BY <2>1, SumPlus
  <2> QED  BY <2>2 DEF g
<1>6. R1[x] = SumFunctionOnSet(f[x], E)
  BY <1>1, <1>2
<1> HIDE DEF R1, a, h
<1>7. SumFunctionOnSet(R1, r) = SumFunctionOnSet(a, E)
  BY DEF R1, a, r
<1> HIDE DEF r
<1>8. SumFunctionOnSet(R1, s) = SumFunctionOnSet(h, E)
  BY <1>3, <1>5, <1>6, <1>7
<1> QED  BY <1>8 DEF R1, h

\* So it does with all of them: by row groups or by tiles.
LEMMA SumSwap ==
  ASSUME NEW D, IsFiniteSet(D), NEW E, IsFiniteSet(E), NEW f,
         \A d \in D : \A e \in E : f[d][e] \in Nat
  PROVE  SumFunctionOnSet(SumOver(f, D, E), D)
           = SumFunctionOnSet(SumDown(f, D, D, E), E)
<1> DEFINE Good(s) == SumFunctionOnSet(SumOver(f, D, E), s)
                        = SumFunctionOnSet(SumDown(f, s, D, E), E)
           Bad == {n \in Nat : \E s \in SUBSET D : Cardinality(s) = n /\ ~Good(s)}
<1>1. Good({})
  <2>1. \A d \in D : SumOver(f, D, E)[d] \in Nat
    <3>1. SUFFICES ASSUME NEW d \in D  PROVE SumFunctionOnSet(f[d], E) \in Nat
      BY DEF SumOver
    <3>2. Summable(f[d], f[d], E)
      BY DEF Summable
    <3> QED  BY <3>2, Summing
  <2> DEFINE R1 == SumOver(f, D, E)
  <2>2. SumFunctionOnSet(R1, {}) = 0
    <3>1. Summable(R1, R1, D)
      BY <2>1 DEF Summable
    <3> HIDE DEF R1
    <3> QED  BY <3>1, Summing
  <2> DEFINE h == SumDown(f, {}, D, E)
  <2>3. ASSUME NEW e \in E  PROVE h[e] = 0
    <3> DEFINE c == [d \in D |-> f[d][e]]
    <3>1. Summable(c, c, D) /\ h[e] = SumFunctionOnSet(c, {})
      BY DEF Summable, SumDown
    <3> HIDE DEF c, h
    <3>2. SumFunctionOnSet(c, {}) = 0
      BY <3>1, Summing
    <3> QED  BY <3>1, <3>2
  <2> HIDE DEF h
  <2>4. SumFunctionOnSet(h, E) = 0
    BY <2>3, SumOfZeros
  <2> HIDE DEF R1
  <2>5. SumFunctionOnSet(R1, {}) = SumFunctionOnSet(h, E)
    BY <2>2, <2>4
  <2> QED  BY <2>5 DEF R1, h
<1>2. ASSUME NEW s \in SUBSET D, NEW x \in s, Good(s \ {x})  PROVE Good(s)
  BY <1>2, SumDownSome
<1> HIDE DEF Good
<1>3. SUFFICES ASSUME ~Good(D)  PROVE FALSE
  BY DEF Good
<1>4. Bad \in SUBSET Nat /\ Bad # {}
  <2>1. Cardinality(D) \in Nat /\ D \in SUBSET D
    BY FS_CardinalityType
  <2> QED  BY <1>3, <2>1
<1>5. PICK m \in Bad : \A n \in Bad : m <= n
  <2> HIDE DEF Bad
  <2> QED  BY <1>4, Smallest
<1>6. PICK s \in SUBSET D : Cardinality(s) = m /\ ~Good(s)
  OBVIOUS
<1>7. s # {}
  BY <1>1, <1>6
<1>8. PICK x : x \in s
  BY <1>7
<1>9. /\ s \ {x} \in SUBSET D /\ Cardinality(s) \in Nat \ {0}
      /\ Cardinality(s \ {x}) = Cardinality(s) - 1
  BY <1>8, OneLess
<1>10. m \in Nat \ {0} /\ m - 1 \in Nat /\ ~(m <= m - 1) /\ Cardinality(s \ {x}) = m - 1
  BY <1>6, <1>9
<1>11. m - 1 \notin Bad
  <2> HIDE DEF Bad
  <2> QED  BY <1>5, <1>10
<1>12. Good(s \ {x})
  BY <1>9, <1>10, <1>11
<1> QED  BY <1>2, <1>6, <1>8, <1>12

\* A group's rows are shared out without a remainder.
LEMMA SharedOut ==
  ASSUME NEW n \in Nat, NEW s, s \in SUBSET Ids, s # {}
  PROVE  /\ Cardinality(s) \in Nat \ {0}
         /\ (n * Scale) \div Cardinality(s) \in Nat
         /\ Cardinality(s) * ((n * Scale) \div Cardinality(s)) = n * Scale
<1>1. IsFiniteSet(s) /\ IsFiniteSet(Ids)
  BY PivotIds, FS_Subset
<1>2. Cardinality(s) \in Nat \ {0}
  BY <1>1, FS_CardinalityType, FS_EmptySet
<1>3. Cardinality(s) <= TileCount(Pivot)
  <2>1. Cardinality(s) <= Cardinality(Ids)
    BY <1>1, FS_Subset
  <2>2. Cardinality(Ids) = LastTile - FirstTile + 1
    <3>1. FirstTile \in Int /\ LastTile \in Int /\ FirstTile <= LastTile
      BY PivotIds
    <3>2. Cardinality(FirstTile..LastTile) = LastTile - FirstTile + 1
      BY <3>1, FS_Interval
    <3> QED  BY <3>2, PivotIds
  <2>3. LastTile - FirstTile + 1 = TileCount(Pivot)
    BY PivotIds
  <2> QED  BY <2>1, <2>2, <2>3
<1>4. PICK c \in Nat \ {0} : c = Cardinality(s)
  BY <1>2
<1>5. Scale \in Nat /\ Scale % c = 0
  <2>1. c \in 1..TileCount(Pivot)
    BY <1>3, <1>4, PivotIds
  <2> QED  BY <2>1, ScaleAssumption
<1>6. PICK q \in Nat : q = Scale \div c
  BY <1>5, Quotient
<1>7. Scale = c * q
  BY <1>5, <1>6
<1>8. n * Scale = c * (n * q) /\ n * q \in Nat /\ n * Scale \in Nat
  BY <1>5, <1>7
<1>9. PICK e \in Nat, h \in Nat : e = n * Scale /\ h = n * q
  BY <1>8
<1>10. e = c * h
  BY <1>8, <1>9
<1>11. e \div c = h
  BY <1>10
<1> QED  BY <1>4, <1>9, <1>10, <1>11

\* The rows held back are spread over at least one tile.
LEMMA ExtentHolds ==
  ASSUME Typed
  PROVE  Extent \in SUBSET Ids /\ Extent # {}
<1>1. Extent \in SUBSET Ids
  BY DEF Extent, IdsIn, Ids
<1>2. CASE Covering = {}
  <2>1. FirstTile \in Ids
    BY PivotIds
  <2> QED  BY <1>1, <1>2, <2>1 DEF Extent
<1>3. CASE Covering # {}
  <2> DEFINE C == UNION {groups[g].tiles : g \in Covering}
             T == {Place(Pivot, id) : id \in C}
  <2>1. /\ Len(groups) \in Nat /\ DOMAIN groups = 1..Len(groups)
        /\ \A g \in 1..Len(groups) : groups[g] \in [rows : Nat, tiles : SUBSET Ids]
    BY Members DEF Typed
  <2>2. C \in SUBSET Ids
    BY <2>1 DEF Covering
  <2>3. PICK g \in Covering : groups[g].tiles # {}
    BY <1>3 DEF Covering
  <2>4. PICK id : id \in groups[g].tiles
    BY <2>3
  <2>5. id \in C
    BY <2>4
  <2>6. Pivot \in 0..FinestZoom /\ Ids = IdsOf(Pivot)
    BY CutAssumption, ZoomAssumption DEF Ids
  <2> DEFINE b == 2^Pivot
  <2>7. b \in Nat
    BY PivotIds, Subsets
  <2> HIDE DEF C
  <2>8. \A t \in T : t \in [x : Nat, y : Nat] /\ t.x <= b /\ t.y <= b
    <3>1. SUFFICES ASSUME NEW k \in Ids
                   PROVE  /\ Place(Pivot, k) \in [x : Nat, y : Nat]
                          /\ Place(Pivot, k).x <= b /\ Place(Pivot, k).y <= b
      BY <2>2
    <3>2. Place(Pivot, k) \in Square(Pivot) /\ Place(Pivot, k) \in [x : Nat, y : Nat]
      BY <2>6, Placing
    <3>3. Place(Pivot, k).x \in 0..(b - 1) /\ Place(Pivot, k).y \in 0..(b - 1)
      BY <3>2 DEF Square
    <3> HIDE DEF b
    <3> QED  BY <2>7, <3>2, <3>3
  <2>9. T # {} /\ T \subseteq [x : Nat, y : Nat] /\ Place(Pivot, id) \in T
    BY <2>5, <2>8
  <2> HIDE DEF T, b
  <2>10. Inside(Place(Pivot, id), Hull(T))
    BY <2>7, <2>8, <2>9, HullAround
  <2>11. id \in IdsIn(Pivot, Hull(T))
    BY <2>2, <2>5, <2>6, <2>10 DEF IdsIn
  <2>12. Extent = IdsIn(Pivot, Hull(T))
    BY <1>3 DEF Extent, T, C
  <2> QED  BY <1>1, <2>11, <2>12
<1> QED  BY <1>2, <1>3

\* Rows that are spread over some of the tiles weigh what they are.
LEMMA SpreadOut ==
  ASSUME NEW n \in Nat, NEW D, D \in SUBSET Ids, NEW s, s \in SUBSET D, s # {}, NEW f,
         \A id \in D : f[id] = IF id \in s THEN (n * Scale) \div Cardinality(s) ELSE 0
  PROVE  /\ \A id \in D : f[id] \in Nat
         /\ SumFunctionOnSet(f, D) = n * Scale
<1>1. s \in SUBSET Ids /\ IsFiniteSet(D)
  BY PivotIds, FS_Subset
<1>2. /\ Cardinality(s) \in Nat \ {0}
      /\ (n * Scale) \div Cardinality(s) \in Nat
      /\ Cardinality(s) * ((n * Scale) \div Cardinality(s)) = n * Scale
  BY <1>1, SharedOut
<1>3. PICK q \in Nat : q = (n * Scale) \div Cardinality(s)
  BY <1>2
<1> DEFINE m == [id \in D |-> IF id \in s THEN 1 ELSE 0]
<1>4. SumFunctionOnSet(m, D) = Cardinality(s)
  <2>1. \A id \in D : m[id] = IF id \in s THEN 1 ELSE 0
    OBVIOUS
  <2> HIDE DEF m
  <2> QED  BY <1>1, <2>1, SumOfMarks
<1>5. \A id \in D : m[id] \in Nat /\ f[id] = m[id] * q /\ f[id] \in Nat
  <2>1. 1 * q = q /\ 0 * q = 0
    OBVIOUS
  <2> QED  BY <1>3, <2>1
<1> HIDE DEF m
<1>6. SumFunctionOnSet(f, D) = SumFunctionOnSet(m, D) * q
  BY <1>1, <1>5, SumScaled
<1> QED  BY <1>2, <1>3, <1>4, <1>5, <1>6

\* What is weighed comes to all the rows of the input, in units of 1/Scale.
LEMMA Weighs ==
  ASSUME Typed, Weigh
  PROVE  Total' = Scale * RowsOf(DOMAIN groups)
<1> DEFINE PerTile(n, tiles) == (n * Scale) \div Cardinality(tiles)
           Spread == IF HeldBack > 0 THEN Extent ELSE {}
           Touched == Spread \cup UNION {groups[g].tiles : g \in Placed}
           Share(id) == [g \in Placed |->
              IF id \in groups[g].tiles
              THEN PerTile(groups[g].rows, groups[g].tiles) ELSE 0]
           Rest(id) == IF id \in Spread THEN PerTile(HeldBack, Extent) ELSE 0
<1>1. weight' = [id \in Touched |-> SumFunction(Share(id)) + Rest(id)]
  BY DEF Weigh
<1>2. /\ Len(groups) \in Nat /\ DOMAIN groups = 1..Len(groups)
      /\ \A g \in 1..Len(groups) : groups[g] \in [rows : Nat, tiles : SUBSET Ids]
  BY Members DEF Typed
<1>3. /\ Placed \in SUBSET DOMAIN groups /\ IsFiniteSet(DOMAIN groups)
      /\ \A g \in Placed : /\ groups[g].rows \in Nat
                           /\ groups[g].tiles \in SUBSET Ids /\ groups[g].tiles # {}
  <2>1. Placed \in SUBSET DOMAIN groups /\ \A g \in Placed : groups[g].tiles # {}
    BY DEF Placed, Covering
  <2>2. IsFiniteSet(DOMAIN groups)
    BY <1>2, FS_Interval
  <2> QED  BY <1>2, <2>1, <2>2
<1>4. IsFiniteSet(Placed)
  BY <1>3, FS_Subset
<1>5. HeldBack \in Nat
  <2>1. DOMAIN groups \ Placed \in SUBSET DOMAIN groups
    OBVIOUS
  <2> QED  BY <2>1, RowsOfGroups DEF HeldBack
<1>6. Extent \in SUBSET Ids /\ Extent # {}
  BY ExtentHolds
<1>7. Touched \in SUBSET Ids
  BY <1>3, <1>6
<1>8. IsFiniteSet(Touched)
  BY <1>7, PivotIds, FS_Subset
<1> DEFINE B == [id \in Touched |-> Rest(id)]
<1>9. (\A id \in Touched : B[id] \in Nat) /\ SumFunctionOnSet(B, Touched) = HeldBack * Scale
  <2>1. CASE HeldBack > 0
    <3>1. Spread = Extent /\ Extent \in SUBSET Touched
      BY <2>1
    <3> HIDE DEF Touched, Spread
    <3>2. \A id \in Touched : B[id] = IF id \in Extent
                        THEN (HeldBack * Scale) \div Cardinality(Extent) ELSE 0
      BY <3>1
    <3> HIDE DEF B
    <3> QED  BY <1>5, <1>6, <1>7, <3>1, <3>2, SpreadOut
  <2>2. CASE ~(HeldBack > 0)
    <3>1. HeldBack = 0
      BY <1>5, <2>2
    <3>2. Spread = {}
      BY <2>2
    <3> HIDE DEF Touched, Spread
    <3>3. \A id \in Touched : B[id] = 0
      BY <3>2
    <3> HIDE DEF B
    <3>4. SumFunctionOnSet(B, Touched) = 0
      BY <1>8, <3>3, SumOfZeros
    <3>5. 0 * Scale = 0
      BY ScaleAssumption
    <3> QED  BY <3>1, <3>3, <3>4, <3>5
  <2> QED  BY <2>1, <2>2
<1> DEFINE f == [g \in Placed |-> [id \in Touched |-> Share(id)[g]]]
           h == [g \in Placed |-> groups[g].rows * Scale]
<1>10. ASSUME NEW g \in Placed
       PROVE  /\ \A id \in Touched : f[g][id] \in Nat
              /\ SumFunctionOnSet(f[g], Touched) = groups[g].rows * Scale
  <2> DEFINE s == groups[g].tiles
             n == groups[g].rows
             F == f[g]
  <2>1. n \in Nat /\ s # {} /\ s \in SUBSET Touched
    BY <1>3
  <2> HIDE DEF Touched
  <2>2. \A id \in Touched : F[id] = IF id \in s THEN (n * Scale) \div Cardinality(s) ELSE 0
    OBVIOUS
  <2> HIDE DEF F, n, s
  <2>3. /\ \A id \in Touched : F[id] \in Nat
        /\ SumFunctionOnSet(F, Touched) = n * Scale
    BY <1>7, <2>1, <2>2, SpreadOut
  <2> QED  BY <2>3 DEF F, n, s
<1> DEFINE A == [id \in Touched |-> SumFunction(Share(id))]
<1>11. (\A id \in Touched : A[id] \in Nat)
       /\ SumFunctionOnSet(A, Touched) = SumFunctionOnSet(h, Placed)
  <2> DEFINE down == SumDown(f, Placed, Placed, Touched)
             over == SumOver(f, Placed, Touched)
  <2>1. ASSUME NEW id \in Touched  PROVE down[id] = A[id] /\ A[id] \in Nat
    <3> DEFINE c == [g \in Placed |-> f[g][id]]
               S == Share(id)
    <3>1. \A g \in Placed : c[g] = S[g] /\ c[g] \in Nat
      BY <1>10
    <3>2. DOMAIN S = Placed /\ down[id] = SumFunctionOnSet(c, Placed)
          /\ A[id] = SumFunction(S)
      BY DEF SumDown
    <3> HIDE DEF c, S, down, A
    <3>3. SumFunctionOnSet(S, Placed) = SumFunctionOnSet(c, Placed)
      BY <1>4, <3>1, SameSum
    <3>4. SumFunctionOnSet(c, Placed) \in Nat
      <4>1. Additive(c, Placed)
        BY <1>4, <3>1, Adds
      <4> QED  BY <4>1 DEF Additive
    <3>5. SumFunction(S) = SumFunctionOnSet(S, Placed)
      BY <3>2 DEF SumFunction
    <3> QED  BY <3>2, <3>3, <3>4, <3>5
  <2>2. ASSUME NEW g \in Placed  PROVE over[g] = h[g] /\ h[g] \in Nat
    <3>1. over[g] = SumFunctionOnSet(f[g], Touched)
      BY DEF SumOver
    <3>2. groups[g].rows * Scale \in Nat
      BY <1>3, ScaleAssumption
    <3> QED  BY <1>10, <3>1, <3>2
  <2>3. SumFunctionOnSet(over, Placed) = SumFunctionOnSet(down, Touched)
    <3>1. \A g \in Placed : \A id \in Touched : f[g][id] \in Nat
      BY <1>10
    <3> HIDE DEF f, Touched
    <3> QED  BY <1>4, <1>8, <3>1, SumSwap
  <2> HIDE DEF over, down, h, A, Touched
  <2>4. SumFunctionOnSet(over, Placed) = SumFunctionOnSet(h, Placed)
    <3>1. \A g \in Placed : h[g] = over[g] /\ h[g] \in Nat
      BY <2>2
    <3> QED  BY <1>4, <3>1, SameSum
  <2>5. SumFunctionOnSet(down, Touched) = SumFunctionOnSet(A, Touched)
    <3>1. \A id \in Touched : A[id] = down[id] /\ A[id] \in Nat
      BY <2>1
    <3> QED  BY <1>8, <3>1, SameSum
  <2> QED  BY <2>1, <2>3, <2>4, <2>5
<1> DEFINE rows == [g \in DOMAIN groups |-> groups[g].rows]
<1>12. /\ RowsOf(Placed) \in Nat
       /\ RowsOf(DOMAIN groups) = RowsOf(Placed) + HeldBack
  <2> DEFINE D == DOMAIN groups
  <2>1. \A g \in D : rows[g] \in Nat
    BY <1>2
  <2>2. \A s : RowsOf(s) = SumFunctionOnSet(rows, s)
    BY DEF RowsOf
  <2>3. Placed \in SUBSET D /\ D \ Placed \in SUBSET D
        /\ Placed \cap (D \ Placed) = {} /\ Placed \cup (D \ Placed) = D
    BY <1>3
  <2> HIDE DEF rows
  <2>4. Additive(rows, D)
    <3> HIDE DEF D
    <3> QED  BY <1>3, <2>1, Adds DEF D
  <2> HIDE DEF D
  <2>5. SumFunctionOnSet(rows, Placed \cup (D \ Placed))
          = SumFunctionOnSet(rows, Placed) + SumFunctionOnSet(rows, D \ Placed)
    BY ONLY <2>3, <2>4 DEF Additive
  <2>6. SumFunctionOnSet(rows, Placed) \in Nat
    BY ONLY <2>3, <2>4 DEF Additive
  <2> QED  BY <2>2, <2>3, <2>5, <2>6 DEF HeldBack, D
<1>13. SumFunctionOnSet(h, Placed) = RowsOf(Placed) * Scale
  <2>1. \A g \in Placed : rows[g] \in Nat /\ h[g] = rows[g] * Scale
    BY <1>3
  <2>2. RowsOf(Placed) = SumFunctionOnSet(rows, Placed)
    BY DEF RowsOf
  <2> HIDE DEF rows, h
  <2> QED  BY <1>4, <2>1, <2>2, ScaleAssumption, SumScaled
<1>14. Total' = SumFunctionOnSet(A, Touched) + SumFunctionOnSet(B, Touched)
  <2> DEFINE w == weight'
  <2>1. \A id \in Touched : A[id] \in Nat /\ B[id] \in Nat /\ w[id] = A[id] + B[id]
    BY <1>1, <1>9, <1>11
  <2>2. DOMAIN w = Touched /\ Total' = SumFunction(w)
    BY <1>1 DEF Total
  <2> HIDE DEF A, B, w, Touched
  <2>3. SumFunctionOnSet(w, Touched) = SumFunctionOnSet(A, Touched) + SumFunctionOnSet(B, Touched)
    BY <1>8, <2>1, SumPlus
  <2> QED  BY <2>2, <2>3 DEF SumFunction
<1> HIDE DEF A, B, h, rows, Touched
<1>15. Total' = RowsOf(Placed) * Scale + HeldBack * Scale
  BY <1>9, <1>11, <1>13, <1>14
<1>16. PICK a \in Nat, b \in Nat : a = RowsOf(Placed) /\ b = HeldBack
  BY <1>5, <1>12
<1>17. a * Scale + b * Scale = Scale * (a + b)
  BY ScaleAssumption
<1> QED  BY <1>12, <1>15, <1>16, <1>17

\* The whole weight is the rows of the input.
THEOREM WholeWeight == CutSpec => []WeightIsTheRows
<1>1. CutInit => WeightIsTheRows
  BY DEF CutInit, WeightIsTheRows
<1>2. IInv /\ WeightIsTheRows /\ [CutNext]_cutVars => WeightIsTheRows'
  <2> SUFFICES ASSUME IInv, WeightIsTheRows, [CutNext]_cutVars
               PROVE  WeightIsTheRows'
    OBVIOUS
  <2>1. CASE Weigh
    <3>1. Total' = Scale * RowsOf(DOMAIN groups)
      BY <2>1, Weighs DEF IInv
    <3>2. groups' = groups
      BY <2>1 DEF Weigh
    <3> QED  BY <3>1, <3>2 DEF WeightIsTheRows, RowsOf
  <2>2. CASE CutEvenly \/ CutRange \/ CutLast \/ UNCHANGED cutVars
    <3>1. /\ groups' = groups /\ weight' = weight
          /\ pc' \in {"cut", "saved"} => pc \in {"cut", "saved"}
      BY <2>2 DEF CutEvenly, CutRange, CutLast, cutVars
    <3> QED  BY <3>1 DEF WeightIsTheRows, RowsOf, Total
  <2>3. CASE Edit \/ Load
    <3>1. pc' \notin {"cut", "saved"}
      BY <2>3 DEF Edit, Load
    <3> QED  BY <3>1 DEF WeightIsTheRows
  <2> QED  BY <2>1, <2>2, <2>3 DEF CutNext
<1> QED  BY <1>1, <1>2, CutInductive, PTL DEF CutSpec

-----------------------------------------------------------------------------
(* The rows a run reads *)

\* Where rows are.
RowAddresses == Nat \X Nat \X Nat

\* The rows of one row group, if it is read.
Chunk(in, sel, at) ==
  IF IsRead(in, sel, at)
    THEN [i \in 1..GroupRows(in, at) |-> <<at[1], at[2], i>>] ELSE <<>>

\* What an input is made of.
LEMMA InputTypes ==
  ASSUME NEW in, Sound(in)
  PROVE  /\ Len(in) \in Nat /\ DOMAIN in = 1..Len(in)
         /\ \A p \in DOMAIN in :
              /\ in[p].groups \in Seq(RowGroups)
              /\ Len(in[p].groups) \in Nat /\ GroupsOf(in, p) = 1..Len(in[p].groups)
              /\ \A g \in GroupsOf(in, p) :
                   /\ in[p].groups[g] \in RowGroups
                   /\ GroupRows(in, <<p, g>>) \in Nat
                   /\ \A i \in 1..GroupRows(in, <<p, g>>) :
                        /\ Row(in, <<p, g, i>>).cell \in Cells
                        /\ Row(in, <<p, g, i>>).carries \in BOOLEAN
<1>1. Len(in) \in Nat /\ DOMAIN in = 1..Len(in)
  <2>1. in \in Seq(Range(in))
    BY DEF Sound
  <2> QED  BY <2>1, Members
<1>2. SUFFICES ASSUME NEW p \in DOMAIN in
      PROVE  /\ in[p].groups \in Seq(RowGroups)
             /\ Len(in[p].groups) \in Nat /\ GroupsOf(in, p) = 1..Len(in[p].groups)
             /\ \A g \in GroupsOf(in, p) :
                  /\ in[p].groups[g] \in RowGroups
                  /\ GroupRows(in, <<p, g>>) \in Nat
                  /\ \A i \in 1..GroupRows(in, <<p, g>>) :
                       /\ Row(in, <<p, g, i>>).cell \in Cells
                       /\ Row(in, <<p, g, i>>).carries \in BOOLEAN
  BY <1>1
<1> DEFINE gs == in[p].groups
<1>3. gs \in Seq(RowGroups)
  BY DEF Sound
<1>4. /\ Len(gs) \in Nat /\ DOMAIN gs = 1..Len(gs)
      /\ \A g \in 1..Len(gs) : gs[g] \in RowGroups
  <2> HIDE DEF gs
  <2> QED  BY <1>3, Members
<1>5. GroupsOf(in, p) = 1..Len(gs)
  BY <1>4 DEF GroupsOf
<1>6. ASSUME NEW g \in GroupsOf(in, p)
      PROVE  /\ GroupRows(in, <<p, g>>) \in Nat
             /\ \A i \in 1..GroupRows(in, <<p, g>>) :
                  /\ Row(in, <<p, g, i>>).cell \in Cells
                  /\ Row(in, <<p, g, i>>).carries \in BOOLEAN
  <2> DEFINE rs == gs[g].rows
             Level == [Opts -> {Unassigned} \cup 0..FinestZoom]
             RowType == [cell : Cells, carries : BOOLEAN, level : Level]
  <2>1. rs \in Seq(RowType)
    <3>1. gs[g] \in RowGroups
      BY <1>4, <1>5
    <3> HIDE DEF gs, RowType, Level
    <3> QED  BY <3>1 DEF RowGroups, rs, RowType, Level
  <2>2. GroupRows(in, <<p, g>>) = Len(rs) /\ \A i : Row(in, <<p, g, i>>) = rs[i]
    BY DEF GroupRows, Row
  <2>3. \A r \in RowType : r.cell \in Cells /\ r.carries \in BOOLEAN
    <3> HIDE DEF Level
    <3> QED  OBVIOUS
  <2> HIDE DEF rs, RowType
  <2>4. Len(rs) \in Nat /\ \A i \in 1..Len(rs) : rs[i] \in RowType
    BY <2>1, Members
  <2> QED  BY <2>2, <2>3, <2>4
<1> QED  BY <1>3, <1>4, <1>5, <1>6

\* The row groups in order are those of the parts.
LEMMA GroupsAre ==
  ASSUME NEW in, Sound(in)
  PROVE  /\ Len(Groups(in)) \in Nat /\ DOMAIN Groups(in) = 1..Len(Groups(in))
         /\ \A k \in 1..Len(Groups(in)) :
              \E p \in DOMAIN in : \E g \in GroupsOf(in, p) :
                Groups(in)[k] = <<p, g>>
<1> DEFINE S == {<<p, g>> : p \in DOMAIN in, g \in Nat}
           T == {at \in S : at[2] \in GroupsOf(in, at[1])}
           seqs == [p \in DOMAIN in |-> [g \in GroupsOf(in, p) |-> <<p, g>>]]
<1>1. /\ Len(in) \in Nat /\ DOMAIN in = 1..Len(in)
      /\ \A p \in DOMAIN in :
           Len(in[p].groups) \in Nat /\ GroupsOf(in, p) = 1..Len(in[p].groups)
  BY InputTypes
<1>2. seqs \in Seq(Seq(T))
  <2>1. ASSUME NEW p \in DOMAIN in  PROVE seqs[p] \in Seq(T)
    <3> DEFINE n == Len(in[p].groups)
    <3>1. n \in Nat /\ GroupsOf(in, p) = 1..n
      BY <1>1
    <3>2. seqs[p] = [g \in 1..n |-> <<p, g>>]
      BY <3>1
    <3>3. \A g \in 1..n : <<p, g>> \in T
      BY <3>1
    <3> HIDE DEF n, T
    <3> QED  BY <3>1, <3>2, <3>3
  <2>2. seqs = [p \in 1..Len(in) |-> seqs[p]]
    BY <1>1
  <2> HIDE DEF seqs, T
  <2> QED  BY <1>1, <2>1, <2>2
<1>3. Groups(in) = FlattenSeq(seqs)
  BY DEF Groups
<1> HIDE DEF seqs, T
<1>4. PICK F : Laying(F, seqs, T) /\ FlattenSeq(seqs) = F[Len(seqs)]
  BY <1>2, Flatten
<1>5. Groups(in) \in Seq(T)
  <2>1. Len(seqs) \in Nat
    BY <1>2
  <2> QED  BY <1>3, <1>4, <2>1 DEF Laying
<1>6. Len(Groups(in)) \in Nat /\ DOMAIN Groups(in) = 1..Len(Groups(in))
      /\ \A k \in 1..Len(Groups(in)) : Groups(in)[k] \in T
  BY <1>5, Members
<1>7. \A at \in T : \E p \in DOMAIN in : \E g \in GroupsOf(in, p) : at = <<p, g>>
  BY DEF T
<1> QED  BY <1>6, <1>7

\* The stream is the rows of one row group after the other.
Reading(F, in, sel) ==
  LET gs == Groups(in)
  IN /\ F \in [0..Len(gs) -> Seq(RowAddresses)] /\ F[0] = <<>>
     /\ \A k \in 1..Len(gs) : F[k] = F[k - 1] \o Chunk(in, sel, gs[k])
     /\ Stream(in, sel) = F[Len(gs)]

\* What one row group adds.
Adding(in, sel, at, c) ==
  /\ GroupRows(in, at) \in Nat
  /\ c \in Seq(RowAddresses)
  /\ Len(c) = IF IsRead(in, sel, at) THEN GroupRows(in, at) ELSE 0
  /\ \A i \in 1..Len(c) : c[i] = <<at[1], at[2], i>>

\* What one row group adds to the stream.
LEMMA Chunks ==
  ASSUME NEW in, Sound(in), NEW sel, NEW k \in 1..Len(Groups(in))
  PROVE  Adding(in, sel, Groups(in)[k], Chunk(in, sel, Groups(in)[k]))
<1> DEFINE at == Groups(in)[k]
           n == GroupRows(in, at)
           c == Chunk(in, sel, at)
<1>0. PICK p \in DOMAIN in : \E g \in GroupsOf(in, p) : at = <<p, g>>
  BY GroupsAre
<1>1. PICK g \in GroupsOf(in, p) : at = <<p, g>>
  BY <1>0
<1>2. /\ Len(in) \in Nat /\ DOMAIN in = 1..Len(in)
      /\ Len(in[p].groups) \in Nat /\ GroupsOf(in, p) = 1..Len(in[p].groups)
      /\ GroupRows(in, <<p, g>>) \in Nat
  BY InputTypes
<1>3. p \in Nat /\ g \in Nat /\ n \in Nat /\ at[1] = p /\ at[2] = g
  BY <1>1, <1>2
<1>4. CASE IsRead(in, sel, at)
  <2>1. c = [i \in 1..n |-> <<p, g, i>>]
    BY <1>3, <1>4 DEF Chunk
  <2>2. \A i \in 1..n : <<p, g, i>> \in RowAddresses
    BY <1>3 DEF RowAddresses
  <2> HIDE DEF n, at, c
  <2>3. c \in Seq(RowAddresses) /\ Len(c) = n /\ \A i \in 1..n : c[i] = <<p, g, i>>
    BY <1>3, <2>1, <2>2
  <2> QED  BY <1>3, <1>4, <2>3 DEF Adding, c, n, at
<1>5. CASE ~IsRead(in, sel, at)
  <2>1. c = <<>>
    BY <1>5 DEF Chunk
  <2> HIDE DEF n, at, c
  <2>2. c \in Seq(RowAddresses) /\ Len(c) = 0
    BY <2>1
  <2> QED  BY <1>3, <1>5, <2>2 DEF Adding, c, n, at
<1> QED  BY <1>4, <1>5

\* The stream is built of the row groups in order.
LEMMA Streams ==
  ASSUME NEW in, Sound(in), NEW sel
  PROVE  \E F : Reading(F, in, sel)
<1> DEFINE gs == Groups(in)
           seqs == [k \in DOMAIN gs |->
             IF IsRead(in, sel, gs[k])
               THEN [i \in 1..GroupRows(in, gs[k]) |-> <<gs[k][1], gs[k][2], i>>]
               ELSE <<>>]
<1>1. Stream(in, sel) = FlattenSeq(seqs)
  BY DEF Stream
<1>2. Len(gs) \in Nat /\ DOMAIN gs = 1..Len(gs)
  BY GroupsAre
<1>3. \A k \in 1..Len(gs) : seqs[k] = Chunk(in, sel, gs[k])
  BY <1>2 DEF Chunk
<1>4. \A k \in 1..Len(gs) : Chunk(in, sel, gs[k]) \in Seq(RowAddresses)
  BY Chunks DEF Adding
<1>5. DOMAIN seqs = 1..Len(gs) /\ seqs = [k \in 1..Len(gs) |-> seqs[k]]
  BY <1>2
<1> HIDE DEF seqs, gs
<1>6. seqs \in Seq(Seq(RowAddresses)) /\ Len(seqs) = Len(gs)
  BY <1>2, <1>3, <1>4, <1>5
<1>7. PICK F : Laying(F, seqs, RowAddresses) /\ FlattenSeq(seqs) = F[Len(seqs)]
  BY <1>6, Flatten
<1>8. /\ F \in [0..Len(gs) -> Seq(RowAddresses)] /\ F[0] = <<>>
      /\ \A k \in 1..Len(gs) : F[k] = F[k - 1] \o Chunk(in, sel, gs[k])
      /\ Stream(in, sel) = F[Len(gs)]
  BY <1>1, <1>3, <1>6, <1>7 DEF Laying
<1> QED  BY <1>8 DEF Reading, gs

\* The stream's rows are those of the row groups that are read.
InChunk(in, sel, k, row) ==
  LET at == Groups(in)[k]
  IN /\ IsRead(in, sel, at)
     /\ \E i \in 1..GroupRows(in, at) : row = <<at[1], at[2], i>>

\* The rows of the stream are those of the row groups that are read.
LEMMA ReadRows ==
  ASSUME NEW in, Sound(in), NEW sel, NEW F, Reading(F, in, sel)
  PROVE  \A row : (\E i \in 1..Len(Stream(in, sel)) : Stream(in, sel)[i] = row)
                    <=> \E k \in 1..Len(Groups(in)) : InChunk(in, sel, k, row)
<1> DEFINE gs == Groups(in)
           m == Len(gs)
           Right(k) == \A row : (\E i \in 1..Len(F[k]) : F[k][i] = row)
                                  <=> \E h \in 1..k : InChunk(in, sel, h, row)
           Bad == {k \in 0..m : ~Right(k)}
<1>1. /\ m \in Nat /\ F \in [0..m -> Seq(RowAddresses)] /\ F[0] = <<>>
      /\ \A k \in 1..m : F[k] = F[k - 1] \o Chunk(in, sel, gs[k])
      /\ Stream(in, sel) = F[m]
  BY GroupsAre DEF Reading
<1>2. ASSUME NEW k \in 1..m, NEW row
      PROVE  InChunk(in, sel, k, row) <=>
               \E i \in 1..Len(Chunk(in, sel, gs[k])) : Chunk(in, sel, gs[k])[i] = row
  <2> DEFINE at == gs[k]
             c == Chunk(in, sel, at)
  <2>1. /\ GroupRows(in, at) \in Nat
        /\ Len(c) = IF IsRead(in, sel, at) THEN GroupRows(in, at) ELSE 0
        /\ \A i \in 1..Len(c) : c[i] = <<at[1], at[2], i>>
    <3>1. Adding(in, sel, at, c)
      BY Chunks
    <3> HIDE DEF c, at
    <3> QED  BY <3>1 DEF Adding
  <2>2. InChunk(in, sel, k, row) <=>
          /\ IsRead(in, sel, at)
          /\ \E i \in 1..GroupRows(in, at) : row = <<at[1], at[2], i>>
    BY DEF InChunk
  <2> HIDE DEF c, at
  <2>3. CASE IsRead(in, sel, at)
    BY <2>1, <2>2, <2>3 DEF c, at
  <2>4. CASE ~IsRead(in, sel, at)
    <3>1. 1..Len(c) = {}
      BY <2>1, <2>4
    <3> QED  BY <2>2, <2>4, <3>1 DEF c, at
  <2> QED  BY <2>3, <2>4
<1>3. Right(0)
  <2>1. Len(F[0]) = 0 /\ 1..0 = {}
    BY <1>1
  <2> QED  BY <2>1
<1>4. ASSUME NEW k \in 1..m, Right(k - 1)  PROVE Right(k)
  <2> DEFINE a == F[k - 1]
             c == Chunk(in, sel, gs[k])
  <2>1. /\ a \in Seq(RowAddresses) /\ c \in Seq(RowAddresses) /\ F[k] = a \o c
        /\ k - 1 \in 0..m
    <3>1. k - 1 \in 0..m
      BY <1>1
    <3> QED  BY <1>1, <3>1, Chunks DEF Adding
  <2>2. SUFFICES ASSUME NEW row
        PROVE  (\E i \in 1..Len(F[k]) : F[k][i] = row)
                 <=> \E h \in 1..k : InChunk(in, sel, h, row)
    OBVIOUS
  <2>3. (\E i \in 1..Len(a) : a[i] = row)
          <=> \E h \in 1..(k - 1) : InChunk(in, sel, h, row)
    BY <1>4
  <2>4. (\E i \in 1..Len(c) : c[i] = row) <=> InChunk(in, sel, k, row)
    BY <1>2
  <2> HIDE DEF a, c
  <2>5. (\E i \in 1..Len(F[k]) : F[k][i] = row)
          <=> (\E i \in 1..Len(a) : a[i] = row) \/ (\E i \in 1..Len(c) : c[i] = row)
    <3>1. /\ Len(a) \in Nat /\ Len(c) \in Nat /\ Len(a \o c) = Len(a) + Len(c)
          /\ \A i \in 1..Len(a) : (a \o c)[i] = a[i]
          /\ \A i \in 1..Len(c) : (a \o c)[Len(a) + i] = c[i]
      BY <2>1
    <3>2. \A i \in 1..Len(a) : i \in 1..Len(a \o c)
      BY <3>1
    <3>3. \A i \in 1..Len(c) : Len(a) + i \in 1..Len(a \o c)
      BY <3>1
    <3>4. \A i \in 1..Len(a \o c) :
            i \in 1..Len(a) \/ (i - Len(a) \in 1..Len(c) /\ i = Len(a) + (i - Len(a)))
      BY <3>1
    <3>5. ASSUME NEW i \in 1..Len(a \o c), (a \o c)[i] = row
          PROVE  (\E j \in 1..Len(a) : a[j] = row) \/ (\E j \in 1..Len(c) : c[j] = row)
      <4>1. CASE i \in 1..Len(a)
        BY <3>1, <3>5, <4>1
      <4>2. CASE i - Len(a) \in 1..Len(c) /\ i = Len(a) + (i - Len(a))
        <5>1. PICK j \in 1..Len(c) : i = Len(a) + j
          BY <4>2
        <5> QED  BY <3>1, <3>5, <5>1
      <4> QED  BY <3>4, <4>1, <4>2
    <3> QED  BY <2>1, <3>1, <3>2, <3>3, <3>5
  <2>6. \A h : h \in 1..k <=> h \in 1..(k - 1) \/ h = k
    BY <1>1
  <2> QED  BY <2>3, <2>4, <2>5, <2>6
<1> HIDE DEF Right
<1>5. Bad = {}
  <2>1. SUFFICES ASSUME Bad # {}  PROVE FALSE
    OBVIOUS
  <2>2. PICK k \in Bad : \A h \in Bad : k <= h
    <3>1. Bad \in SUBSET Nat
      BY <1>1
    <3> HIDE DEF Bad
    <3> QED  BY <2>1, <3>1, Smallest
  <2>3. k \in 0..m /\ k # 0 /\ ~Right(k)
    BY <1>3, <2>2
  <2>4. k \in 1..m /\ k - 1 \in 0..m /\ ~(k <= k - 1)
    BY <1>1, <2>3
  <2>5. k - 1 \notin Bad
    <3> HIDE DEF Bad
    <3> QED  BY <2>2, <2>4
  <2> QED  BY <1>4, <2>3, <2>4, <2>5
<1>6. Right(m)
  BY <1>1, <1>5
<1> QED  BY <1>1, <1>6 DEF Right

-----------------------------------------------------------------------------
(* The runs of a stream that another keeps *)

Run == [plan : Nat, shard : Nat, len : Nat]
Walked == [runs : Seq(Run), plan : Nat, shard : Nat]

\* One run: rows that are the same in both, after those of the run before.
Fit(w, a, b, r) ==
  LET run == w.runs[r]
  IN /\ run.plan + run.len <= Len(a) /\ run.shard + run.len <= Len(b)
     /\ \A t \in 1..run.len : a[run.plan + t] = b[run.shard + t]
     /\ run.shard = IF r = 1 THEN 0 ELSE w.runs[r - 1].shard + w.runs[r - 1].len

\* The walk over a has found in it all of b.
Matched(w, a, b) ==
  /\ w \in Walked /\ w.plan = Len(a) /\ w.shard = Len(b)
  /\ \A r \in 1..Len(w.runs) : Fit(w, a, b, r)
  /\ IF Len(w.runs) = 0 THEN Len(b) = 0
     ELSE w.runs[Len(w.runs)].shard + w.runs[Len(w.runs)].len = Len(b)
  /\ Len(b) <= Len(a) /\ (Len(b) = Len(a) => a = b)

\* A sequence made longer begins as it did and ends with what was added.
LEMMA Longer ==
  ASSUME NEW S, NEW a \in Seq(S), NEW c \in Seq(S)
  PROVE  /\ Len(a) \in Nat /\ Len(c) \in Nat /\ Len(a \o c) = Len(a) + Len(c)
         /\ a \o c \in Seq(S)
         /\ \A i \in 1..Len(a) : (a \o c)[i] = a[i]
         /\ \A i \in 1..Len(c) : (a \o c)[Len(a) + i] = c[i]
OBVIOUS

\* The rows of a group that is not kept.
LEMMA Skips ==
  ASSUME NEW S, NEW a \in Seq(S), NEW b \in Seq(S), NEW c \in Seq(S), NEW w, Matched(w, a, b),
         NEW v, v = [runs |-> w.runs, plan |-> w.plan + Len(c), shard |-> w.shard]
  PROVE  Matched(v, a \o c, b)
<1>1. /\ w \in Walked /\ w.plan = Len(a) /\ w.shard = Len(b) /\ w.runs \in Seq(Run)
      /\ \A r \in 1..Len(w.runs) : Fit(w, a, b, r)
      /\ Len(b) <= Len(a) /\ (Len(b) = Len(a) => a = b)
  BY DEF Matched, Walked
<1> DEFINE d == a \o c
<1>2. /\ Len(a) \in Nat /\ Len(c) \in Nat /\ Len(d) = Len(a) + Len(c) /\ Len(b) \in Nat
      /\ \A i \in 1..Len(a) : d[i] = a[i]
  BY Longer
<1>3. Len(c) = 0 => d = a
  BY <1>2
<1> HIDE DEF d
<1>4. /\ v \in Walked /\ v.plan = Len(d) /\ v.shard = Len(b) /\ v.runs = w.runs
  BY <1>1, <1>2 DEF Walked
<1>5. ASSUME NEW r \in 1..Len(w.runs)  PROVE Fit(v, d, b, r)
  <2> DEFINE run == w.runs[r]
  <2>1. run \in Run
    BY <1>1, Members
  <2>2. /\ run.plan \in Nat /\ run.len \in Nat /\ run.plan + run.len <= Len(a)
        /\ run.shard + run.len <= Len(b)
        /\ \A t \in 1..run.len : a[run.plan + t] = b[run.shard + t]
        /\ run.shard = IF r = 1 THEN 0 ELSE w.runs[r - 1].shard + w.runs[r - 1].len
    BY <1>1, <2>1 DEF Fit, Run
  <2>3. \A t \in 1..run.len : run.plan + t \in 1..Len(a)
    <3>1. PICK x \in Nat : x = run.plan
      BY <2>2
    <3>2. PICK l \in Nat : l = run.len
      BY <2>2
    <3>3. x + l <= Len(a)
      BY <2>2, <3>1, <3>2
    <3>4. \A t \in 1..l : x + t \in 1..Len(a)
      BY ONLY <1>2, <3>3, x \in Nat, l \in Nat
    <3> HIDE DEF run
    <3> QED  BY <3>1, <3>2, <3>4
  <2>4. run.plan + run.len <= Len(d)
    BY <1>2, <2>2
  <2> HIDE DEF run
  <2>5. \A t \in 1..run.len : d[run.plan + t] = b[run.shard + t]
    BY <1>2, <2>2, <2>3
  <2> QED  BY <1>4, <2>2, <2>4, <2>5 DEF Fit, run
<1>6. Len(b) <= Len(d) /\ (Len(b) = Len(d) => d = b)
  BY <1>1, <1>2, <1>3
<1>7. Matched(v, d, b)
  BY <1>4, <1>5, <1>6 DEF Matched
<1> QED  BY <1>7 DEF d

\* A run that ends within a stream lies in it, and still does in a longer one.
LEMMA Within ==
  ASSUME NEW p \in Nat, NEW l \in Nat, NEW n \in Nat, p + l <= n
  PROVE  /\ \A t \in 1..l : p + t \in 1..n
         /\ \A m \in Nat : p + l <= n + m /\ p + (l + m) <= n + m
OBVIOUS

\* A run made longer is a run.
LEMMA LongerRun ==
  ASSUME NEW run \in Run, NEW n \in Nat
  PROVE  LET new == [run EXCEPT !.len = @ + n]
         IN /\ new \in Run /\ new.plan = run.plan /\ new.shard = run.shard
            /\ new.len = run.len + n
BY DEF Run

\* A run stays one when rows are added.
LEMMA StillFits ==
  ASSUME NEW S, NEW a \in Seq(S), NEW b \in Seq(S), NEW c \in Seq(S), NEW w, NEW v, NEW r,
         w.runs[r] \in Run, v.runs[r] = w.runs[r],
         r # 1 => v.runs[r - 1] = w.runs[r - 1], Fit(w, a, b, r)
  PROVE  Fit(v, a \o c, b \o c, r)
<1> DEFINE d == a \o c
           e == b \o c
           run == w.runs[r]
<1>1. /\ Len(a) \in Nat /\ Len(c) \in Nat /\ Len(d) = Len(a) + Len(c)
      /\ \A i \in 1..Len(a) : d[i] = a[i]
  BY Longer
<1>2. /\ Len(b) \in Nat /\ Len(e) = Len(b) + Len(c)
      /\ \A i \in 1..Len(b) : e[i] = b[i]
  BY Longer
<1> HIDE DEF d, e
<1>3. /\ run.plan \in Nat /\ run.len \in Nat /\ run.shard \in Nat
      /\ run.plan + run.len <= Len(a) /\ run.shard + run.len <= Len(b)
      /\ \A t \in 1..run.len : a[run.plan + t] = b[run.shard + t]
      /\ run.shard = IF r = 1 THEN 0 ELSE v.runs[r - 1].shard + v.runs[r - 1].len
  BY DEF Fit, Run
<1>4. v.runs[r] = run
  OBVIOUS
<1> HIDE DEF run
<1>5. \A t \in 1..run.len : run.plan + t \in 1..Len(a) /\ run.shard + t \in 1..Len(b)
  BY <1>1, <1>2, <1>3, Within
<1>6. run.plan + run.len <= Len(d) /\ run.shard + run.len <= Len(e)
  BY <1>1, <1>2, <1>3, Within
<1>7. \A t \in 1..run.len : d[run.plan + t] = e[run.shard + t]
  BY <1>1, <1>2, <1>3, <1>5
<1>8. Fit(v, d, e, r)
  BY <1>3, <1>4, <1>6, <1>7 DEF Fit
<1> QED  BY <1>8 DEF d, e

\* A group that follows the last run makes it longer.
LEMMA Extends ==
  ASSUME NEW S, NEW a \in Seq(S), NEW b \in Seq(S), NEW c \in Seq(S), NEW w, Matched(w, a, b),
         NEW top, top = Len(w.runs), top > 0,
         w.runs[top].plan + w.runs[top].len = w.plan,
         NEW v, v = [runs |-> [w.runs EXCEPT ![top].len = @ + Len(c)],
                     plan |-> w.plan + Len(c), shard |-> w.shard + Len(c)]
  PROVE  Matched(v, a \o c, b \o c)
<1> DEFINE d == a \o c
           e == b \o c
           old == w.runs[top]
           n == Len(c)
           rs == [w.runs EXCEPT ![top].len = @ + n]
<1>1. /\ w \in Walked /\ w.plan = Len(a) /\ w.shard = Len(b) /\ w.runs \in Seq(Run)
      /\ \A r \in 1..top : Fit(w, a, b, r)
      /\ old.shard + old.len = Len(b)
      /\ Len(b) <= Len(a) /\ (Len(b) = Len(a) => a = b)
  BY DEF Matched, Walked
<1>2. /\ Len(a) \in Nat /\ n \in Nat /\ Len(d) = Len(a) + n
      /\ \A i \in 1..Len(a) : d[i] = a[i]
      /\ \A i \in 1..n : d[Len(a) + i] = c[i]
  BY Longer
<1>3. /\ Len(b) \in Nat /\ Len(e) = Len(b) + n
      /\ \A i \in 1..Len(b) : e[i] = b[i]
      /\ \A i \in 1..n : e[Len(b) + i] = c[i]
  BY Longer
<1>4. /\ top \in Nat /\ top \in 1..top /\ \A r \in 1..top : w.runs[r] \in Run
  BY <1>1, Members
<1>5. /\ old \in Run /\ old.plan \in Nat /\ old.shard \in Nat /\ old.len \in Nat
  BY <1>4 DEF Run
<1> DEFINE new == [old EXCEPT !.len = @ + n]
<1>6. /\ new \in Run /\ new.plan = old.plan /\ new.shard = old.shard
      /\ new.len = old.len + n
  <2> HIDE DEF n, old
  <2> QED  BY <1>2, <1>5, LongerRun
<1>7. /\ rs \in Seq(Run) /\ Len(rs) = top /\ rs[top] = new
      /\ \A r \in 1..top : r # top => rs[r] = w.runs[r]
  <2>1. DOMAIN w.runs = 1..top
    BY <1>1, Members
  <2>2. DOMAIN rs = 1..top /\ rs[top] = new /\ \A r \in 1..top : r # top => rs[r] = w.runs[r]
    BY <1>4, <2>1
  <2>3. rs = [r \in 1..top |-> rs[r]]
    BY <2>1
  <2> HIDE DEF rs, new
  <2>4. \A r \in 1..top : rs[r] \in Run
    BY <1>4, <1>6, <2>2
  <2>5. rs \in [1..top -> Run]
    BY <2>3, <2>4
  <2>6. rs \in Seq(Run) /\ Len(rs) = top
    BY ONLY <1>4, <2>5
  <2> QED  BY <2>2, <2>6
<1>7a. PICK p \in Nat, q \in Nat, l \in Nat, la \in Nat, lb \in Nat, m \in Nat :
         /\ p = old.plan /\ q = old.shard /\ l = old.len
         /\ la = Len(a) /\ lb = Len(b) /\ m = n
  BY <1>2, <1>3, <1>5
<1> HIDE DEF rs, new, old, d, e
<1>7b. /\ p + l = la /\ q + l = lb /\ new.plan = p /\ new.shard = q
       /\ new.len = l + m /\ Len(d) = la + m /\ Len(e) = lb + m
  BY <1>1, <1>2, <1>3, <1>6, <1>7a DEF old
<1>7c. p + l = la /\ q + l = lb
  BY ONLY <1>7b
<1>7d. p + (l + m) = la + m /\ q + (l + m) = lb + m
  BY ONLY <1>7c
<1>8. v.runs = rs /\ v.plan = w.plan + n /\ v.shard = w.shard + n
  BY DEF rs
<1>9. /\ v \in Walked /\ v.plan = Len(d) /\ v.shard = Len(e)
  <2>1. v = [runs |-> rs, plan |-> la + m, shard |-> lb + m]
    BY <1>1, <1>7a DEF rs
  <2>2. la + m \in Nat /\ lb + m \in Nat
    OBVIOUS
  <2>3. v \in Walked /\ v.plan = la + m /\ v.shard = lb + m
    BY ONLY <1>7, <2>1, <2>2 DEF Walked
  <2> QED  BY ONLY <1>7a, <1>7b, <2>3
<1>10. ASSUME NEW r \in 1..top, r # top  PROVE Fit(v, d, e, r)
  <2>1. r # 1 => r - 1 \in 1..top /\ r - 1 # top
    BY ONLY <1>4, <1>10
  <2>2. /\ w.runs[r] \in Run /\ v.runs[r] = w.runs[r] /\ Fit(w, a, b, r)
        /\ r # 1 => v.runs[r - 1] = w.runs[r - 1]
    BY ONLY <1>1, <1>4, <1>7, <1>8, <1>10, <2>1
  <2>3. Fit(v, a \o c, b \o c, r)
    BY ONLY <2>2, StillFits
  <2> QED  BY ONLY <2>3 DEF d, e
<1>11. Fit(v, d, e, top)
  <2>1. /\ \A t \in 1..l : a[p + t] = b[q + t]
        /\ q = IF top = 1 THEN 0 ELSE w.runs[top - 1].shard + w.runs[top - 1].len
    BY ONLY <1>1, <1>4, <1>7a DEF Fit, old
  <2>2. top # 1 => v.runs[top - 1] = w.runs[top - 1]
    <3>1. top # 1 => top - 1 \in 1..top /\ top - 1 # top
      <4>1. PICK h \in Nat : h = top
        BY ONLY <1>4
      <4>3. h # 0
        BY ONLY <1>4, <4>1
      <4>2. h # 1 => h - 1 \in 1..h /\ h - 1 # h
        BY ONLY <4>1, <4>3
      <4> QED  BY ONLY <4>1, <4>2
    <3> QED  BY ONLY <1>7, <1>8, <3>1
  <2>3. new.plan + new.len <= Len(d) /\ new.shard + new.len <= Len(e)
    <3>1. la + m <= la + m /\ lb + m <= lb + m
      BY ONLY <1>7a
    <3> QED  BY ONLY <1>7b, <1>7d, <3>1
  <2>4. ASSUME NEW t \in 1..(l + m)  PROVE d[p + t] = e[q + t]
    <3>1. CASE t \in 1..l
      <4>1. p + t \in 1..la /\ q + t \in 1..lb
        BY ONLY <1>7c, <2>4, <3>1
      <4> QED  BY ONLY <1>2, <1>3, <1>7a, <2>1, <3>1, <4>1
    <3>2. CASE t \notin 1..l
      <4>1. PICK i \in Int : i = t - l
        BY ONLY <1>7a, <2>4
      <4>2. i \in 1..m /\ p + t = la + i /\ q + t = lb + i
        BY ONLY <1>7c, <2>4, <3>2, <4>1
      <4>3. d[la + i] = c[i] /\ e[lb + i] = c[i]
        BY ONLY <1>2, <1>3, <1>7a, <4>2
      <4> QED  BY ONLY <4>2, <4>3
    <3> QED  BY ONLY <3>1, <3>2
  <2>5. v.runs[top] = new
    BY ONLY <1>7, <1>8
  <2>6. \A t \in 1..new.len : d[new.plan + t] = e[new.shard + t]
    BY ONLY <1>7a, <1>7b, <2>4
  <2>7. new.shard = IF top = 1 THEN 0 ELSE v.runs[top - 1].shard + v.runs[top - 1].len
    BY ONLY <1>7a, <1>7b, <2>1, <2>2
  <2> QED  BY ONLY <2>3, <2>5, <2>6, <2>7 DEF Fit
<1>12. /\ Len(v.runs) = top /\ v.runs[top].shard + v.runs[top].len = Len(e)
       /\ Len(e) <= Len(d) /\ (Len(e) = Len(d) => d = e)
  <2>1. Len(e) <= Len(d) /\ (Len(e) = Len(d) => Len(b) = Len(a))
    BY ONLY <1>1, <1>7a, <1>7b
  <2>2. Len(e) = Len(d) => d = e
    BY ONLY <1>1, <2>1 DEF d, e
  <2>3. v.runs[top] = new /\ Len(v.runs) = top
    BY ONLY <1>7, <1>8
  <2>4. new.shard + new.len = Len(e)
    BY ONLY <1>7b, <1>7d
  <2> QED  BY ONLY <2>1, <2>2, <2>3, <2>4
<1>12a. top # 0
  BY ONLY <1>4
<1>13. Matched(v, d, e)
  BY ONLY <1>9, <1>10, <1>11, <1>12, <1>12a DEF Matched
<1> QED  BY ONLY <1>13 DEF d, e

\* Any other starts a run.
LEMMA Appends ==
  ASSUME NEW S, NEW a \in Seq(S), NEW b \in Seq(S), NEW c \in Seq(S), NEW w, Matched(w, a, b),
         NEW v, v = [runs |-> Append(w.runs, [plan |-> w.plan, shard |-> w.shard, len |-> Len(c)]),
                     plan |-> w.plan + Len(c), shard |-> w.shard + Len(c)]
  PROVE  Matched(v, a \o c, b \o c)
<1> DEFINE d == a \o c
           e == b \o c
           top == Len(w.runs)
           n == Len(c)
           new == [plan |-> w.plan, shard |-> w.shard, len |-> n]
           rs == Append(w.runs, new)
<1>1. /\ w \in Walked /\ w.plan = Len(a) /\ w.shard = Len(b) /\ w.runs \in Seq(Run)
      /\ \A r \in 1..top : Fit(w, a, b, r)
      /\ IF top = 0 THEN Len(b) = 0
         ELSE w.runs[top].shard + w.runs[top].len = Len(b)
      /\ Len(b) <= Len(a) /\ (Len(b) = Len(a) => a = b)
  BY DEF Matched, Walked
<1>2. /\ Len(a) \in Nat /\ n \in Nat /\ Len(d) = Len(a) + n
      /\ \A i \in 1..n : d[Len(a) + i] = c[i]
  BY Longer
<1>3. /\ Len(b) \in Nat /\ Len(e) = Len(b) + n
      /\ \A i \in 1..n : e[Len(b) + i] = c[i]
  BY Longer
<1>4. top \in Nat /\ \A r \in 1..top : w.runs[r] \in Run
  BY <1>1, Members
<1>5. /\ new \in Run /\ new.plan = Len(a) /\ new.shard = Len(b) /\ new.len = n
  BY <1>1, <1>2, <1>3 DEF Run
<1> HIDE DEF new
<1>6. /\ rs \in Seq(Run) /\ Len(rs) = top + 1 /\ rs[top + 1] = new
      /\ \A r \in 1..top : rs[r] = w.runs[r]
  BY <1>1, <1>5
<1> HIDE DEF rs, d, e, top
<1>7. v.runs = rs /\ v.plan = w.plan + n /\ v.shard = w.shard + n
  BY DEF rs, new
<1>8. /\ v \in Walked /\ v.plan = Len(d) /\ v.shard = Len(e)
  <2> HIDE DEF n
  <2>1. w.plan + n \in Nat /\ w.shard + n \in Nat
    BY <1>1, <1>2, <1>3
  <2>2. v = [runs |-> rs, plan |-> w.plan + n, shard |-> w.shard + n]
    BY DEF rs, new, n
  <2> QED  BY <1>1, <1>2, <1>3, <1>6, <2>1, <2>2 DEF Walked
<1>9. ASSUME NEW r \in 1..top  PROVE Fit(v, d, e, r)
  <2>1. r # 1 => r - 1 \in 1..top
    BY <1>4
  <2>2. /\ w.runs[r] \in Run /\ v.runs[r] = w.runs[r] /\ Fit(w, a, b, r)
        /\ r # 1 => v.runs[r - 1] = w.runs[r - 1]
    BY <1>1, <1>4, <1>6, <1>7, <2>1
  <2>3. Fit(v, a \o c, b \o c, r)
    BY <2>2, StillFits
  <2> QED  BY <2>3 DEF d, e
<1>10. Fit(v, d, e, top + 1)
  <2> HIDE DEF n
  <2>1. /\ v.runs[top + 1] = new /\ (top + 1) - 1 = top
        /\ top # 0 => v.runs[top] = w.runs[top]
    BY <1>4, <1>6, <1>7
  <2>2. new.plan + new.len <= Len(d) /\ new.shard + new.len <= Len(e)
    BY <1>2, <1>3, <1>5
  <2>3. \A t \in 1..new.len : d[new.plan + t] = e[new.shard + t]
    BY <1>2, <1>3, <1>5
  <2>4. new.shard = IF top + 1 = 1 THEN 0 ELSE w.runs[top].shard + w.runs[top].len
    BY <1>1, <1>4, <1>5
  <2>5. new.shard = IF top + 1 = 1 THEN 0 ELSE v.runs[top].shard + v.runs[top].len
    <3>1. top + 1 # 1 => top # 0
      OBVIOUS
    <3> QED  BY ONLY <2>1, <2>4, <3>1
  <2> QED  BY <2>1, <2>2, <2>3, <2>5 DEF Fit
<1>11. /\ Len(v.runs) = top + 1 /\ v.runs[top + 1].shard + v.runs[top + 1].len = Len(e)
       /\ Len(e) <= Len(d) /\ (Len(e) = Len(d) => d = e)
  <2>1. Len(e) <= Len(d) /\ (Len(e) = Len(d) => Len(b) = Len(a))
    BY <1>1, <1>2, <1>3
  <2>2. Len(e) = Len(d) => d = e
    BY <1>1, <2>1 DEF d, e
  <2> HIDE DEF n
  <2> QED  BY <1>3, <1>5, <1>6, <1>7, <2>1, <2>2
<1>12. \A r \in 1..(top + 1) : r \in 1..top \/ r = top + 1
  BY <1>4
<1>13. top + 1 # 0
  BY <1>4
<1>14. Matched(v, d, e)
  BY <1>8, <1>9, <1>10, <1>11, <1>12, <1>13 DEF Matched
<1> QED  BY <1>14 DEF d, e

\* The last run made longer.
LEMMA RunsTyped ==
  ASSUME NEW rs \in Seq(Run), NEW top, top = Len(rs), top > 0, NEW n \in Nat
  PROVE  [rs EXCEPT ![top].len = @ + n] \in Seq(Run)
<1> DEFINE new == [rs[top] EXCEPT !.len = @ + n]
           out == [rs EXCEPT ![top].len = @ + n]
<1>1. /\ top \in Nat /\ DOMAIN rs = 1..top /\ \A r \in 1..top : rs[r] \in Run
  BY Members
<1>2. top \in 1..top
  BY <1>1
<1>3. new \in Run
  BY <1>1, <1>2, LongerRun
<1>4. DOMAIN out = 1..top /\ out[top] = new /\ \A r \in 1..top : r # top => out[r] = rs[r]
  BY <1>1, <1>2
<1>5. out = [r \in 1..top |-> out[r]]
  BY <1>1
<1> HIDE DEF out, new
<1>6. \A r \in 1..top : out[r] \in Run
  BY ONLY <1>1, <1>3, <1>4
<1>7. out \in [1..top -> Run]
  BY ONLY <1>5, <1>6
<1>8. out \in Seq(Run)
  BY ONLY <1>1, <1>7
<1> QED  BY ONLY <1>8 DEF out

\* A step of the walk keeps the kinds of its parts.
LEMMA WalkTyped ==
  ASSUME NEW in, Sound(in), NEW saved, NEW now, NEW w \in Walked,
         NEW k \in 1..Len(Groups(in))
  PROVE  Walk(in, saved, now, w, Groups(in)[k]) \in Walked
<1> DEFINE at == Groups(in)[k]
           n == IF IsRead(in, saved, at) THEN GroupRows(in, at) ELSE 0
           kept == n > 0 /\ IsRead(in, now, at)
           top == Len(w.runs)
           next == kept /\ top > 0 /\ w.runs[top].plan + w.runs[top].len = w.plan
           longer == [w.runs EXCEPT ![top].len = @ + n]
           more == Append(w.runs, [plan |-> w.plan, shard |-> w.shard, len |-> n])
           v == Walk(in, saved, now, w, at)
<1>1. n \in Nat /\ w.runs \in Seq(Run) /\ w.plan \in Nat /\ w.shard \in Nat
  BY Chunks DEF Adding, Walked
<1>2. v = [runs |-> IF ~kept THEN w.runs ELSE IF next THEN longer ELSE more,
           plan |-> w.plan + n,
           shard |-> IF kept THEN w.shard + n ELSE w.shard]
  BY DEF Walk
<1> HIDE DEF n, v, at
<1>3. next => longer \in Seq(Run)
  BY <1>1, RunsTyped
<1>4. more \in Seq(Run)
  <2>1. [plan |-> w.plan, shard |-> w.shard, len |-> n] \in Run
    BY <1>1 DEF Run
  <2> QED  BY <1>1, <2>1
<1> HIDE DEF next, longer, more, kept
<1>5. v \in Walked
  BY <1>1, <1>2, <1>3, <1>4 DEF Walked
<1> QED  BY <1>5 DEF v, at

\* A step of the walk matches what one more row group adds.
LEMMA WalkMatches ==
  ASSUME NEW in, Sound(in), NEW saved, NEW now, NEW k \in 1..Len(Groups(in)),
         IsRead(in, now, Groups(in)[k]) => IsRead(in, saved, Groups(in)[k]),
         NEW a \in Seq(RowAddresses), NEW b \in Seq(RowAddresses),
         NEW w, Matched(w, a, b)
  PROVE  Matched(Walk(in, saved, now, w, Groups(in)[k]),
                 a \o Chunk(in, saved, Groups(in)[k]),
                 b \o Chunk(in, now, Groups(in)[k]))
<1> DEFINE at == Groups(in)[k]
           n == IF IsRead(in, saved, at) THEN GroupRows(in, at) ELSE 0
           kept == n > 0 /\ IsRead(in, now, at)
           top == Len(w.runs)
           next == kept /\ top > 0 /\ w.runs[top].plan + w.runs[top].len = w.plan
           longer == [w.runs EXCEPT ![top].len = @ + n]
           more == Append(w.runs, [plan |-> w.plan, shard |-> w.shard, len |-> n])
           v == Walk(in, saved, now, w, at)
           c == Chunk(in, saved, at)
           d == Chunk(in, now, at)
<1>1. /\ c \in Seq(RowAddresses) /\ Len(c) = n /\ n \in Nat
  BY Chunks DEF Adding
<1>2. v = [runs |-> IF ~kept THEN w.runs ELSE IF next THEN longer ELSE more,
           plan |-> w.plan + n,
           shard |-> IF kept THEN w.shard + n ELSE w.shard]
  BY DEF Walk
<1>3. kept => d = c
  BY DEF Chunk
<1>4. ~kept => d = <<>>
  <2>1. SUFFICES ASSUME ~kept, IsRead(in, now, at)  PROVE d = <<>>
    BY DEF Chunk
  <2>2. d = c
    BY <2>1 DEF Chunk
  <2> HIDE DEF c, d, n, at
  <2>3. n = 0
    BY <1>1, <2>1
  <2>4. c = <<>>
    BY <1>1, <2>3
  <2> QED  BY <2>2, <2>4
<1> HIDE DEF c, d, v
<1>5. CASE ~kept
  <2>1. v = [runs |-> w.runs, plan |-> w.plan + Len(c), shard |-> w.shard]
    BY <1>1, <1>2, <1>5
  <2>2. Matched(v, a \o c, b)
    <3> HIDE DEF n, kept, next, longer, more, at
    <3> QED  BY <1>1, <2>1, Skips
  <2>3. b \o d = b
    BY <1>4, <1>5
  <2> QED  BY <2>2, <2>3 DEF c, d, v
<1>6. CASE next
  <2>1. /\ v = [runs |-> [w.runs EXCEPT ![top].len = @ + Len(c)],
                plan |-> w.plan + Len(c), shard |-> w.shard + Len(c)]
        /\ top > 0 /\ w.runs[top].plan + w.runs[top].len = w.plan
    BY <1>1, <1>2, <1>6
  <2>2. Matched(v, a \o c, b \o c)
    <3> HIDE DEF n, kept, next, longer, more, at, top
    <3>1. top = Len(w.runs)
      BY DEF top
    <3> QED  BY <1>1, <2>1, <3>1, Extends
  <2> QED  BY <1>3, <1>6, <2>2 DEF c, d, v
<1>7. CASE kept /\ ~next
  <2>1. /\ v = [runs |-> Append(w.runs, [plan |-> w.plan, shard |-> w.shard, len |-> Len(c)]),
                plan |-> w.plan + Len(c), shard |-> w.shard + Len(c)]
    BY <1>1, <1>2, <1>7
  <2>2. Matched(v, a \o c, b \o c)
    <3> HIDE DEF n, kept, next, longer, more, at
    <3> QED  BY <1>1, <2>1, Appends
  <2> QED  BY <1>3, <1>7, <2>2 DEF c, d, v
<1> QED  BY <1>5, <1>6, <1>7

\* The runs are those of the stream read now in the stream that was saved.
LEMMA KeptMatches ==
  ASSUME NEW in, Sound(in), NEW saved, NEW now,
         \A k \in 1..Len(Groups(in)) :
           IsRead(in, now, Groups(in)[k]) => IsRead(in, saved, Groups(in)[k])
  PROVE  /\ Matched(Kept(in, saved, now), Stream(in, saved), Stream(in, now))
         /\ Stream(in, saved) \in Seq(RowAddresses)
         /\ Stream(in, now) \in Seq(RowAddresses)
<1> DEFINE gs == Groups(in)
           m == Len(gs)
           start == [runs |-> <<>>, plan |-> 0, shard |-> 0]
           g == [k \in 1..m |-> [w \in Walked |-> Walk(in, saved, now, w, gs[k])]]
           Eq(f) == f = [k \in 0..m |-> IF k = 0 THEN start
                                        ELSE Walk(in, saved, now, f[k - 1], gs[k])]
           h == CHOOSE f : Eq(f)
<1>1. m \in Nat /\ start \in Walked
  BY GroupsAre DEF Walked
<1>2. Keeps(g, m, Walked)
  BY WalkTyped DEF Keeps
<1>3. PICK F : Folded(F, m, Walked, start, g)
  <2> HIDE DEF g, m, start
  <2> QED  BY <1>1, <1>2, Folding
<1>4. /\ F \in [0..m -> Walked] /\ F[0] = start
      /\ \A k \in 1..m : F[k] = Walk(in, saved, now, F[k - 1], gs[k])
  <2>1. F \in [0..m -> Walked] /\ F[0] = start /\ \A k \in 1..m : F[k] = g[k][F[k - 1]]
    BY <1>3 DEF Folded
  <2>2. \A k \in 1..m : k - 1 \in 0..m
    BY <1>1
  <2>3. \A k \in 1..m : F[k - 1] \in Walked
    BY <2>1, <2>2
  <2> QED  BY <2>1, <2>3
<1>5. Eq(F)
  <2> HIDE DEF start, m, gs
  <2>1. ASSUME NEW k \in 0..m
        PROVE  F[k] = IF k = 0 THEN start ELSE Walk(in, saved, now, F[k - 1], gs[k])
    <3>1. k = 0 \/ k \in 1..m
      BY <1>1
    <3> QED  BY <1>4, <3>1
  <2>2. F = [k \in 0..m |-> F[k]]
    BY <1>4
  <2> QED  BY <2>1, <2>2
<1>6. Eq(h)
  <2> HIDE DEF Eq
  <2> QED  BY <1>5
<1>7. Kept(in, saved, now) = h[m]
  BY DEF Kept
<1>8. h[0] = start /\ \A k \in 1..m : h[k] = Walk(in, saved, now, h[k - 1], gs[k])
  <2>1. h = [k \in 0..m |-> IF k = 0 THEN start ELSE Walk(in, saved, now, h[k - 1], gs[k])]
    BY <1>6
  <2>2. 0 \in 0..m /\ \A k \in 1..m : k \in 0..m /\ k # 0
    BY <1>1
  <2> HIDE DEF h, start, m, gs
  <2> QED  BY <2>1, <2>2
<1>9. PICK A : Reading(A, in, saved)
  BY Streams
<1>10. PICK B : Reading(B, in, now)
  BY Streams
<1>11. /\ A \in [0..m -> Seq(RowAddresses)] /\ A[0] = <<>> /\ Stream(in, saved) = A[m]
       /\ \A k \in 1..m : A[k] = A[k - 1] \o Chunk(in, saved, gs[k])
  BY <1>9 DEF Reading
<1>12. /\ B \in [0..m -> Seq(RowAddresses)] /\ B[0] = <<>> /\ Stream(in, now) = B[m]
       /\ \A k \in 1..m : B[k] = B[k - 1] \o Chunk(in, now, gs[k])
  BY <1>10 DEF Reading
<1> HIDE DEF h, Eq, g
<1>13. Matched(h[0], A[0], B[0])
  <2>1. Matched(start, <<>>, <<>>)
    <3>1. Len(<<>>) = 0 /\ 1..0 = {}
      OBVIOUS
    <3>2. /\ start \in Walked /\ start.plan = 0 /\ start.shard = 0 /\ start.runs = <<>>
      BY <1>1
    <3> HIDE DEF start
    <3> QED  BY ONLY <3>1, <3>2 DEF Matched
  <2> QED  BY <1>8, <1>11, <1>12, <2>1
<1>14. ASSUME NEW k \in 1..m, Matched(h[k - 1], A[k - 1], B[k - 1])
       PROVE  Matched(h[k], A[k], B[k])
  <2>1. k - 1 \in 0..m
    BY <1>1
  <2>2. /\ A[k - 1] \in Seq(RowAddresses) /\ B[k - 1] \in Seq(RowAddresses)
    BY <1>11, <1>12, <2>1
  <2>3. Matched(Walk(in, saved, now, h[k - 1], gs[k]),
                A[k - 1] \o Chunk(in, saved, gs[k]),
                B[k - 1] \o Chunk(in, now, gs[k]))
    BY <1>14, <2>2, WalkMatches
  <2> QED  BY <1>8, <1>11, <1>12, <2>3
<1> DEFINE Right(k) == Matched(h[k], A[k], B[k])
           Bad == {k \in 0..m : ~Right(k)}
<1>15. Right(0) /\ \A k \in 1..m : Right(k - 1) => Right(k)
  BY <1>13, <1>14
<1> HIDE DEF Right
<1>16. Bad = {}
  <2>1. SUFFICES ASSUME Bad # {}  PROVE FALSE
    OBVIOUS
  <2>2. PICK k \in Bad : \A j \in Bad : k <= j
    <3>1. Bad \in SUBSET Nat
      BY <1>1
    <3> HIDE DEF Bad
    <3> QED  BY <2>1, <3>1, Smallest
  <2>3. k \in 0..m /\ k # 0 /\ ~Right(k)
    BY <1>15, <2>2
  <2>4. k \in 1..m /\ k - 1 \in 0..m /\ ~(k <= k - 1)
    BY <1>1, <2>3
  <2>5. k - 1 \notin Bad
    <3> HIDE DEF Bad
    <3> QED  BY <2>2, <2>4
  <2> QED  BY <1>15, <2>3, <2>4, <2>5
<1>17. Right(m) /\ m \in 0..m
  BY <1>1, <1>16
<1>18. A[m] \in Seq(RowAddresses) /\ B[m] \in Seq(RowAddresses)
  BY <1>11, <1>12, <1>17
<1> QED  BY <1>7, <1>11, <1>12, <1>17, <1>18 DEF Right

\* What a walk has found holds of anything that is kept row by row.
LEMMA MatchedTables ==
  ASSUME NEW S, NEW a \in Seq(S), NEW b \in Seq(S), NEW w, Matched(w, a, b),
         NEW T, NEW c \in Seq(T), NEW d \in Seq(T),
         Len(c) = Len(a), Len(d) = Len(b),
         \A i \in 1..Len(a) : \A k \in 1..Len(b) : a[i] = b[k] => c[i] = d[k]
  PROVE  Matched(w, c, d)
<1>1. /\ w \in Walked /\ w.plan = Len(a) /\ w.shard = Len(b) /\ w.runs \in Seq(Run)
      /\ \A r \in 1..Len(w.runs) : Fit(w, a, b, r)
      /\ IF Len(w.runs) = 0 THEN Len(b) = 0
         ELSE w.runs[Len(w.runs)].shard + w.runs[Len(w.runs)].len = Len(b)
      /\ Len(b) <= Len(a) /\ (Len(b) = Len(a) => a = b)
  BY DEF Matched, Walked
<1>2. Len(a) \in Nat /\ Len(b) \in Nat
  OBVIOUS
<1>3. ASSUME NEW r \in 1..Len(w.runs)  PROVE Fit(w, c, d, r)
  <2> DEFINE run == w.runs[r]
  <2>1. run \in Run
    BY <1>1, Members
  <2>2. /\ run.plan \in Nat /\ run.len \in Nat /\ run.shard \in Nat
        /\ run.plan + run.len <= Len(a) /\ run.shard + run.len <= Len(b)
        /\ \A t \in 1..run.len : a[run.plan + t] = b[run.shard + t]
        /\ run.shard = IF r = 1 THEN 0 ELSE w.runs[r - 1].shard + w.runs[r - 1].len
    BY <1>1, <2>1 DEF Fit, Run
  <2> HIDE DEF run
  <2>3. \A t \in 1..run.len : run.plan + t \in 1..Len(a) /\ run.shard + t \in 1..Len(b)
    <3>1. PICK x \in Nat : x = run.plan
      BY <2>2
    <3>2. PICK s \in Nat : s = run.shard
      BY <2>2
    <3>3. PICK l \in Nat : l = run.len
      BY <2>2
    <3>4. x + l <= Len(a) /\ s + l <= Len(b)
      BY <2>2, <3>1, <3>2, <3>3
    <3>5. \A t \in 1..l : x + t \in 1..Len(a) /\ s + t \in 1..Len(b)
      BY ONLY <1>2, <3>4, x \in Nat, s \in Nat, l \in Nat
    <3> QED  BY <3>1, <3>2, <3>3, <3>5
  <2>4. \A t \in 1..run.len : c[run.plan + t] = d[run.shard + t]
    BY <2>2, <2>3
  <2>5. run.plan + run.len <= Len(c) /\ run.shard + run.len <= Len(d)
    BY <2>2
  <2>6. run.shard = IF r = 1 THEN 0 ELSE w.runs[r - 1].shard + w.runs[r - 1].len
    BY <2>2
  <2> QED  BY ONLY <2>4, <2>5, <2>6 DEF Fit, run
<1>4. Len(d) = Len(c) => c = d
  <2>1. SUFFICES ASSUME Len(d) = Len(c)  PROVE c = d
    OBVIOUS
  <2>2. a = b
    BY <1>1, <2>1
  <2>3. \A i \in 1..Len(a) : c[i] = d[i]
    BY <2>2
  <2> QED  BY <2>1, <2>3
<1> QED  BY <1>1, <1>3, <1>4 DEF Matched

\* Every row found lies in one of the runs.
LEMMA RunOver ==
  ASSUME NEW S, NEW a \in Seq(S), NEW b \in Seq(S), NEW w, Matched(w, a, b),
         NEW j \in 1..Len(b)
  PROVE  \E r \in 1..Len(w.runs) : \E t \in 1..w.runs[r].len : j = w.runs[r].shard + t
<1> DEFINE n == Len(w.runs)
           End(r) == w.runs[r].shard + w.runs[r].len
           Far == {r \in 1..n : j <= End(r)}
<1>1. /\ w.runs \in Seq(Run) /\ n \in Nat
      /\ \A r \in 1..n : /\ w.runs[r].shard \in Nat /\ w.runs[r].len \in Nat
                         /\ w.runs[r].shard = IF r = 1 THEN 0 ELSE End(r - 1)
      /\ IF n = 0 THEN Len(b) = 0 ELSE End(n) = Len(b)
  <2>1. w.runs \in Seq(Run)
    BY DEF Matched, Walked
  <2>2. n \in Nat /\ \A r \in 1..n : w.runs[r] \in Run
    BY <2>1, Members
  <2> QED  BY <2>1, <2>2 DEF Matched, Fit, Run
<1>2. Len(b) \in Nat /\ j \in Nat /\ 1 <= j /\ j <= Len(b)
  OBVIOUS
<1>3. n # 0 /\ n \in Far
  BY <1>1, <1>2
<1>4. PICK r \in Far : \A h \in Far : r <= h
  <2>1. Far \in SUBSET Nat
    BY <1>1
  <2> HIDE DEF Far
  <2> QED  BY <1>3, <2>1, Smallest
<1>5. r \in 1..n /\ j <= End(r)
  BY <1>4
<1>6. w.runs[r].shard < j
  <2>1. CASE r = 1
    BY <1>1, <1>2, <1>5, <2>1
  <2>2. CASE r # 1
    <3>1. r - 1 \in 1..n /\ ~(r <= r - 1)
      BY <1>1, <1>5, <2>2
    <3>2. r - 1 \notin Far
      <4> HIDE DEF Far
      <4> QED  BY <1>4, <3>1
    <3>3. ~(j <= End(r - 1)) /\ End(r - 1) \in Nat
      BY <1>1, <3>1, <3>2
    <3> HIDE DEF End
    <3> QED  BY <1>1, <1>2, <1>5, <2>2, <3>3
  <2> QED  BY <2>1, <2>2
<1>7. PICK s \in Nat : s = w.runs[r].shard
  BY <1>1, <1>5
<1>8. PICK l \in Nat : l = w.runs[r].len
  BY <1>1, <1>5
<1>9. j - s \in 1..l /\ j = s + (j - s)
  BY <1>2, <1>5, <1>6, <1>7, <1>8
<1> QED  BY <1>5, <1>7, <1>8, <1>9

\* A table cut down to the runs is the table of the rows found.
LEMMA Compacts ==
  ASSUME NEW S, NEW a \in Seq(S), NEW b \in Seq(S), NEW w, Matched(w, a, b)
  PROVE  Compact(a, w.runs) = b
<1> DEFINE rs == w.runs
           n == Len(rs)
           Piece(r) == SubSeq(a, rs[r].plan + 1, rs[r].plan + rs[r].len)
           seqs == [r \in DOMAIN rs |-> Piece(r)]
           End(r) == IF r = 0 THEN 0 ELSE rs[r].shard + rs[r].len
<1>1. /\ rs \in Seq(Run) /\ n \in Nat /\ DOMAIN rs = 1..n
      /\ \A r \in 1..n : /\ rs[r].plan \in Nat /\ rs[r].shard \in Nat /\ rs[r].len \in Nat
                         /\ rs[r].plan + rs[r].len <= Len(a)
                         /\ rs[r].shard + rs[r].len <= Len(b)
                         /\ \A t \in 1..rs[r].len : a[rs[r].plan + t] = b[rs[r].shard + t]
                         /\ rs[r].shard = IF r = 1 THEN 0 ELSE rs[r - 1].shard + rs[r - 1].len
  <2>1. rs \in Seq(Run)
    BY DEF Matched, Walked
  <2>2. n \in Nat /\ DOMAIN rs = 1..n /\ \A r \in 1..n : rs[r] \in Run
    BY <2>1, Members
  <2>3. \A r \in 1..n : Fit(w, a, b, r)
    BY DEF Matched
  <2> QED  BY <2>1, <2>2, <2>3 DEF Fit, Run
<1>2. End(n) = Len(b) /\ Len(b) \in Nat /\ Len(a) \in Nat
  BY <1>1 DEF Matched
<1>3. ASSUME NEW r \in 1..n
      PROVE  /\ Piece(r) \in Seq(S) /\ Len(Piece(r)) = rs[r].len
             /\ \A t \in 1..rs[r].len : Piece(r)[t] = b[rs[r].shard + t]
  <2>1. PICK x \in Nat : x = rs[r].plan
    BY <1>1
  <2>2. PICK l \in Nat : l = rs[r].len
    BY <1>1
  <2>3. x + l <= Len(a)
    BY <1>1, <2>1, <2>2
  <2> DEFINE c == SubSeq(a, x + 1, x + l)
  <2>4. /\ c \in Seq(S) /\ Len(c) = l /\ \A t \in 1..l : c[t] = a[x + t]
    <3>1. Len(c) = l
      BY <1>2, <2>3
    <3>2. \A t \in 1..l : c[t] = a[x + t] /\ a[x + t] \in S
      BY <1>2, <2>3
    <3>3. c = [t \in 1..l |-> a[x + t]]
      BY <1>2, <2>3
    <3> HIDE DEF c
    <3> QED  BY <3>1, <3>2, <3>3
  <2>5. Piece(r) = c
    BY <2>1, <2>2
  <2> HIDE DEF Piece, c
  <2> QED  BY <1>1, <2>1, <2>2, <2>4, <2>5
<1>4. seqs \in Seq(Seq(S)) /\ Len(seqs) = n
  <2>1. seqs = [r \in 1..n |-> Piece(r)]
    BY <1>1
  <2> HIDE DEF seqs, Piece, n
  <2> QED  BY <1>1, <1>3, <2>1
<1>5. \A r \in 1..n : seqs[r] = Piece(r)
  BY <1>1
<1>6. Compact(a, rs) = FlattenSeq(seqs)
  BY DEF Compact
<1> HIDE DEF seqs
<1>7. PICK F : Laying(F, seqs, S) /\ FlattenSeq(seqs) = F[Len(seqs)]
  BY <1>4, Flatten
<1>8. /\ F \in [0..n -> Seq(S)] /\ F[0] = <<>>
      /\ \A r \in 1..n : F[r] = F[r - 1] \o Piece(r)
  <2> HIDE DEF Piece
  <2> QED  BY <1>4, <1>5, <1>7 DEF Laying
<1> DEFINE Right(r) == Len(F[r]) = End(r) /\ \A i \in 1..End(r) : F[r][i] = b[i]
           Bad == {r \in 0..n : ~Right(r)}
<1> HIDE DEF Piece
<1>9. Right(0)
  <2>1. Len(F[0]) = 0 /\ 1..0 = {}
    BY <1>8
  <2> QED  BY <2>1
<1>10. ASSUME NEW r \in 1..n, Right(r - 1)  PROVE Right(r)
  <2>1. r - 1 \in 0..n /\ r # 0
    BY <1>1
  <2> DEFINE c == F[r - 1]
             d == Piece(r)
             e == c \o d
  <2>2. /\ c \in Seq(S) /\ d \in Seq(S) /\ F[r] = e
    BY <1>3, <1>8, <2>1
  <2>3. PICK s \in Nat : s = rs[r].shard
    BY <1>1
  <2>4. PICK l \in Nat : l = rs[r].len
    BY <1>1
  <2>5. End(r - 1) = s /\ End(r) = s + l
    <3>1. CASE r = 1
      BY <1>1, <2>3, <2>4, <3>1
    <3>2. CASE r # 1
      <4>1. r - 1 # 0
        BY <3>2
      <4> QED  BY <1>1, <2>1, <2>3, <2>4, <3>2, <4>1
    <3> QED  BY <3>1, <3>2
  <2>6. /\ Len(c) = s /\ (\A i \in 1..s : c[i] = b[i])
        /\ Len(d) = l /\ (\A t \in 1..l : d[t] = b[s + t])
    BY <1>3, <1>10, <2>3, <2>4, <2>5
  <2>7. /\ Len(e) = s + l /\ (\A i \in 1..s : e[i] = c[i])
        /\ \A t \in 1..l : e[s + t] = d[t]
    <3> HIDE DEF c, d
    <3>1. /\ Len(e) = Len(c) + Len(d)
          /\ (\A i \in 1..Len(c) : e[i] = c[i])
          /\ \A t \in 1..Len(d) : e[Len(c) + t] = d[t]
      BY ONLY <2>2, Longer DEF e
    <3> HIDE DEF e
    <3> QED  BY <2>6, <3>1
  <2> HIDE DEF c, d, e, End
  <2>8. ASSUME NEW i \in 1..(s + l)  PROVE e[i] = b[i]
    <3>1. CASE i <= s
      BY <2>6, <2>7, <3>1
    <3>2. CASE ~(i <= s)
      <4>1. PICK t \in 1..l : i = s + t
        <5>1. i - s \in 1..l /\ s + (i - s) = i
          BY <3>2
        <5> QED  BY <5>1
      <4> QED  BY ONLY <2>6, <2>7, <4>1
    <3> QED  BY <3>1, <3>2
  <2> QED  BY <2>2, <2>5, <2>7, <2>8
<1> HIDE DEF Right
<1>11. Bad = {}
  <2>1. SUFFICES ASSUME Bad # {}  PROVE FALSE
    OBVIOUS
  <2>2. PICK r \in Bad : \A h \in Bad : r <= h
    <3>1. Bad \in SUBSET Nat
      BY <1>1
    <3> HIDE DEF Bad
    <3> QED  BY <2>1, <3>1, Smallest
  <2>3. r \in 0..n /\ r # 0 /\ ~Right(r)
    BY <1>9, <2>2
  <2>4. r \in 1..n /\ r - 1 \in 0..n /\ ~(r <= r - 1)
    BY <1>1, <2>3
  <2>5. r - 1 \notin Bad
    <3> HIDE DEF Bad
    <3> QED  BY <2>2, <2>4
  <2> QED  BY <1>10, <2>3, <2>4, <2>5
<1>12. Right(n) /\ n \in 0..n
  BY <1>1, <1>11
<1>13. F[n] \in Seq(S) /\ Len(F[n]) = Len(b) /\ \A i \in 1..Len(b) : F[n][i] = b[i]
  BY <1>2, <1>8, <1>12 DEF Right
<1>14. F[n] = b
  <2> DEFINE f == F[n]
  <2>1. f \in Seq(S) /\ Len(f) = Len(b) /\ \A i \in 1..Len(b) : f[i] = b[i]
    BY <1>13
  <2> HIDE DEF f
  <2>2. f = b
    BY <2>1
  <2> QED  BY <2>2 DEF f
<1> QED  BY <1>4, <1>6, <1>7, <1>14

\* Places of the same rows in two streams.
Alongside(a, b, A, B) ==
  /\ A \in SUBSET (1..Len(a)) /\ B \in SUBSET (1..Len(b))
  /\ \A i \in 1..Len(a) : \A k \in 1..Len(b) : a[i] = b[k] => (i \in A <=> k \in B)

\* What the runs make of some places.
Moved(runs, A, B) == \A j : j \in B <=> \E k \in A : j \in ShardRows(runs, k)

\* What is kept by row goes with the runs.
LEMMA SidesMove ==
  ASSUME NEW S, NEW a \in Seq(S), NEW b \in Seq(S), NEW w, Matched(w, a, b),
         NEW A, NEW B, Alongside(a, b, A, B)
  PROVE  Moved(w.runs, A, B)
<1>0. /\ A \in SUBSET (1..Len(a)) /\ B \in SUBSET (1..Len(b))
      /\ \A i \in 1..Len(a) : \A k \in 1..Len(b) : a[i] = b[k] => (i \in A <=> k \in B)
  BY DEF Alongside
<1> DEFINE rs == w.runs
           n == Len(rs)
<1>1. /\ n \in Nat /\ DOMAIN rs = 1..n /\ Len(a) \in Nat /\ Len(b) \in Nat
      /\ \A r \in 1..n : /\ rs[r].plan \in Nat /\ rs[r].shard \in Nat /\ rs[r].len \in Nat
                         /\ rs[r].plan + rs[r].len <= Len(a)
                         /\ rs[r].shard + rs[r].len <= Len(b)
                         /\ \A t \in 1..rs[r].len : a[rs[r].plan + t] = b[rs[r].shard + t]
  <2>1. rs \in Seq(Run)
    BY DEF Matched, Walked
  <2>2. n \in Nat /\ DOMAIN rs = 1..n /\ \A r \in 1..n : rs[r] \in Run
    BY <2>1, Members
  <2>3. \A r \in 1..n : Fit(w, a, b, r)
    BY DEF Matched
  <2>4. \A r \in 1..n : /\ rs[r].plan \in Nat /\ rs[r].shard \in Nat /\ rs[r].len \in Nat
    BY <2>2 DEF Run
  <2>5. \A r \in 1..n : /\ rs[r].plan + rs[r].len <= Len(a)
                         /\ rs[r].shard + rs[r].len <= Len(b)
                         /\ \A t \in 1..rs[r].len : a[rs[r].plan + t] = b[rs[r].shard + t]
    BY <2>3 DEF Fit
  <2>6. Len(a) \in Nat /\ Len(b) \in Nat
    OBVIOUS
  <2> HIDE DEF rs, n
  <2> QED  BY ONLY <2>2, <2>4, <2>5, <2>6
<1>2. ASSUME NEW r \in 1..n, NEW t \in 1..rs[r].len
      PROVE  /\ rs[r].plan + t \in 1..Len(a) /\ rs[r].shard + t \in 1..Len(b)
             /\ rs[r].plan + t \in A <=> rs[r].shard + t \in B
             /\ rs[r].shard + t \in ShardRows(rs, rs[r].plan + t)
  <2>1. PICK x \in Nat : x = rs[r].plan
    BY <1>1
  <2>2. PICK s \in Nat : s = rs[r].shard
    BY <1>1
  <2>3. PICK l \in Nat : l = rs[r].len
    BY <1>1
  <2>4. /\ x + l <= Len(a) /\ s + l <= Len(b) /\ t \in 1..l /\ a[x + t] = b[s + t]
    BY <1>1, <2>1, <2>2, <2>3
  <2>5. x + t \in 1..Len(a) /\ s + t \in 1..Len(b)
    BY <1>1, <2>4
  <2>6. x + t \in A <=> s + t \in B
    BY <1>0, <2>4, <2>5
  <2>7. x < x + t /\ x + t <= x + l /\ s + (x + t - x) = s + t
    BY <2>4
  <2>8. s + t \in ShardRows(rs, x + t)
    <3>0. PICK k \in Nat : k = x + t
      OBVIOUS
    <3>1. r \in {h \in DOMAIN rs : rs[h].plan < k /\ k <= rs[h].plan + rs[h].len}
      BY <1>1, <2>1, <2>3, <2>7, <3>0
    <3>2. s + t = rs[r].shard + (k - rs[r].plan)
      BY <2>1, <2>2, <2>7, <3>0
    <3> HIDE DEF rs
    <3>3. s + t \in ShardRows(rs, k)
      BY ONLY <3>1, <3>2 DEF ShardRows
    <3> QED  BY <3>0, <3>3
  <2> QED  BY <2>1, <2>2, <2>5, <2>6, <2>8
<1>3. ASSUME NEW k \in A, NEW j \in ShardRows(rs, k)  PROVE j \in B
  <2>1. PICK r \in DOMAIN rs : /\ rs[r].plan < k /\ k <= rs[r].plan + rs[r].len
                               /\ j = rs[r].shard + (k - rs[r].plan)
    BY DEF ShardRows
  <2>2. r \in 1..n /\ k \in Nat
    BY <1>0, <1>1, <2>1
  <2>3. PICK x \in Nat : x = rs[r].plan
    BY <1>1, <2>2
  <2>4. PICK l \in Nat : l = rs[r].len
    BY <1>1, <2>2
  <2>5. k - x \in 1..l /\ x + (k - x) = k
    <3>1. x < k /\ k <= x + l
      BY <2>1, <2>3, <2>4
    <3> QED  BY <2>2, <3>1
  <2> HIDE DEF n, rs
  <2>6. PICK t \in 1..rs[r].len : k = x + t
    BY <2>4, <2>5
  <2>7. PICK s \in Nat : s = rs[r].shard
    BY <1>1, <2>2
  <2>8. j = s + t
    BY <2>1, <2>3, <2>4, <2>6, <2>7
  <2>9. rs[r].plan + t \in A <=> rs[r].shard + t \in B
    BY <1>2, <2>2
  <2> QED  BY <2>3, <2>6, <2>7, <2>8, <2>9
<1>4. ASSUME NEW j \in B  PROVE \E k \in A : j \in ShardRows(rs, k)
  <2>1. j \in 1..Len(b)
    BY <1>0
  <2>2. PICK r \in 1..n : \E t \in 1..rs[r].len : j = rs[r].shard + t
    <3>1. /\ a \in Seq(S) /\ b \in Seq(S) /\ Matched(w, a, b)
      OBVIOUS
    <3>2. \E r \in 1..Len(w.runs) : \E t \in 1..w.runs[r].len : j = w.runs[r].shard + t
      BY ONLY <2>1, <3>1, RunOver
    <3> QED  BY <3>2
  <2>3. PICK t \in 1..rs[r].len : j = rs[r].shard + t
    BY <2>2
  <2> DEFINE k == rs[r].plan + t
  <2>4. k \in A <=> rs[r].shard + t \in B
    BY <1>2, <2>2
  <2>5. rs[r].shard + t \in ShardRows(rs, k)
    BY <1>2, <2>2
  <2> HIDE DEF n, rs, k
  <2> QED  BY <2>3, <2>4, <2>5
<1> HIDE DEF rs
<1>5. Moved(rs, A, B)
  BY <1>3, <1>4 DEF Moved
<1> QED  BY <1>5 DEF rs

\* The tables kept of some rows, row by row.
Tabled(in, sel, o, table) ==
  LET rows == Stream(in, sel)
  IN /\ table.levels \in Seq({Row(in, at).level[o] : at \in RowAddresses})
     /\ Len(table.levels) = Len(rows)
     /\ \A k \in 1..Len(rows) : table.levels[k] = Row(in, rows[k]).level[o]
     /\ table.side \in SUBSET (1..Len(rows))
     /\ \A k \in 1..Len(rows) : k \in table.side <=> Row(in, rows[k]).carries

\* A stream is a sequence of the places of rows.
LEMMA StreamTyped ==
  ASSUME NEW in, Sound(in), NEW sel
  PROVE  Stream(in, sel) \in Seq(RowAddresses)
<1>1. PICK F : Reading(F, in, sel)
  BY Streams
<1>2. Len(Groups(in)) \in Nat
  BY GroupsAre
<1> QED  BY <1>1, <1>2 DEF Reading

\* The assignment keeps the tables row by row.
LEMMA AssignedTables ==
  ASSUME NEW in, Sound(in), NEW sel, NEW o
  PROVE  Tabled(in, sel, o, Assigned(in, sel, o))
<1> DEFINE rows == Stream(in, sel)
           m == Len(rows)
           L(k) == Row(in, rows[k]).level[o]
           T == {Row(in, at).level[o] : at \in RowAddresses}
           table == Assigned(in, sel, o)
<1>1. /\ m \in Nat /\ DOMAIN rows = 1..m /\ \A k \in 1..m : rows[k] \in RowAddresses
  <2>1. rows \in Seq(RowAddresses)
    BY StreamTyped
  <2> HIDE DEF rows
  <2> QED  BY <2>1, Members
<1>2. /\ table.levels = [k \in 1..m |-> L(k)]
      /\ table.side = {k \in 1..m : Row(in, rows[k]).carries}
  BY <1>1 DEF Assigned
<1>3. \A k \in 1..m : L(k) \in T
  BY <1>1
<1> HIDE DEF rows, m, L, T, table
<1>4. /\ table.levels \in Seq(T) /\ Len(table.levels) = m
      /\ \A k \in 1..m : table.levels[k] = L(k)
  BY <1>1, <1>2, <1>3
<1>5. /\ table.side \in SUBSET (1..m)
      /\ \A k \in 1..m : k \in table.side <=> Row(in, rows[k]).carries
  BY <1>2
<1> QED  BY <1>4, <1>5 DEF Tabled, rows, m, L, T, table

\* rebase_plan_for_shard makes of the tables those that the rows read now
\* would have been given.
LEMMA Rebases ==
  ASSUME NEW in, Sound(in), NEW saved, NEW now, NEW o, NEW d,
         \A k \in 1..Len(Groups(in)) :
           IsRead(in, now, Groups(in)[k]) => IsRead(in, saved, Groups(in)[k]),
         NEW plan, plan = SavedPlan(in, saved, o, d)
  PROVE  Tabled(in, now, o, Rebased(plan, in, now))
<1> DEFINE a == Stream(in, saved)
           b == Stream(in, now)
           w == Kept(in, saved, now)
           ta == Assigned(in, saved, o)
           tb == Assigned(in, now, o)
           T == {Row(in, at).level[o] : at \in RowAddresses}
<1>1. Matched(w, a, b) /\ a \in Seq(RowAddresses) /\ b \in Seq(RowAddresses)
  BY KeptMatches
<1>2. /\ plan.fingerprint.sel = saved /\ plan.levels = ta.levels /\ plan.side = ta.side
      /\ plan = [fingerprint |-> plan.fingerprint, levels |-> ta.levels, side |-> ta.side]
  BY DEF SavedPlan, Fingerprint
<1>3. Tabled(in, saved, o, ta) /\ Tabled(in, now, o, tb)
  BY AssignedTables
<1>4. w.plan = Len(a) /\ w.shard = Len(b) /\ (Len(b) = Len(a) => a = b)
  BY <1>1 DEF Matched
<1>5. CASE w.shard = w.plan
  <2>1. a = b
    BY <1>4, <1>5
  <2>2. Rebased(plan, in, now) = plan
    BY <1>2, <1>5 DEF Rebased
  <2>3. ta = tb
    BY <2>1 DEF Assigned
  <2>4. plan.levels = tb.levels /\ plan.side = tb.side
    BY <1>2, <2>3
  <2> HIDE DEF tb
  <2> QED  BY <1>3, <2>2, <2>4 DEF Tabled
<1>6. CASE w.shard # w.plan
  <2> DEFINE levels == Compact(ta.levels, w.runs)
             side == UNION {ShardRows(w.runs, k) : k \in ta.side}
             out == Rebased(plan, in, now)
  <2>1. out.levels = levels /\ out.side = side
    <3>1. out = [plan EXCEPT !.levels = Compact(@, w.runs),
                             !.side = UNION {ShardRows(w.runs, k) : k \in @}]
      BY <1>2, <1>6 DEF Rebased
    <3> HIDE DEF w, ta, out
    <3> QED  BY <1>2, <3>1
  <2>2. /\ ta.levels \in Seq(T) /\ Len(ta.levels) = Len(a)
        /\ tb.levels \in Seq(T) /\ Len(tb.levels) = Len(b)
        /\ \A k \in 1..Len(a) : ta.levels[k] = Row(in, a[k]).level[o]
        /\ \A k \in 1..Len(b) : tb.levels[k] = Row(in, b[k]).level[o]
        /\ ta.side \in SUBSET (1..Len(a)) /\ tb.side \in SUBSET (1..Len(b))
        /\ \A k \in 1..Len(a) : k \in ta.side <=> Row(in, a[k]).carries
        /\ \A k \in 1..Len(b) : k \in tb.side <=> Row(in, b[k]).carries
    BY <1>3 DEF Tabled
  <2> HIDE DEF a, b, w, ta, tb, T, levels, side, out
  <2>3. /\ \A i \in 1..Len(a) : \A k \in 1..Len(b) : a[i] = b[k] => ta.levels[i] = tb.levels[k]
        /\ \A i \in 1..Len(a) : \A k \in 1..Len(b) : a[i] = b[k] => (i \in ta.side <=> k \in tb.side)
    BY <2>2
  <2>4. Matched(w, ta.levels, tb.levels)
    <3> DEFINE la == ta.levels
               lb == tb.levels
    <3>1. /\ la \in Seq(T) /\ Len(la) = Len(a) /\ lb \in Seq(T) /\ Len(lb) = Len(b)
          /\ \A i \in 1..Len(a) : \A k \in 1..Len(b) : a[i] = b[k] => la[i] = lb[k]
      BY <2>2, <2>3
    <3> HIDE DEF la, lb
    <3>2. Matched(w, la, lb)
      BY ONLY <1>1, <3>1, MatchedTables
    <3> QED  BY <3>2 DEF la, lb
  <2>5. levels = tb.levels
    BY <2>2, <2>4, Compacts DEF levels
  <2>6. side = tb.side
    <3> DEFINE A == ta.side
               B == tb.side
    <3>1. Alongside(a, b, A, B)
      BY <2>2, <2>3 DEF Alongside
    <3> HIDE DEF A, B
    <3>2. Moved(w.runs, A, B)
      BY ONLY <1>1, <3>1, SidesMove
    <3>3. UNION {ShardRows(w.runs, k) : k \in A} = B
      BY ONLY <3>2 DEF Moved
    <3> QED  BY <3>3 DEF A, B, side
  <2> QED  BY <1>3, <2>1, <2>5, <2>6 DEF Tabled, out
<1> QED  BY <1>5, <1>6

-----------------------------------------------------------------------------
(* What a job reads for its range *)

\* A row drawn in a tile of the range lies, along one axis, within the margin
\* of the range's rectangle, and so does the box around it.
LEMMA WithinMargin ==
  ASSUME NEW e \in Nat, NEW d \in Nat, NEW cell \in Nat, NEW b0 \in Nat, NEW b1 \in Nat,
         b0 <= cell, cell <= b1, NEW X \in Nat, NEW c, c = cell \div 2^e,
         c - Buffer <= X, X <= c + Buffer,
         NEW h0 \in Nat, NEW h1 \in Nat, h0 <= X \div 2^d, X \div 2^d <= h1
  PROVE  /\ b0 \div 2^(d + e) <= h1 + ReadMargin
         /\ h0 - ReadMargin <= b1 \div 2^(d + e)
<1>1. Buffer \in Nat /\ Buffer <= 2 /\ ReadMargin = 2
  BY FleetAssumption DEF ReadMargin
<1>2. PICK s \in Nat \ {0} : s = 2^d
  BY Subsets
<1>3. PICK t \in Nat \ {0} : t = 2^e
  BY Subsets
<1>4. PICK st \in Nat \ {0} : st = t * s /\ st = 2^(d + e)
  <2>1. 2^(d + e) = s * t
    BY <1>2, <1>3, PowerSum
  <2>2. s * t = t * s
    OBVIOUS
  <2>3. PICK n \in Nat : n = d + e
    OBVIOUS
  <2>4. 2^n \in Nat \ {0}
    BY Subsets
  <2> QED  BY <2>1, <2>2, <2>3, <2>4
<1>5. PICK q \in Nat : q = cell \div t
  BY Quotient, <1>3
<1>6. q = c
  BY <1>3, <1>5
<1>7. PICK u \in Nat : u = X \div s
  BY Quotient
<1>8. PICK v \in Nat : v = q \div s /\ v = cell \div st
  <2>1. q \div s \in Nat
    BY Quotient
  <2>2. (cell \div t) \div s = cell \div (t * s)
    BY QuotientTwice
  <2> QED  BY <1>4, <1>5, <2>1, <2>2
<1>9. PICK v0 \in Nat : v0 = b0 \div st
  BY Quotient
<1>10. PICK v1 \in Nat : v1 = b1 \div st
  BY Quotient
<1>11. v0 <= v /\ v <= v1
  <2>1. b0 <= cell + 0 /\ cell <= b1 + 0
    OBVIOUS
  <2>2. b0 \div st <= cell \div st + 0 /\ cell \div st <= b1 \div st + 0
    BY <2>1, QuotientNear
  <2> QED  BY <1>8, <1>9, <1>10, <2>2
<1>12. v <= u + Buffer
  <2>1. q <= X + Buffer
    BY <1>1, <1>6
  <2>2. q \div s <= X \div s + Buffer
    BY <1>1, <2>1, QuotientNear
  <2> QED  BY <1>7, <1>8, <2>2
<1>13. u <= v + Buffer
  <2>1. X <= q + Buffer
    BY <1>1, <1>6
  <2>2. X \div s <= q \div s + Buffer
    BY <1>1, <2>1, QuotientNear
  <2> QED  BY <1>7, <1>8, <2>2
<1>14. h0 <= u /\ u <= h1
  BY <1>2, <1>7
<1>15. v0 <= h1 + 2 /\ h0 - 2 <= v1
  BY <1>1, <1>11, <1>12, <1>13, <1>14
<1> QED  BY <1>1, <1>4, <1>9, <1>10, <1>15

\* The pivot tile above a tile a range owns is one of the range's.
LEMMA UnderRange ==
  ASSUME NEW p \in Nat, NEW r, r.lo \in Int, r.hi \in Int,
         NEW z \in 0..FinestZoom, NEW id \in IdsOf(z), id \in IdsAt(p, r, z)
  PROVE  /\ p <= z
         /\ r.lo <= FirstId(p) + (id - FirstId(z)) \div TileCount(z - p)
         /\ FirstId(p) + (id - FirstId(z)) \div TileCount(z - p) <= r.hi
<1>1. p <= z /\ z \in Nat
  BY CurveEquation DEF IdsAt
<1>2. PICK s \in Nat \ {0} : s = TileCount(z - p)
  BY <1>1, TilesUnder
<1>3. PICK f \in Nat : f = FirstId(z)
  BY <1>1, ZoomIds
<1>4. PICK g \in Nat : g = FirstId(p)
  BY ZoomIds
<1>5. id \in Nat /\ id - f \in Nat
  BY <1>3, Placing
<1>6. PICK lo \in Int : lo = r.lo
  OBVIOUS
<1>7. PICK hi \in Int : hi = r.hi
  OBVIOUS
<1>8. ~(z < p \/ z > FinestZoom)
  BY <1>1, CurveEquation
<1>9. id \in f + (lo - g) * s .. f + (hi - g + 1) * s - 1
  BY <1>2, <1>3, <1>4, <1>6, <1>7, <1>8 DEF IdsAt
<1>10. PICK a \in Int : a = lo - g
  OBVIOUS
<1>11. PICK b \in Int : b = hi - g
  OBVIOUS
<1>12. PICK d \in Nat : d = id - f
  BY <1>5
<1>13. a * s <= d /\ d <= (b + 1) * s - 1
  <2>1. PICK x \in Int : x = a * s
    OBVIOUS
  <2>2. PICK y \in Int : y = (b + 1) * s
    OBVIOUS
  <2>3. id \in f + x .. f + y - 1
    BY <1>9, <1>10, <1>11, <2>1, <2>2
  <2>4. x <= d /\ d <= y - 1
    BY <1>5, <1>12, <2>3
  <2> QED  BY <2>1, <2>2, <2>4
<1>14. a <= d \div s /\ d \div s <= b
  BY <1>13, QuotientBetween
<1>15. PICK q \in Nat : q = d \div s
  BY Quotient
<1>16. lo <= g + q /\ g + q <= hi
  BY <1>10, <1>11, <1>14, <1>15
<1> QED  BY <1>1, <1>2, <1>3, <1>4, <1>6, <1>7, <1>12, <1>15, <1>16

\* So are the tile and the range's rectangle placed.
LEMMA UnderRangeBox ==
  ASSUME NEW p \in Nat, p <= FinestZoom, NEW r, r.lo \in Int, r.hi \in Int,
         FirstId(p) <= r.lo, r.hi <= LastId(p),
         NEW z \in 0..FinestZoom, NEW id \in IdsOf(z), id \in IdsAt(p, r, z),
         NEW t, t = Place(z, id), NEW s, s = 2^(z - p)
  PROVE  /\ p <= z /\ t.x \in Nat /\ t.y \in Nat
         /\ RangeBox(p, r) \in [x0 : Nat, x1 : Nat, y0 : Nat, y1 : Nat]
         /\ RangeBox(p, r).x0 <= t.x \div s /\ t.x \div s <= RangeBox(p, r).x1
         /\ RangeBox(p, r).y0 <= t.y \div s /\ t.y \div s <= RangeBox(p, r).y1
<1> DEFINE up == FirstId(p) + (id - FirstId(z)) \div TileCount(z - p)
           T == {Place(p, k) : k \in r.lo..r.hi}
           b == 2^p - 1
<1>1. p <= z /\ r.lo <= up /\ up <= r.hi
  BY UnderRange
<1>2. /\ up \in IdsOf(p) /\ t.x \div s = Place(p, up).x /\ t.y \div s = Place(p, up).y
  BY <1>1, PlaceAbove
<1>3. t.x \in Nat /\ t.y \in Nat
  BY Placing
<1>4. p \in 0..FinestZoom
  BY CurveEquation
<1>5. \A k \in r.lo..r.hi : k \in IdsOf(p)
  BY ZoomIds DEF IdsOf
<1>6. ASSUME NEW k \in r.lo..r.hi
      PROVE  Place(p, k) \in Square(p) /\ Place(p, k) \in [x : Nat, y : Nat]
  BY <1>4, <1>5, Placing
<1>7. b \in Nat /\ \A u \in Square(p) : u.x <= b /\ u.y <= b
  <2>1. 2^p \in Nat \ {0}
    BY Subsets
  <2> QED  BY <2>1 DEF Square
<1>8. up \in r.lo..r.hi
  <2>1. up \in Int
    BY <1>2, ZoomIds DEF IdsOf
  <2> HIDE DEF up
  <2> QED  BY <1>1, <2>1
<1> HIDE DEF up, b
<1>9. /\ T # {} /\ T \subseteq [x : Nat, y : Nat] /\ Place(p, up) \in T
      /\ \A u \in T : u.x <= b /\ u.y <= b
  BY <1>6, <1>7, <1>8
<1>10. RangeBox(p, r) = Hull(T)
  BY DEF RangeBox
<1> HIDE DEF T
<1>11. /\ \A u \in T : Inside(u, Hull(T))
       /\ Hull(T) \in [x0 : Nat, x1 : Nat, y0 : Nat, y1 : Nat]
  BY <1>7, <1>9, HullAround
<1>12. Inside(Place(p, up), RangeBox(p, r))
  BY <1>9, <1>10, <1>11
<1> QED  BY <1>1, <1>2, <1>3, <1>10, <1>11, <1>12 DEF Inside

\* The tiles a row is drawn in, within the buffer of its own on each axis.
LEMMA DrawnNear ==
  ASSUME NEW z \in 0..FinestZoom, NEW cell \in Cells, NEW id \in DrawnIn[z][cell],
         NEW t, t = Place(z, id), NEW c, c = CellAt(cell, z)
  PROVE  /\ id \in IdsOf(z) /\ t.x \in Nat /\ t.y \in Nat
         /\ c.x - Buffer <= t.x /\ t.x <= c.x + Buffer
         /\ c.y - Buffer <= t.y /\ t.y <= c.y + Buffer
<1>1. id \in IdsIn(z, Widened([x0 |-> c.x, x1 |-> c.x, y0 |-> c.y, y1 |-> c.y], Buffer))
  BY DEF DrawnIn
<1>2. id \in IdsOf(z)
  BY <1>1 DEF IdsIn
<1>3. Inside(t, Widened([x0 |-> c.x, x1 |-> c.x, y0 |-> c.y, y1 |-> c.y], Buffer))
  BY <1>1 DEF IdsIn
<1>4. t.x \in Nat /\ t.y \in Nat
  BY <1>2, Placing
<1> QED  BY <1>2, <1>3, <1>4 DEF Inside, Widened

\* A row group with a row drawn in a tile of the range is read.
LEMMA ReachesRow ==
  ASSUME NEW in, Sound(in), NEW p \in DOMAIN in, NEW g \in GroupsOf(in, p),
         NEW i \in 1..GroupRows(in, <<p, g>>),
         NEW cut, cut.pivot \in Nat, cut.pivot <= FinestZoom,
         NEW j, NEW r, r = cut.ranges[j], r.lo \in Int, r.hi \in Int,
         FirstId(cut.pivot) <= r.lo, r.hi <= LastId(cut.pivot),
         NEW z \in 0..FinestZoom, NEW id \in DrawnIn[z][Row(in, <<p, g, i>>).cell],
         id \in IdsAt(cut.pivot, r, z)
  PROVE  g \in Reaching(in, cut, j)[p]
<1> DEFINE cell == Row(in, <<p, g, i>>).cell
           box == in[p].groups[g].box
           v == cut.pivot
           t == Place(z, id)
           c == CellAt(cell, z)
           h == RangeBox(v, r)
           wide == ReadBox(v, r)
           c0 == CellAt([x |-> box.x0, y |-> box.y0], v)
           c1 == CellAt([x |-> box.x1, y |-> box.y1], v)
<1>1. CASE box = None
  BY <1>1 DEF Reaching
<1>2. CASE box # None
  <2>1. cell \in Cells /\ in[p].groups[g] \in RowGroups
    BY InputTypes
  <2>2. box \in [x0 : Span, x1 : Span, y0 : Span, y1 : Span]
    <3> DEFINE Seqs == Seq([cell : Cells, carries : BOOLEAN,
                            level : [Opts -> {Unassigned} \cup 0..FinestZoom]])
               Boxes == [x0 : Span, x1 : Span, y0 : Span, y1 : Span]
    <3>1. in[p].groups[g] \in [rows : Seqs, box : {None} \cup Boxes]
      BY <2>1 DEF RowGroups
    <3> HIDE DEF Seqs, Boxes
    <3>2. box \in {None} \cup Boxes
      BY <3>1
    <3> QED  BY <1>2, <3>2 DEF Boxes
  <2>3. Inside(cell, box)
    <3>1. Inside(in[p].groups[g].rows[i].cell, box)
      BY <1>2 DEF Sound
    <3> QED  BY <3>1 DEF Row
  <2>4. Span \subseteq Nat
    <3>1. 2^FinestZoom \in Nat \ {0}
      BY CurveEquation, Subsets
    <3> QED  BY <3>1 DEF Span
  <2>5. /\ cell.x \in Nat /\ cell.y \in Nat
        /\ box.x0 \in Nat /\ box.x1 \in Nat /\ box.y0 \in Nat /\ box.y1 \in Nat
        /\ box.x0 <= cell.x /\ cell.x <= box.x1 /\ box.y0 <= cell.y /\ cell.y <= box.y1
    BY <2>1, <2>2, <2>3, <2>4 DEF Cells, Inside
  <2>6. /\ id \in IdsOf(z) /\ t.x \in Nat /\ t.y \in Nat
        /\ c.x - Buffer <= t.x /\ t.x <= c.x + Buffer
        /\ c.y - Buffer <= t.y /\ t.y <= c.y + Buffer
    BY <2>1, DrawnNear
  <2>7. /\ v <= z
        /\ h \in [x0 : Nat, x1 : Nat, y0 : Nat, y1 : Nat]
        /\ h.x0 <= t.x \div 2^(z - v) /\ t.x \div 2^(z - v) <= h.x1
        /\ h.y0 <= t.y \div 2^(z - v) /\ t.y \div 2^(z - v) <= h.y1
    BY <2>6, UnderRangeBox
  <2>8. PICK d \in Nat : d = z - v
    BY <2>7, CurveEquation
  <2>9. PICK e \in Nat : e = FinestZoom - z
    BY CurveEquation
  <2>10. FinestZoom - v = d + e
    BY <2>8, <2>9, CurveEquation
  <2>11. /\ c.x = cell.x \div 2^e /\ c.y = cell.y \div 2^e
         /\ c0.x = box.x0 \div 2^(d + e) /\ c0.y = box.y0 \div 2^(d + e)
         /\ c1.x = box.x1 \div 2^(d + e) /\ c1.y = box.y1 \div 2^(d + e)
    BY <2>9, <2>10 DEF CellAt
  <2>12. /\ wide.x0 = h.x0 - ReadMargin /\ wide.x1 = h.x1 + ReadMargin
         /\ wide.y0 = h.y0 - ReadMargin /\ wide.y1 = h.y1 + ReadMargin
    BY DEF ReadBox, Widened
  <2>13. g \in Reaching(in, cut, j)[p] <=>
           \/ box = None
           \/ c0.x <= wide.x1 /\ wide.x0 <= c1.x /\ c0.y <= wide.y1 /\ wide.y0 <= c1.y
    BY DEF Reaching
  <2> HIDE DEF cell, box, v, t, c, h, wide, c0, c1
  <2>14. c0.x <= wide.x1 /\ wide.x0 <= c1.x
    <3>1. h.x0 \in Nat /\ h.x1 \in Nat
      BY <2>7
    <3>2. /\ box.x0 \div 2^(d + e) <= h.x1 + ReadMargin
          /\ h.x0 - ReadMargin <= box.x1 \div 2^(d + e)
      BY ONLY <2>5, <2>6, <2>7, <2>8, <2>11, <3>1, WithinMargin, d \in Nat, e \in Nat
    <3> QED  BY <2>11, <2>12, <3>2
  <2>15. c0.y <= wide.y1 /\ wide.y0 <= c1.y
    <3>1. h.y0 \in Nat /\ h.y1 \in Nat
      BY <2>7
    <3>2. /\ box.y0 \div 2^(d + e) <= h.y1 + ReadMargin
          /\ h.y0 - ReadMargin <= box.y1 \div 2^(d + e)
      BY ONLY <2>5, <2>6, <2>7, <2>8, <2>11, <3>1, WithinMargin, d \in Nat, e \in Nat
    <3> QED  BY <2>11, <2>12, <3>2
  <2> QED  BY <2>13, <2>14, <2>15
<1> QED  BY <1>1, <1>2

\* What a job reads: of the run's selection, what its range reaches.
LEMMA ReadsAre ==
  ASSUME NEW in \in Range(Inputs), NEW o \in Opts, NEW cut, NEW j,
         NEW p \in DOMAIN in, NEW g \in GroupsOf(in, p)
  PROVE  IsRead(in, Reads(j, in, cut, o), <<p, g>>)
           <=> /\ IsRead(in, Selections[in][o], <<p, g>>)
               /\ j = 0 \/ g \in Reaching(in, cut, j)[p]
<1> DEFINE sel == Selections[in][o]
           now == Reads(j, in, cut, o)
           near == Reaching(in, cut, j)
           Some == [DOMAIN in -> SUBSET Nat]
<1>1. None \notin Some /\ sel \in {None} \cup Some
  BY SelectionsAssumption
<1>2. Sound(in)
  BY InputsAssumption
<1>3. \A q \in DOMAIN in : GroupsOf(in, q) \subseteq Nat
  BY <1>2, InputTypes
<1>4. near \in Some /\ near[p] \subseteq GroupsOf(in, p)
  <2>1. \A q \in DOMAIN in : near[q] \subseteq GroupsOf(in, q)
    BY DEF Reaching
  <2>2. near = [q \in DOMAIN in |-> near[q]]
    BY DEF Reaching
  <2> HIDE DEF near
  <2> QED  BY <1>3, <2>1, <2>2
<1>5. now = Intersected(in, sel, IF j = 0 THEN None ELSE near)
  BY DEF Reads
<1>6. \A s : IsRead(in, s, <<p, g>>) <=> (s = None \/ g \in s[p])
  BY DEF IsRead, Selected
<1> HIDE DEF sel, now, near, Some
<1>7. CASE j = 0
  <2>1. now = sel
    BY <1>5, <1>7 DEF Intersected
  <2> QED  BY <1>7, <2>1 DEF sel, now
<1>8. CASE j # 0 /\ sel = None
  <2>1. now = near
    BY <1>5, <1>8 DEF Intersected
  <2>2. near # None
    BY <1>1, <1>4
  <2> QED  BY <1>6, <1>8, <2>1, <2>2 DEF sel, now, near
<1>9. CASE j # 0 /\ sel # None
  <2>1. near # None /\ sel \in Some
    BY <1>1, <1>4, <1>9
  <2>2. now = [q \in DOMAIN in |-> sel[q] \cap near[q]]
    BY <1>5, <1>9, <2>1 DEF Intersected
  <2>3. now \in Some
    BY <1>4, <2>1, <2>2 DEF Some
  <2>4. now # None
    BY <1>1, <2>3
  <2>5. now[p] = sel[p] \cap near[p]
    BY <2>2
  <2> QED  BY <1>6, <1>9, <2>4, <2>5 DEF sel, now, near
<1> QED  BY <1>7, <1>8, <1>9

-----------------------------------------------------------------------------
(* What a job draws *)

\* The feature is the row's in one of the tiles it is drawn in.
Paints(in, o, row, f) ==
  \E z \in 0..FinestZoom : \E id \in DrawnIn[z][Row(in, row).cell] :
    /\ f = [z |-> z, id |-> id, row |-> row, carries |-> Row(in, row).carries]
    /\ Row(in, row).level[o] # Unassigned /\ Row(in, row).level[o] <= z

\* A run draws, in the tiles it keeps, the rows it reads.
LEMMA FeaturesAre ==
  ASSUME NEW in, Sound(in), NEW sel, NEW o, NEW table, Tabled(in, sel, o, table),
         \A i \in 1..Len(Stream(in, sel)) :
           Row(in, Stream(in, sel)[i]).carries \in BOOLEAN,
         NEW kept, NEW f
  PROVE  f \in Features(in, sel, table, kept)
           <=> \E i \in 1..Len(Stream(in, sel)) :
                 Paints(in, o, Stream(in, sel)[i], f) /\ f.id \in kept[f.z]
<1> DEFINE rows == Stream(in, sel)
           m == Len(rows)
           Drawn(k, z) == DrawnIn[z][Row(in, rows[k]).cell]
           Feature(k, z, id) ==
             [z |-> z, id |-> id, row |-> rows[k], carries |-> k \in table.side]
           Shown(k, z) == table.levels[k] # Unassigned /\ table.levels[k] <= z
           Piece(k, z) == {Feature(k, z, id) : id \in {t \in Drawn(k, z) \cap kept[z] : Shown(k, z)}}
<1>1. DOMAIN rows = 1..m
  <2>1. rows \in Seq(RowAddresses)
    BY StreamTyped
  <2> HIDE DEF rows
  <2> QED  BY <2>1, Members
<1>2. Features(in, sel, table, kept)
        = UNION {Piece(k, z) : k \in DOMAIN rows, z \in 0..FinestZoom}
  BY DEF Features
<1>3. f \in Features(in, sel, table, kept)
        <=> \E k \in 1..m : \E z \in 0..FinestZoom : f \in Piece(k, z)
  <2> HIDE DEF Piece, m, rows
  <2> QED  BY <1>1, <1>2
<1>4. ASSUME NEW k \in 1..m, NEW z \in 0..FinestZoom
      PROVE  f \in Piece(k, z)
               <=> \E id \in Drawn(k, z) :
                     id \in kept[z] /\ Shown(k, z) /\ f = Feature(k, z, id)
  <2> HIDE DEF Drawn, Shown, Feature
  <2> QED  BY DEF Piece
<1>5. /\ \A k \in 1..m : table.levels[k] = Row(in, rows[k]).level[o]
      /\ \A k \in 1..m : k \in table.side <=> Row(in, rows[k]).carries
  BY DEF Tabled
<1>6. ASSUME NEW k \in 1..m  PROVE (k \in table.side) = Row(in, rows[k]).carries
  <2>1. Row(in, rows[k]).carries \in BOOLEAN
    BY <1>6
  <2>2. k \in table.side <=> Row(in, rows[k]).carries
    BY <1>5
  <2> HIDE DEF rows, m
  <2> QED  BY <2>1, <2>2
<1>7. ASSUME NEW k \in 1..m, NEW z, NEW id
      PROVE  Feature(k, z, id) = [z |-> z, id |-> id, row |-> rows[k],
                                  carries |-> Row(in, rows[k]).carries]
  <2>1. (k \in table.side) = Row(in, rows[k]).carries
    BY <1>6
  <2> HIDE DEF rows, m
  <2> QED  BY <2>1, Zenon
<1>8. \A k \in 1..m : \A z :
        Shown(k, z) <=> Row(in, rows[k]).level[o] # Unassigned /\ Row(in, rows[k]).level[o] <= z
  BY <1>5
<1>9. ASSUME NEW k \in 1..m
      PROVE  Paints(in, o, rows[k], f) /\ f.id \in kept[f.z]
               <=> \E z \in 0..FinestZoom : f \in Piece(k, z)
  <2> DEFINE Seen(z, id) == [z |-> z, id |-> id, row |-> rows[k],
                               carries |-> Row(in, rows[k]).carries]
  <2>1. \A z, id : f = Seen(z, id) => f.z = z /\ f.id = id
    OBVIOUS
  <2>2. Paints(in, o, rows[k], f)
          <=> \E z \in 0..FinestZoom : \E id \in Drawn(k, z) :
                f = Seen(z, id) /\ Shown(k, z)
    BY <1>8 DEF Paints
  <2>3. \A z \in 0..FinestZoom : f \in Piece(k, z)
          <=> \E id \in Drawn(k, z) : id \in kept[z] /\ Shown(k, z) /\ f = Seen(z, id)
    <3>1. \A z, id : Feature(k, z, id) = Seen(z, id)
      BY <1>7
    <3>2. \A z \in 0..FinestZoom : f \in Piece(k, z)
            <=> \E id \in Drawn(k, z) : id \in kept[z] /\ Shown(k, z) /\ f = Feature(k, z, id)
      BY <1>4
    <3> HIDE DEF Piece, Drawn, Shown, Feature, Seen
    <3> QED  BY <3>1, <3>2
  <2> HIDE DEF Seen, Piece, Shown, Drawn, m, rows
  <2> QED  BY <2>1, <2>2, <2>3
<1> HIDE DEF Piece
<1> QED  BY <1>3, <1>9

\* A job draws, of what the one run over the whole input draws, what is in
\* the tiles it keeps, if it reads every row that is drawn in one of them.
LEMMA Slices ==
  ASSUME NEW in, Sound(in), NEW sel, NEW now, NEW o,
         NEW whole, Tabled(in, sel, o, whole), NEW table, Tabled(in, now, o, table),
         \A k \in 1..Len(Groups(in)) :
           IsRead(in, now, Groups(in)[k]) => IsRead(in, sel, Groups(in)[k]),
         NEW all, \A z \in 0..FinestZoom : Nat \subseteq all[z],
         NEW kept,
         \A k \in 1..Len(Groups(in)) : \A row :
           InChunk(in, sel, k, row) =>
             \A z \in 0..FinestZoom : \A id \in DrawnIn[z][Row(in, row).cell] :
               id \in kept[z] => IsRead(in, now, Groups(in)[k])
  PROVE  Features(in, now, table, kept)
           = {f \in Features(in, sel, whole, all) : f.id \in kept[f.z]}
<1> DEFINE a == Stream(in, sel)
           b == Stream(in, now)
           gs == Groups(in)
<1>1. PICK F : Reading(F, in, sel)
  BY Streams
<1>2. PICK G : Reading(G, in, now)
  BY Streams
<1>3. \A row : (\E i \in 1..Len(a) : a[i] = row)
                 <=> \E k \in 1..Len(gs) : InChunk(in, sel, k, row)
  BY <1>1, ReadRows
<1>4. \A row : (\E i \in 1..Len(b) : b[i] = row)
                 <=> \E k \in 1..Len(gs) : InChunk(in, now, k, row)
  BY <1>2, ReadRows
<1>5. ASSUME NEW k \in 1..Len(gs), NEW row, NEW s, InChunk(in, s, k, row)
      PROVE  Row(in, row).carries \in BOOLEAN /\ Row(in, row).cell \in Cells
  <2>1. PICK p \in DOMAIN in : \E g \in GroupsOf(in, p) : gs[k] = <<p, g>>
    BY GroupsAre
  <2>2. PICK g \in GroupsOf(in, p) : gs[k] = <<p, g>>
    BY <2>1
  <2>3. PICK i \in 1..GroupRows(in, <<p, g>>) : row = <<p, g, i>>
    BY <1>5, <2>2 DEF InChunk
  <2> QED  BY <2>3, InputTypes
<1>6. \A k \in 1..Len(gs) : \A row :
        InChunk(in, now, k, row) <=> InChunk(in, sel, k, row) /\ IsRead(in, now, gs[k])
  BY DEF InChunk
<1>7. \A i \in 1..Len(a) : Row(in, a[i]).carries \in BOOLEAN
  <2> HIDE DEF a, gs
  <2> QED  BY <1>3, <1>5
<1>8. \A i \in 1..Len(b) : Row(in, b[i]).carries \in BOOLEAN
  <2> HIDE DEF b, gs
  <2> QED  BY <1>4, <1>5
<1> HIDE DEF gs
<1>9. ASSUME NEW f
      PROVE  f \in Features(in, sel, whole, all)
               <=> \E k \in 1..Len(gs) : \E row :
                     InChunk(in, sel, k, row) /\ Paints(in, o, row, f)
  <2>1. f \in Features(in, sel, whole, all)
          <=> \E i \in 1..Len(a) : Paints(in, o, a[i], f) /\ f.id \in all[f.z]
    BY <1>7, FeaturesAre
  <2>2. ASSUME NEW row, NEW k \in 1..Len(gs), InChunk(in, sel, k, row), Paints(in, o, row, f)
        PROVE  f.id \in all[f.z]
    <3>1. PICK z \in 0..FinestZoom : \E id \in DrawnIn[z][Row(in, row).cell] :
             f = [z |-> z, id |-> id, row |-> row, carries |-> Row(in, row).carries]
      BY <2>2 DEF Paints
    <3>2. PICK id \in DrawnIn[z][Row(in, row).cell] :
             f = [z |-> z, id |-> id, row |-> row, carries |-> Row(in, row).carries]
      BY <3>1
    <3>3. f.id = id /\ f.z = z
      BY <3>2
    <3>4. id \in Nat
      <4>1. Row(in, row).cell \in Cells
        BY <1>5, <2>2
      <4>2. id \in IdsOf(z)
        BY <4>1, DrawnNear
      <4> QED  BY <4>2, Placing
    <3> QED  BY <3>3, <3>4
  <2> HIDE DEF a
  <2> QED  BY <1>3, <2>1, <2>2
<1>10. ASSUME NEW f
       PROVE  f \in Features(in, now, table, kept)
                <=> \E k \in 1..Len(gs) : \E row :
                      InChunk(in, now, k, row) /\ Paints(in, o, row, f) /\ f.id \in kept[f.z]
  <2>1. f \in Features(in, now, table, kept)
          <=> \E i \in 1..Len(b) : Paints(in, o, b[i], f) /\ f.id \in kept[f.z]
    BY <1>8, FeaturesAre
  <2> HIDE DEF b
  <2> QED  BY <1>4, <2>1
<1>11. ASSUME NEW f, NEW k \in 1..Len(gs), NEW row, InChunk(in, sel, k, row),
              Paints(in, o, row, f), f.id \in kept[f.z]
       PROVE  IsRead(in, now, gs[k])
  <2>1. PICK z \in 0..FinestZoom : \E id \in DrawnIn[z][Row(in, row).cell] :
           f = [z |-> z, id |-> id, row |-> row, carries |-> Row(in, row).carries]
    BY <1>11 DEF Paints
  <2>2. PICK id \in DrawnIn[z][Row(in, row).cell] :
           f = [z |-> z, id |-> id, row |-> row, carries |-> Row(in, row).carries]
    BY <2>1
  <2>3. f.id = id /\ f.z = z
    BY <2>2
  <2> QED  BY <1>11, <2>3 DEF gs
<1>12. ASSUME NEW f
       PROVE  f \in Features(in, now, table, kept)
                <=> f \in Features(in, sel, whole, all) /\ f.id \in kept[f.z]
  BY <1>6, <1>9, <1>10, <1>11
<1> QED  BY <1>12

-----------------------------------------------------------------------------
(* The jobs of a fleet *)

\* A cut that job j may have loaded.
FineCut(j, cut) ==
  /\ cut.pivot \in Nat /\ cut.pivot <= FinestZoom
  /\ cut.ranges \in Seq([lo : Int, hi : Int])
  /\ Structured(cut) /\ CutDigest(cut) # None
  /\ j > 0 => HasRange(cut, j, N)

\* The part of the one run that is job j's.
SliceOf(in, o, j, cut) == {f \in Whole(in, o) : f.id \in ShareOf(j, cut)[f.z]}

\* A feature is in a tile of its zoom.
LEMMA WholeIds ==
  ASSUME NEW in \in Range(Inputs), NEW o, NEW f \in Whole(in, o)
  PROVE  f.z \in 0..FinestZoom /\ f.id \in IdsOf(f.z) /\ f.id \in Nat
<1> DEFINE sel == Selections[in][o]
           rows == Stream(in, sel)
           all == [z \in 0..FinestZoom |-> Nat]
           table == Assigned(in, sel, o)
<1>1. Sound(in)
  BY InputsAssumption
<1>2. Tabled(in, sel, o, table)
  BY <1>1, AssignedTables
<1>3. PICK F : Reading(F, in, sel)
  BY <1>1, Streams
<1>4. \A i \in 1..Len(rows) :
        Row(in, rows[i]).carries \in BOOLEAN /\ Row(in, rows[i]).cell \in Cells
  <2>1. SUFFICES ASSUME NEW i \in 1..Len(rows)
        PROVE  Row(in, rows[i]).carries \in BOOLEAN /\ Row(in, rows[i]).cell \in Cells
    OBVIOUS
  <2>2. PICK k \in 1..Len(Groups(in)) : InChunk(in, sel, k, rows[i])
    <3>1. \A row : (\E h \in 1..Len(rows) : rows[h] = row)
                     => \E k \in 1..Len(Groups(in)) : InChunk(in, sel, k, row)
      BY <1>1, <1>3, ReadRows
    <3> HIDE DEF rows, sel
    <3> QED  BY <3>1
  <2>3. PICK p \in DOMAIN in : \E g \in GroupsOf(in, p) : Groups(in)[k] = <<p, g>>
    BY <1>1, GroupsAre
  <2>4. PICK g \in GroupsOf(in, p) : Groups(in)[k] = <<p, g>>
    BY <2>3
  <2>5. PICK t \in 1..GroupRows(in, <<p, g>>) : rows[i] = <<p, g, t>>
    BY <2>2, <2>4 DEF InChunk
  <2> QED  BY <1>1, <2>5, InputTypes
<1>5. f \in Features(in, sel, table, all)
  BY DEF Whole
<1>6. \E i \in 1..Len(rows) : Paints(in, o, rows[i], f)
  <2>1. \A i \in 1..Len(rows) : Row(in, rows[i]).carries \in BOOLEAN
    BY <1>4
  <2> HIDE DEF table, all
  <2> QED  BY <1>1, <1>2, <1>5, <2>1, FeaturesAre
<1>7. PICK i \in 1..Len(rows) : Paints(in, o, rows[i], f)
  BY <1>6
<1> DEFINE r == Row(in, rows[i])
<1>8. PICK z \in 0..FinestZoom : \E id \in DrawnIn[z][r.cell] :
         f = [z |-> z, id |-> id, row |-> rows[i], carries |-> r.carries]
  BY <1>7 DEF Paints
<1>9. PICK id \in DrawnIn[z][r.cell] :
         f = [z |-> z, id |-> id, row |-> rows[i], carries |-> r.carries]
  BY <1>8
<1>10. f.z = z /\ f.id = id
  BY <1>9
<1>11. id \in IdsOf(z)
  BY <1>4, DrawnNear
<1> QED  BY <1>10, <1>11, Placing

\* What a job draws is its part of the one run.
LEMMA JobDraws ==
  ASSUME NEW j \in Jobs, NEW in \in Range(Inputs), NEW o \in Opts,
         NEW cut, FineCut(j, cut),
         NEW table, Tabled(in, Reads(j, in, cut, o), o, table)
  PROVE  Features(in, Reads(j, in, cut, o), table, ShareOf(j, cut))
           = SliceOf(in, o, j, cut)
<1> DEFINE sel == Selections[in][o]
           now == Reads(j, in, cut, o)
           whole == Assigned(in, sel, o)
           all == [z \in 0..FinestZoom |-> Nat]
           kept == ShareOf(j, cut)
           gs == Groups(in)
<1>1. Sound(in) /\ N \in Nat
  BY InputsAssumption, FleetAssumption
<1>2. Tabled(in, sel, o, whole)
  BY <1>1, AssignedTables
<1>3. ASSUME NEW k \in 1..Len(gs)
      PROVE  \E p \in DOMAIN in : \E g \in GroupsOf(in, p) :
               /\ gs[k] = <<p, g>>
               /\ IsRead(in, now, gs[k])
                    <=> IsRead(in, sel, gs[k]) /\ (j = 0 \/ g \in Reaching(in, cut, j)[p])
  <2>1. PICK p \in DOMAIN in : \E g \in GroupsOf(in, p) : gs[k] = <<p, g>>
    BY <1>1, GroupsAre
  <2>2. PICK g \in GroupsOf(in, p) : gs[k] = <<p, g>>
    BY <2>1
  <2>3. IsRead(in, now, <<p, g>>)
          <=> IsRead(in, sel, <<p, g>>) /\ (j = 0 \/ g \in Reaching(in, cut, j)[p])
    BY ReadsAre
  <2> HIDE DEF gs, now, sel
  <2> QED  BY <2>2, <2>3
<1>4. \A k \in 1..Len(gs) : IsRead(in, now, gs[k]) => IsRead(in, sel, gs[k])
  <2> HIDE DEF gs, now, sel
  <2> QED  BY <1>3
<1>5. \A z \in 0..FinestZoom : Nat \subseteq all[z]
  OBVIOUS
<1>6. ASSUME NEW k \in 1..Len(gs), NEW row, InChunk(in, sel, k, row),
             NEW z \in 0..FinestZoom, NEW id \in DrawnIn[z][Row(in, row).cell],
             id \in kept[z]
      PROVE  IsRead(in, now, gs[k])
  <2>1. PICK p \in DOMAIN in : \E g \in GroupsOf(in, p) :
               /\ gs[k] = <<p, g>>
               /\ IsRead(in, now, gs[k])
                    <=> IsRead(in, sel, gs[k]) /\ (j = 0 \/ g \in Reaching(in, cut, j)[p])
    BY <1>3
  <2>2. PICK g \in GroupsOf(in, p) :
               /\ gs[k] = <<p, g>>
               /\ IsRead(in, now, gs[k])
                    <=> IsRead(in, sel, gs[k]) /\ (j = 0 \/ g \in Reaching(in, cut, j)[p])
    BY <2>1
  <2>3. IsRead(in, sel, gs[k])
    BY <1>6 DEF InChunk
  <2>4. CASE j = 0
    <3> HIDE DEF gs, now, sel
    <3> QED  BY <2>2, <2>3, <2>4
  <2>5. CASE j # 0
    <3>1. PICK i \in 1..GroupRows(in, <<p, g>>) : row = <<p, g, i>>
      BY <1>6, <2>2 DEF InChunk
    <3>2. j > 0 /\ HasRange(cut, j, N)
      BY <1>1, <2>5 DEF FineCut, Jobs
    <3>3. j \in 1..Len(cut.ranges) /\ GoodRange(cut.pivot, cut.ranges[j].lo, cut.ranges[j].hi)
      BY <3>2 DEF HasRange
    <3>4. cut.ranges[j].lo \in Int /\ cut.ranges[j].hi \in Int
      <4>1. cut.ranges \in Seq([lo : Int, hi : Int])
        BY DEF FineCut
      <4>2. cut.ranges[j] \in [lo : Int, hi : Int]
        BY <3>3, <4>1, Members
      <4> QED  BY <4>2
    <3>5. cut.pivot \in Nat /\ cut.pivot <= FinestZoom
      BY DEF FineCut
    <3>6. FirstId(cut.pivot) <= cut.ranges[j].lo /\ cut.ranges[j].hi <= LastId(cut.pivot)
      BY <3>3, <3>5, ZoomIds DEF GoodRange, IdsOf
    <3>7. id \in IdsAt(cut.pivot, cut.ranges[j], z)
      BY <1>6, <3>2 DEF ShareOf
    <3>8. id \in DrawnIn[z][Row(in, <<p, g, i>>).cell]
      BY <3>1
    <3>9. g \in Reaching(in, cut, j)[p]
      BY <1>1, <3>4, <3>5, <3>6, <3>7, <3>8, ReachesRow
    <3> HIDE DEF gs, now, sel
    <3> QED  BY <2>2, <2>3, <3>9
  <2> QED  BY <2>4, <2>5
<1>7. Whole(in, o) = Features(in, sel, whole, all)
  BY DEF Whole
<1>8. \A k \in 1..Len(gs) : \A row :
        InChunk(in, sel, k, row) =>
          \A z \in 0..FinestZoom : \A id \in DrawnIn[z][Row(in, row).cell] :
            id \in kept[z] => IsRead(in, now, gs[k])
  <2> HIDE DEF gs, now, sel, kept
  <2> QED  BY <1>6
<1> HIDE DEF now, sel, whole, all, kept
<1>9. Features(in, now, table, kept) = {f \in Features(in, sel, whole, all) : f.id \in kept[f.z]}
  <2>1. Tabled(in, now, o, table)
    BY DEF now
  <2> QED  BY <1>1, <1>2, <1>4, <1>5, <1>8, <2>1, Slices
<1> QED  BY <1>7, <1>9 DEF SliceOf, now, kept

\* Every tile is some job's, and no other's.
LEMMA OneJob ==
  ASSUME NEW cut, FineCut(1, cut), NEW z \in 0..FinestZoom, NEW id \in IdsOf(z)
  PROVE  \E j \in Jobs : \A k \in Jobs : id \in ShareOf(k, cut)[z] <=> k = j
<1> DEFINE p == cut.pivot
<1>1. /\ p \in Nat /\ p <= FinestZoom /\ FinestZoom \in Nat /\ z \in Nat /\ id \in Nat
      /\ N = Len(cut.ranges) /\ N \in Nat
  BY CurveEquation, FleetAssumption, Placing DEF FineCut, HasRange
<1>2. /\ ShareOf(0, cut)[z] = IF z < p THEN Nat ELSE {}
      /\ \A k \in 1..N : ShareOf(k, cut)[z] = IdsAt(p, cut.ranges[k], z)
  BY <1>1 DEF ShareOf
<1>3. \A k \in Jobs : k = 0 \/ k \in 1..N
  BY <1>1 DEF Jobs
<1>4. CASE z < p
  <2>1. \A k \in 1..N : ShareOf(k, cut)[z] = {}
    BY <1>2, <1>4 DEF IdsAt
  <2>2. \A k \in Jobs : id \in ShareOf(k, cut)[z] <=> k = 0
    BY <1>1, <1>2, <1>3, <1>4, <2>1
  <2>3. 0 \in Jobs
    BY <1>1 DEF Jobs
  <2> QED  BY <2>2, <2>3
<1>5. CASE ~(z < p)
  <2>1. z \in p..FinestZoom
    BY <1>1, <1>5
  <2>2. PICK i \in 1..N : {k \in 1..N : id \in IdsAt(p, cut.ranges[k], z)} = {i}
    <3>1. Structured(cut) /\ cut.ranges \in Seq([lo : Int, hi : Int])
      BY DEF FineCut
    <3>2. \A y \in p..FinestZoom : \A d \in IdsOf(y) :
            LET up == FirstId(p) + (d - FirstId(y)) \div TileCount(y - p)
            IN \E i \in 1..N :
                 /\ {k \in 1..N : d \in IdsAt(p, cut.ranges[k], y)} = {i}
                 /\ cut.ranges[i].lo <= up /\ up <= cut.ranges[i].hi
      BY <1>1, <3>1, PlanOwns
    <3> QED  BY <2>1, <3>2
  <2>3. \A k \in 1..N : id \in IdsAt(p, cut.ranges[k], z) <=> k = i
    BY <2>2
  <2>4. i # 0 /\ i \in Jobs /\ ShareOf(0, cut)[z] = {}
    BY <1>1, <1>2, <1>5 DEF Jobs
  <2>5. \A k \in Jobs : id \in ShareOf(k, cut)[z] <=> k = i
    BY <1>2, <1>3, <2>3, <2>4
  <2> QED  BY <2>4, <2>5
<1> QED  BY <1>4, <1>5

\* What is saved of a run over the whole of an input.
SavedOf(in, o, d) == SavedPlan(in, Selections[in][o], o, d)

\* A job that has its plan: it is the one saved over the input it holds, and
\* the tables are those of the rows it reads.
Holding(j, r) ==
  /\ r = [pc |-> r.pc, cut |-> r.cut, input |-> r.input, plan |-> r.plan,
          table |-> r.table, opts |-> r.opts]
  /\ FineCut(j, r.cut) /\ r.input \in Range(Inputs) /\ r.opts \in Opts
  /\ r.plan = SavedOf(r.input, r.opts, CutDigest(r.cut))
  /\ Tabled(r.input, Reads(j, r.input, r.cut, r.opts), r.opts, r.table)

\* What a job may be.
Working(j, r) ==
  \/ r = Idle
  \/ r.pc = "cut" /\ FineCut(j, r.cut) /\ r.opts \in Opts
  \/ r.pc = "saving" /\ j = 0 /\ Holding(j, r)
  \/ r.pc = "drawing" /\ Holding(j, r)

\* An archive is the job's part of the one run that saved its plan.
Archived(j, a) ==
  a = None \/ \E in \in Range(Inputs) : \E o \in Opts : \E cut :
    /\ FineCut(j, cut) /\ a.plan = SavedOf(in, o, CutDigest(cut))
    /\ a.tiles = SliceOf(in, o, j, cut)

\* The files, if they are whole, are a shard plan and a convert plan.
CutFiled(c) ==
  c \in {None, Torn} \/
    /\ c.pivot \in Nat /\ c.ranges \in Seq([lo : Int, hi : Int])
    /\ CutDigest(c) # None
PlanFiled(plan) ==
  plan \in {None, Torn} \/
    \E in \in Range(Inputs) : \E o \in Opts : \E d : plan = SavedOf(in, o, d)

FleetInv ==
  /\ input \in Range(Inputs)
  /\ CutFiled(cutFile) /\ PlanFiled(planFile)
  /\ DOMAIN job = Jobs /\ DOMAIN archive = Jobs
  /\ \A j \in Jobs : Working(j, job[j]) /\ Archived(j, archive[j])

\* What `shard plan` writes is a shard plan.
LEMMA CutsFiled ==
  ASSUME NEW c \in Cuts, NEW in
  PROVE  CutFiled(CutFor(c, in))
<1>1. /\ c \in [pivot : Nat, ranges : Seq([lo : Int, hi : Int])] /\ CutDigest(c) # None
  BY CutsAssumption
<1> DEFINE f == CutFor(c, in)
<1>2. f.pivot = c.pivot /\ f.ranges = c.ranges
  BY DEF CutFor
<1>3. CutDigest(f) = CutDigest(c)
  BY <1>2 DEF CutDigest
<1>4. c.pivot \in Nat /\ c.ranges \in Seq([lo : Int, hi : Int])
  BY <1>1
<1> HIDE DEF f
<1>5. CutFiled(f)
  BY <1>1, <1>2, <1>3, <1>4 DEF CutFiled
<1> QED  BY <1>5 DEF f

\* What is left alone is as it was.
LEMMA Others ==
  ASSUME NEW j \in Jobs, DOMAIN job = Jobs, \A k \in Jobs : Working(k, job[k]),
         NEW r, Working(j, r), job' = [job EXCEPT ![j] = r]
  PROVE  DOMAIN job' = Jobs /\ \A k \in Jobs : Working(k, job'[k])
<1>1. DOMAIN job' = Jobs /\ job'[j] = r /\ \A k \in Jobs : k # j => job'[k] = job[k]
  OBVIOUS
<1> QED  BY ONLY <1>1, \A k \in Jobs : Working(k, job[k]), Working(j, r)

\* The invariant holds at first.
LEMMA InitFleet == Init => FleetInv
<1> SUFFICES ASSUME Init  PROVE FleetInv
  OBVIOUS
<1>1. input \in Range(Inputs)
  <2>1. Inputs \in Seq(Range(Inputs)) /\ Inputs # <<>>
    BY InputsAssumption
  <2>2. Inputs[1] \in Range(Inputs)
    <3> DEFINE S == Range(Inputs)
    <3>1. Inputs \in Seq(S) /\ Inputs # <<>>
      BY <2>1
    <3> HIDE DEF S
    <3>2. Inputs[1] \in S
      BY <3>1
    <3> QED  BY <3>2 DEF S
  <2> QED  BY <2>2 DEF Init
<1>2. CutFiled(cutFile)
  BY CutsFiled DEF Init
<1>3. PlanFiled(planFile)
  BY DEF Init, PlanFiled
<1>4. /\ DOMAIN job = Jobs /\ DOMAIN archive = Jobs
      /\ \A j \in Jobs : job[j] = Idle /\ archive[j] = None
  BY DEF Init
<1>5. \A j \in Jobs : Working(j, job[j]) /\ Archived(j, archive[j])
  BY <1>4 DEF Working, Archived
<1> QED  BY <1>1, <1>2, <1>3, <1>4, <1>5 DEF FleetInv

\* A job that has loaded the shard plan has a cut it may use.
LEMMA LoadCutKeeps ==
  ASSUME FleetInv, NEW j \in Jobs, LoadCut(j)
  PROVE  FleetInv'
<1>1. PICK o \in Opts : job' = [job EXCEPT ![j] = [pc |-> "cut", cut |-> cutFile, opts |-> o]]
  BY DEF LoadCut
<1>2. /\ Loadable(cutFile) /\ (j > 0 => HasRange(cutFile, j, N))
      /\ PivotReached(cutFile, FinestZoom)
      /\ UNCHANGED <<input, cutFile, planFile, archive>>
  BY DEF LoadCut
<1>3. FineCut(j, cutFile)
  BY <1>2 DEF FleetInv, CutFiled, Loadable, PivotReached, FineCut
<1> DEFINE r == [pc |-> "cut", cut |-> cutFile, opts |-> o]
<1>4. Working(j, r)
  <2>1. r.pc = "cut" /\ r.cut = cutFile /\ r.opts = o
    OBVIOUS
  <2> HIDE DEF r
  <2> QED  BY <1>3, <2>1 DEF Working
<1>5. DOMAIN job = Jobs /\ \A k \in Jobs : Working(k, job[k])
  BY DEF FleetInv
<1>6. job' = [job EXCEPT ![j] = r]
  BY <1>1
<1> HIDE DEF r
<1>7. DOMAIN job' = Jobs /\ \A k \in Jobs : Working(k, job'[k])
  BY <1>4, <1>5, <1>6, Others
<1> QED  BY <1>2, <1>7 DEF FleetInv

\* The coarse job, saving, holds what it read.
LEMMA CreatePlanKeeps ==
  ASSUME FleetInv, CreatePlan
  PROVE  FleetInv'
<1> DEFINE cut == job[0].cut
           o == job[0].opts
           sel == Reads(0, input, cut, o)
           r == [pc |-> "saving", cut |-> cut, input |-> input,
                 plan |-> SavedPlan(input, sel, o, CutDigest(cut)),
                 table |-> Assigned(input, sel, o), opts |-> o]
<1>1. /\ job[0].pc = "cut" /\ planFile' = Torn /\ job' = [job EXCEPT ![0] = r]
      /\ UNCHANGED <<input, cutFile, archive>>
  BY DEF CreatePlan
<1>2. 0 \in Jobs /\ Working(0, job[0]) /\ input \in Range(Inputs)
  BY FleetAssumption DEF FleetInv, Jobs
<1>3. FineCut(0, cut) /\ o \in Opts
  BY <1>1, <1>2 DEF Working, Idle
<1>4. sel = Selections[input][o]
  BY DEF Reads, Intersected
<1>5. Tabled(input, sel, o, Assigned(input, sel, o))
  BY <1>2, InputsAssumption, AssignedTables
<1>6. Working(0, r)
  <2>1. /\ r.pc = "saving" /\ r.cut = cut /\ r.input = input /\ r.opts = o
        /\ r.plan = SavedPlan(input, sel, o, CutDigest(cut))
        /\ r.table = Assigned(input, sel, o)
        /\ r = [pc |-> r.pc, cut |-> r.cut, input |-> r.input, plan |-> r.plan,
                table |-> r.table, opts |-> r.opts]
    OBVIOUS
  <2>2. r.plan = SavedOf(input, o, CutDigest(cut))
    BY <1>4, <2>1 DEF SavedOf
  <2>3. Tabled(input, Reads(0, input, cut, o), o, r.table)
    BY <1>5, <2>1
  <2> HIDE DEF r, sel, cut, o
  <2>4. Holding(0, r)
    BY <1>2, <1>3, <2>1, <2>2, <2>3 DEF Holding
  <2> QED  BY <2>1, <2>4 DEF Working
<1>7. DOMAIN job = Jobs /\ \A k \in Jobs : Working(k, job[k])
  BY DEF FleetInv
<1> HIDE DEF r
<1>8. DOMAIN job' = Jobs /\ \A k \in Jobs : Working(k, job'[k])
  BY <1>1, <1>2, <1>6, <1>7, Others
<1> QED  BY <1>1, <1>8 DEF FleetInv, PlanFiled

\* What the coarse job saves is of the one run.
LEMMA SavePlanKeeps ==
  ASSUME FleetInv, SavePlan
  PROVE  FleetInv'
<1> DEFINE r == [job[0] EXCEPT !.pc = "drawing"]
<1>1. /\ job[0].pc = "saving" /\ planFile' = job[0].plan
      /\ job' = [job EXCEPT ![0] = r]
      /\ UNCHANGED <<input, cutFile, archive>>
  BY DEF SavePlan
<1>2. 0 \in Jobs /\ Working(0, job[0])
  BY FleetAssumption DEF FleetInv, Jobs
<1>3. Holding(0, job[0])
  BY <1>1, <1>2 DEF Working, Idle
<1>4. /\ r.pc = "drawing" /\ r.cut = job[0].cut /\ r.input = job[0].input
      /\ r.plan = job[0].plan /\ r.table = job[0].table /\ r.opts = job[0].opts
      /\ r = [pc |-> r.pc, cut |-> r.cut, input |-> r.input, plan |-> r.plan,
              table |-> r.table, opts |-> r.opts]
  <2> DEFINE q == job[0]
  <2>1. q = [pc |-> q.pc, cut |-> q.cut, input |-> q.input, plan |-> q.plan,
             table |-> q.table, opts |-> q.opts]
    BY <1>3 DEF Holding
  <2> HIDE DEF q
  <2>2. [q EXCEPT !.pc = "drawing"]
          = [pc |-> "drawing", cut |-> q.cut, input |-> q.input, plan |-> q.plan,
             table |-> q.table, opts |-> q.opts]
    BY <2>1
  <2>3. r = [q EXCEPT !.pc = "drawing"]
    BY DEF q
  <2> HIDE DEF r
  <2>4. /\ r.pc = "drawing" /\ r.cut = q.cut /\ r.input = q.input
        /\ r.plan = q.plan /\ r.table = q.table /\ r.opts = q.opts
    BY <2>2, <2>3
  <2> QED  BY <2>2, <2>3, <2>4 DEF q
<1> HIDE DEF r
<1>5. Working(0, r)
  BY <1>3, <1>4 DEF Working, Holding
<1>6. PlanFiled(planFile')
  BY <1>1, <1>3 DEF Holding, PlanFiled
<1>7. DOMAIN job = Jobs /\ \A k \in Jobs : Working(k, job[k])
  BY DEF FleetInv
<1>8. DOMAIN job' = Jobs /\ \A k \in Jobs : Working(k, job'[k])
  BY <1>1, <1>2, <1>5, <1>7, Others
<1> QED  BY <1>1, <1>6, <1>8 DEF FleetInv

\* The input a plan was saved over can be told from what is in the plan.
LEMMA StampsTell ==
  ASSUME NEW in \in Range(Inputs), NEW o, NEW d, NEW plan, plan = SavedOf(in, o, d)
  PROVE  /\ SavedOver(plan) = in
         /\ plan.fingerprint.opts = o /\ plan.fingerprint.cut = d
         /\ plan.fingerprint.stamps = Stamps(in)
<1>1. /\ plan.fingerprint.opts = o /\ plan.fingerprint.cut = d
      /\ plan.fingerprint.stamps = Stamps(in)
  BY DEF SavedOf, SavedPlan, Fingerprint
<1>2. \A other \in Range(Inputs) : Stamps(in) = Stamps(other) => other = in
  BY StampsAssumption
<1>3. SavedOver(plan) = CHOOSE other \in Range(Inputs) : plan.fingerprint.stamps = Stamps(other)
  BY DEF SavedOver
<1>4. SavedOver(plan) \in Range(Inputs) /\ plan.fingerprint.stamps = Stamps(SavedOver(plan))
  BY <1>1, <1>3
<1> QED  BY <1>1, <1>2, <1>4

\* A plan that is accepted is that of the input the job reads.
LEMMA ReplayKeeps ==
  ASSUME FleetInv, NEW j \in Jobs, Replay(j)
  PROVE  FleetInv'
<1> DEFINE cut == job[j].cut
           o == job[j].opts
           sel == Reads(j, input, cut, o)
           table == IF j = 0 THEN planFile ELSE Rebased(planFile, input, sel)
           r == [pc |-> "drawing", cut |-> cut, input |-> input,
                 plan |-> planFile, opts |-> o, table |-> table]
<1>1. /\ job[j].pc = "cut" /\ job' = [job EXCEPT ![j] = r] /\ Accepts(j)
      /\ UNCHANGED <<input, cutFile, planFile, archive>>
  BY DEF Replay
<1>2. Working(j, job[j]) /\ input \in Range(Inputs) /\ PlanFiled(planFile)
  BY DEF FleetInv
<1>3. FineCut(j, cut) /\ o \in Opts
  BY <1>1, <1>2 DEF Working, Idle
<1>4. /\ planFile \notin {None, Torn}
      /\ Verified(planFile.fingerprint, Fingerprint(input, sel, o, CutDigest(cut)), Rule(j))
  BY <1>1 DEF Accepts
<1>5. PICK in \in Range(Inputs) : \E q \in Opts : \E d : planFile = SavedOf(in, q, d)
  BY <1>2, <1>4 DEF PlanFiled
<1>6. PICK q \in Opts : \E d : planFile = SavedOf(in, q, d)
  BY <1>5
<1>7. PICK d : planFile = SavedOf(in, q, d)
  BY <1>6
<1>8. q = o /\ d = CutDigest(cut) /\ in = input
  <2>1. /\ planFile.fingerprint.opts = q /\ planFile.fingerprint.cut = d
        /\ planFile.fingerprint.stamps = Stamps(in)
    BY <1>7, StampsTell
  <2>2. /\ planFile.fingerprint.opts = o /\ planFile.fingerprint.cut = CutDigest(cut)
        /\ planFile.fingerprint.stamps = Stamps(input)
    <3> DEFINE fp == Fingerprint(input, sel, o, CutDigest(cut))
    <3>1. fp.opts = o /\ fp.cut = CutDigest(cut) /\ fp.stamps = Stamps(input)
      BY DEF Fingerprint
    <3> HIDE DEF fp
    <3> QED  BY <1>4, <3>1 DEF Verified, fp
  <2> QED  BY <1>2, <2>1, <2>2, StampsAssumption
<1>9. planFile = SavedOf(input, o, CutDigest(cut))
  BY <1>7, <1>8
<1>10. Sound(input)
  BY <1>2, InputsAssumption
<1>11. Tabled(input, sel, o, table)
  <2> DEFINE whole == Selections[input][o]
  <2>1. planFile = SavedPlan(input, whole, o, CutDigest(cut))
    BY <1>9 DEF SavedOf
  <2>2. CASE j = 0
    <3>1. sel = whole
      BY <2>2 DEF Reads, Intersected
    <3>2. Tabled(input, whole, o, Assigned(input, whole, o))
      BY <1>10, AssignedTables
    <3>3. /\ planFile.levels = Assigned(input, whole, o).levels
          /\ planFile.side = Assigned(input, whole, o).side
      BY <2>1 DEF SavedPlan
    <3>4. table = planFile
      BY <2>2
    <3> HIDE DEF sel, whole, table, o, cut
    <3> QED  BY <3>1, <3>2, <3>3, <3>4 DEF Tabled
  <2>3. CASE j # 0
    <3>1. table = Rebased(planFile, input, sel)
      BY <2>3
    <3>2. ASSUME NEW k \in 1..Len(Groups(input)), IsRead(input, sel, Groups(input)[k])
          PROVE  IsRead(input, whole, Groups(input)[k])
      <4>1. PICK p \in DOMAIN input : \E g \in GroupsOf(input, p) : Groups(input)[k] = <<p, g>>
        BY <1>10, GroupsAre
      <4>2. PICK g \in GroupsOf(input, p) : Groups(input)[k] = <<p, g>>
        BY <4>1
      <4>3. IsRead(input, Reads(j, input, cut, o), <<p, g>>)
              => IsRead(input, Selections[input][o], <<p, g>>)
        BY <1>2, <1>3, ReadsAre
      <4> QED  BY <3>2, <4>2, <4>3
    <3> HIDE DEF sel, whole, table, o, cut
    <3>3. Tabled(input, sel, o, Rebased(planFile, input, sel))
      BY <1>10, <2>1, <3>2, Rebases
    <3> QED  BY <3>1, <3>3
  <2> QED  BY <2>2, <2>3
<1>12. Working(j, r)
  <2>1. /\ r.pc = "drawing" /\ r.cut = cut /\ r.input = input /\ r.opts = o
        /\ r.plan = planFile /\ r.table = table
        /\ r = [pc |-> r.pc, cut |-> r.cut, input |-> r.input, plan |-> r.plan,
                table |-> r.table, opts |-> r.opts]
    <3> HIDE DEF cut, o, table
    <3> QED  OBVIOUS
  <2>2. Tabled(input, Reads(j, input, cut, o), o, table)
    BY <1>11
  <2> HIDE DEF r, sel, cut, o, table
  <2>3. Holding(j, r)
    BY <1>2, <1>3, <1>9, <2>1, <2>2 DEF Holding
  <2> QED  BY <2>1, <2>3 DEF Working
<1>13. DOMAIN job = Jobs /\ \A k \in Jobs : Working(k, job[k])
  BY DEF FleetInv
<1> HIDE DEF r
<1>14. DOMAIN job' = Jobs /\ \A k \in Jobs : Working(k, job'[k])
  BY <1>1, <1>12, <1>13, Others
<1> QED  BY <1>1, <1>14 DEF FleetInv

\* What is drawn is the job's part.
LEMMA DrawKeeps ==
  ASSUME FleetInv, NEW j \in Jobs, Draw(j)
  PROVE  FleetInv'
<1> DEFINE q == job[j]
           a == [plan |-> q.plan,
                 tiles |-> Features(q.input, Reads(j, q.input, q.cut, q.opts),
                                    q.table, ShareOf(j, q.cut))]
<1>1. /\ q.pc = "drawing" /\ job' = [job EXCEPT ![j] = Idle]
      /\ archive' = [archive EXCEPT ![j] = a]
      /\ UNCHANGED <<input, cutFile, planFile>>
  BY DEF Draw
<1>2. Working(j, q)
  BY DEF FleetInv
<1>3. Holding(j, q)
  <2> HIDE DEF q
  <2> QED  BY <1>1, <1>2 DEF Working, Idle
<1>4. Archived(j, a)
  <2> HIDE DEF q
  <2>1. /\ FineCut(j, q.cut) /\ q.input \in Range(Inputs) /\ q.opts \in Opts
        /\ q.plan = SavedOf(q.input, q.opts, CutDigest(q.cut))
        /\ Tabled(q.input, Reads(j, q.input, q.cut, q.opts), q.opts, q.table)
    BY <1>3 DEF Holding
  <2>2. a.plan = q.plan /\ a.tiles = SliceOf(q.input, q.opts, j, q.cut)
    BY <2>1, JobDraws
  <2> HIDE DEF a
  <2> QED  BY <2>1, <2>2 DEF Archived
<1>5. DOMAIN job = Jobs /\ DOMAIN archive = Jobs
      /\ (\A k \in Jobs : Working(k, job[k])) /\ (\A k \in Jobs : Archived(k, archive[k]))
  BY DEF FleetInv
<1>6. Working(j, Idle)
  BY DEF Working
<1> HIDE DEF a, q
<1>7. DOMAIN job' = Jobs /\ \A k \in Jobs : Working(k, job'[k])
  BY <1>1, <1>5, <1>6, Others
<1>8. DOMAIN archive' = Jobs /\ \A k \in Jobs : Archived(k, archive'[k])
  <2>1. DOMAIN archive' = Jobs /\ archive'[j] = a
        /\ \A k \in Jobs : k # j => archive'[k] = archive[k]
    BY <1>1, <1>5
  <2> QED  BY ONLY <1>4, <1>5, <2>1
<1> QED  BY <1>1, <1>7, <1>8 DEF FleetInv

\* Every step of the fleet keeps it.
LEMMA StepFleet == FleetInv /\ [Next]_vars => FleetInv'
<1> SUFFICES ASSUME FleetInv, [Next]_vars  PROVE FleetInv'
  OBVIOUS
<1>1. CASE CreatePlan
  BY <1>1, CreatePlanKeeps
<1>2. CASE SavePlan
  BY <1>2, SavePlanKeeps
<1>3. ASSUME NEW j \in Jobs, LoadCut(j)  PROVE FleetInv'
  BY <1>3, LoadCutKeeps
<1>4. ASSUME NEW j \in Jobs, Replay(j)  PROVE FleetInv'
  BY <1>4, ReplayKeeps
<1>5. ASSUME NEW j \in Jobs, Draw(j)  PROVE FleetInv'
  BY <1>5, DrawKeeps
<1>6. ASSUME NEW j \in Jobs, Refuse(j) \/ Crash(j)  PROVE FleetInv'
  <2>1. job' = [job EXCEPT ![j] = Idle] /\ UNCHANGED <<input, cutFile, planFile, archive>>
    BY <1>6 DEF Refuse, Crash
  <2>2. Working(j, Idle)
    BY DEF Working
  <2>3. DOMAIN job = Jobs /\ \A k \in Jobs : Working(k, job[k])
    BY DEF FleetInv
  <2>4. DOMAIN job' = Jobs /\ \A k \in Jobs : Working(k, job'[k])
    BY <2>1, <2>2, <2>3, Others
  <2> QED  BY <2>1, <2>4 DEF FleetInv
<1>7. CASE Rewrite
  <2>1. input' \in Range(Inputs) /\ UNCHANGED <<cutFile, planFile, job, archive>>
    BY <1>7 DEF Rewrite
  <2> QED  BY <2>1 DEF FleetInv
<1>8. CASE Recut
  <2>1. UNCHANGED <<input, planFile, job, archive>>
    BY <1>8 DEF Recut
  <2>2. CutFiled(cutFile')
    <3>1. CASE cutFile' = Torn
      BY <3>1 DEF CutFiled
    <3>2. CASE \E c \in Cuts : cutFile' = CutFor(c, input)
      BY <3>2, CutsFiled
    <3> QED  BY <1>8, <3>1, <3>2 DEF Recut
  <2> QED  BY <2>1, <2>2 DEF FleetInv
<1>9. CASE ForeignPlan
  <2>1. /\ planFile' = SavedOf(input, RightOpts, None)
        /\ UNCHANGED <<input, cutFile, job, archive>>
    BY <1>9 DEF ForeignPlan, SavedOf
  <2>2. RightOpts \in Opts /\ input \in Range(Inputs)
    BY FleetAssumption DEF FleetInv
  <2>3. PlanFiled(planFile')
    BY <2>1, <2>2 DEF PlanFiled
  <2> QED  BY <2>1, <2>3 DEF FleetInv
<1>10. CASE UNCHANGED vars
  BY <1>10 DEF FleetInv, vars
<1> QED  BY <1>1, <1>2, <1>3, <1>4, <1>5, <1>6, <1>7, <1>8, <1>9, <1>10 DEF Next

\* The invariant that makes the archives right: whatever replaced a file while
\* the fleet ran, a job that has its plan holds the input the plan was saved
\* over, and tables rebased to the rows it reads.
THEOREM FleetInductive == Spec => []FleetInv
<1> QED  BY InitFleet, StepFleet, PTL DEF Spec

\* So the archives are slices.
LEMMA ArchivesAreSlices == FleetInv => SliceOfOneRun
<1> SUFFICES ASSUME FleetInv, NEW j \in Jobs, archive[j] # None
    PROVE  LET fp == archive[j].plan.fingerprint
               cut == [pivot |-> fp.cut[1], ranges |-> fp.cut[2]]
           IN /\ fp.cut # None
              /\ archive[j].tiles = {f \in Whole(SavedOver(archive[j].plan), fp.opts) :
                                       f.id \in ShareOf(j, cut)[f.z]}
  BY DEF SliceOfOneRun
<1> DEFINE a == archive[j]
           fp == a.plan.fingerprint
           cut == [pivot |-> fp.cut[1], ranges |-> fp.cut[2]]
<1>1. Archived(j, a)
  BY DEF FleetInv
<1>2. PICK in \in Range(Inputs) : \E o \in Opts : \E c :
        /\ FineCut(j, c) /\ a.plan = SavedOf(in, o, CutDigest(c))
        /\ a.tiles = SliceOf(in, o, j, c)
  BY <1>1 DEF Archived
<1>3. PICK o \in Opts : \E c :
        /\ FineCut(j, c) /\ a.plan = SavedOf(in, o, CutDigest(c))
        /\ a.tiles = SliceOf(in, o, j, c)
  BY <1>2
<1>4. PICK c :
        /\ FineCut(j, c) /\ a.plan = SavedOf(in, o, CutDigest(c))
        /\ a.tiles = SliceOf(in, o, j, c)
  BY <1>3
<1>5. SavedOver(a.plan) = in /\ fp.opts = o /\ fp.cut = CutDigest(c)
  BY <1>4, StampsTell
<1>6. fp.cut # None
  BY <1>4, <1>5 DEF FineCut
<1>7. cut.pivot = c.pivot /\ cut.ranges = c.ranges
  BY <1>5 DEF CutDigest
<1>8. ShareOf(j, cut) = ShareOf(j, c)
  <2> HIDE DEF cut
  <2> QED  BY <1>7 DEF ShareOf
<1>9. a.tiles = {f \in Whole(in, o) : f.id \in ShareOf(j, cut)[f.z]}
  <2> HIDE DEF cut, a
  <2> QED  BY <1>4, <1>8 DEF SliceOf
<1> QED  BY <1>5, <1>6, <1>9

\* verify_with, rebase_plan_for_shard and the read margin, for every input,
\* cut and set of options: an archive is its job's part of the one run that
\* saved its plan.
THEOREM ArchiveSlices == Spec => []SliceOfOneRun
<1> QED  BY FleetInductive, ArchivesAreSlices, PTL

\* So they merge.
LEMMA ArchivesMerge == FleetInv => MergesToOneRun
<1> SUFFICES ASSUME FleetInv,
                    \A j \in Jobs : archive[j] # None /\ archive[j].plan = archive[0].plan
    PROVE  LET Named(j) == {<<f.z, f.id>> : f \in archive[j].tiles}
               plan == archive[0].plan
           IN /\ \A i, j \in Jobs : i # j => Named(i) \cap Named(j) = {}
              /\ UNION {archive[j].tiles : j \in Jobs}
                   = Whole(SavedOver(plan), plan.fingerprint.opts)
  BY DEF MergesToOneRun
<1> DEFINE plan == archive[0].plan
           fp == plan.fingerprint
           whole == Whole(SavedOver(plan), fp.opts)
           cut == [pivot |-> fp.cut[1], ranges |-> fp.cut[2]]
           Tiles(j) == archive[j].tiles
<1>1. 0 \in Jobs /\ 1 \in Jobs
  BY FleetAssumption DEF Jobs
<1>2. \A j \in Jobs : Tiles(j) = {f \in whole : f.id \in ShareOf(j, cut)[f.z]}
  <2>1. SliceOfOneRun
    BY ArchivesAreSlices
  <2> QED  BY <2>1 DEF SliceOfOneRun
<1>3. PICK in \in Range(Inputs) : \E o \in Opts : \E c :
        FineCut(1, c) /\ plan = SavedOf(in, o, CutDigest(c))
  BY <1>1 DEF FleetInv, Archived
<1>4. PICK o \in Opts : \E c : FineCut(1, c) /\ plan = SavedOf(in, o, CutDigest(c))
  BY <1>3
<1>5. PICK c : FineCut(1, c) /\ plan = SavedOf(in, o, CutDigest(c))
  BY <1>4
<1>6. SavedOver(plan) = in /\ fp.opts = o /\ fp.cut = CutDigest(c)
  BY <1>5, StampsTell
<1>7. cut.pivot = c.pivot /\ cut.ranges = c.ranges /\ CutDigest(cut) = CutDigest(c)
  BY <1>6 DEF CutDigest
<1>8. FineCut(1, cut)
  <2> HIDE DEF cut
  <2> QED  BY <1>5, <1>7 DEF FineCut, Structured, HasRange
<1>9. ASSUME NEW f \in whole
      PROVE  \E j \in Jobs : \A k \in Jobs : f \in Tiles(k) <=> k = j
  <2>1. f.z \in 0..FinestZoom /\ f.id \in IdsOf(f.z)
    BY <1>6, WholeIds
  <2> HIDE DEF cut, Tiles, whole
  <2>2. PICK j \in Jobs : \A k \in Jobs : f.id \in ShareOf(k, cut)[f.z] <=> k = j
    BY <1>8, <2>1, OneJob
  <2> QED  BY <1>2, <2>2
<1>10. ASSUME NEW i \in Jobs, NEW j \in Jobs, NEW f \in Tiles(i), NEW g \in Tiles(j),
              f.z = g.z, f.id = g.id
       PROVE  i = j
  <2>1. f \in whole /\ g \in whole /\ f.id \in ShareOf(i, cut)[f.z]
        /\ f.id \in ShareOf(j, cut)[f.z]
    BY <1>2, <1>10
  <2>2. f \in Tiles(i) /\ f \in Tiles(j)
    BY <1>2, <2>1
  <2> HIDE DEF cut, Tiles, whole
  <2> QED  BY <1>9, <2>1, <2>2
<1>11. \A i, j \in Jobs : i # j =>
         {<<f.z, f.id>> : f \in Tiles(i)} \cap {<<f.z, f.id>> : f \in Tiles(j)} = {}
  <2> HIDE DEF cut, Tiles, whole
  <2> QED  BY <1>10
<1>12. UNION {Tiles(j) : j \in Jobs} = whole
  <2>1. \A j \in Jobs : Tiles(j) \subseteq whole
    BY <1>2
  <2>2. \A f \in whole : \E j \in Jobs : f \in Tiles(j)
    <3> HIDE DEF cut, Tiles, whole
    <3> QED  BY <1>9
  <2> HIDE DEF cut, Tiles, whole
  <2> QED  BY <2>1, <2>2
<1> HIDE DEF whole
<1> QED  BY <1>11, <1>12 DEF whole

\* The archives of jobs that replayed one plan have no tile in common, and
\* together are the one run.
THEOREM ArchivesMergeToOne == Spec => []MergesToOneRun
<1> QED  BY FleetInductive, ArchivesMerge, PTL

=============================================================================
