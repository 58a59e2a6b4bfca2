----------------------------- MODULE TileRanges -----------------------------
(***************************************************************************)
(* shard.rs and tile.rs: the tile ids of a zoom, which follow a Hilbert    *)
(* curve, and the runs of them that the jobs of a sharded build own.       *)
(*                                                                         *)
(* A plan is a record [pivot, ranges, inputs]; a range of it [lo, hi], the *)
(* ids of pivot tiles.                                                     *)
(***************************************************************************)
EXTENDS Integers, Sequences

CONSTANTS
  MaxPivot,       \* the deepest pivot zoom a plan may use
  FinestZoom      \* the deepest zoom there is

ASSUME ZoomAssumption == MaxPivot \in Nat /\ FinestZoom \in Nat

TileCount(z) == 2^(2 * z)
FirstId(z) == (TileCount(z) - 1) \div 3
LastId(z) == FirstId(z) + TileCount(z) - 1
IdsOf(z) == FirstId(z)..LastId(z)

-----------------------------------------------------------------------------
(* The curve *)

\* Four copies of a curve over a square, the first transposed and the last
\* anti-transposed.
Quarters(c, side) ==
  LET At(f(_)) == [k \in 1..Len(c) |-> f(c[k])]
  IN At(LAMBDA t : [x |-> t.y, y |-> t.x])
     \o At(LAMBDA t : [x |-> t.x, y |-> t.y + side])
     \o At(LAMBDA t : [x |-> t.x + side, y |-> t.y + side])
     \o At(LAMBDA t : [x |-> 2 * side - 1 - t.y, y |-> side - 1 - t.x])

\* The tiles of zoom z in the order of the curve.
Curve[z \in 0..FinestZoom] ==
  IF z = 0 THEN <<[x |-> 0, y |-> 0]>> ELSE Quarters(Curve[z - 1], 2^(z - 1))

Curves == [z \in 0..FinestZoom |-> Curve[z]]

\* Where a tile lies in its zoom.
Place(z, id) == Curves[z][id - FirstId(z) + 1]

\* The ids of the tiles of a rectangle [x0, x1, y0, y1].
Inside(t, box) == /\ box.x0 <= t.x /\ t.x <= box.x1
                  /\ box.y0 <= t.y /\ t.y <= box.y1
IdsIn(z, box) == {id \in IdsOf(z) : Inside(Place(z, id), box)}

\* The smallest rectangle around some tiles.
Hull(tiles) ==
  LET Least(S) == CHOOSE m \in S : \A n \in S : m <= n
      Most(S) == CHOOSE m \in S : \A n \in S : m >= n
      xs == {t.x : t \in tiles}
      ys == {t.y : t \in tiles}
  IN [x0 |-> Least(xs), x1 |-> Most(xs), y0 |-> Least(ys), y1 |-> Most(ys)]

Widened(box, by) == [x0 |-> box.x0 - by, x1 |-> box.x1 + by,
                     y0 |-> box.y0 - by, y1 |-> box.y1 + by]

-----------------------------------------------------------------------------
(* Ranges *)

\* TileRange::new accepts the two ids.
GoodRange(pivot, lo, hi) ==
  /\ pivot \in 1..MaxPivot
  /\ lo <= hi
  /\ {lo, hi} \subseteq IdsOf(pivot)

\* The ids a range owns at a zoom: none above the pivot, and below it every
\* descendant of its tiles.
IdsAt(pivot, r, z) ==
  LET span == TileCount(z - pivot)
  IN IF z < pivot \/ z > FinestZoom THEN {}
     ELSE FirstId(z) + (r.lo - FirstId(pivot)) * span
            .. FirstId(z) + (r.hi - FirstId(pivot) + 1) * span - 1

\* The rectangle of a range's tiles, and the wider one its job reads.
RangeBox(pivot, r) == Hull({Place(pivot, id) : id \in r.lo..r.hi})
ReadMargin == 2
ReadBox(pivot, r) == Widened(RangeBox(pivot, r), ReadMargin)

-----------------------------------------------------------------------------
(* Plans *)

\* Mutant: the ranges may stop before the zoom does.
Structured_MayStopShort(plan) ==
  /\ plan.pivot \in 1..MaxPivot
  /\ plan.ranges # <<>>
  /\ \A i \in 1..Len(plan.ranges) :
       LET r == plan.ranges[i]
       IN /\ r.lo = IF i = 1 THEN FirstId(plan.pivot)
                    ELSE plan.ranges[i - 1].hi + 1
          /\ r.lo <= r.hi /\ r.hi <= LastId(plan.pivot)

\* check_structure, made of every plan that is loaded.
Structured(plan) ==
  /\ plan.pivot \in 1..MaxPivot
  /\ plan.ranges # <<>>
  /\ \A i \in 1..Len(plan.ranges) :
       LET r == plan.ranges[i]
       IN /\ r.lo = IF i = 1 THEN FirstId(plan.pivot)
                    ELSE plan.ranges[i - 1].hi + 1
          /\ r.lo <= r.hi /\ r.hi <= LastId(plan.pivot)
  /\ plan.ranges[Len(plan.ranges)].hi = LastId(plan.pivot)

\* range_for: the range of data shard i of n, for a plan that cuts n.
HasRange(plan, i, n) ==
  /\ n = Len(plan.ranges)
  /\ i \in 1..n
  /\ GoodRange(plan.pivot, plan.ranges[i].lo, plan.ranges[i].hi)

\* What the digest of a cut covers: the tiles of each job and nothing else.
CutDigest(plan) == <<plan.pivot, plan.ranges>>

\* The pivot is not finer than the finest zoom of the build.
PivotReached(plan, maxZoom) == plan.pivot <= maxZoom

=============================================================================
