------------------------------ MODULE ShardCut ------------------------------
(***************************************************************************)
(* shard.rs: a shard plan is cut from the row groups' bounding boxes,      *)
(* saved, perhaps edited, and loaded by every job of the fleet.            *)
(*                                                                         *)
(* A row group is [rows, tiles]: the pivot tiles its box covers, or the    *)
(* empty set when it has no usable box.  Weights are counted in parts of a *)
(* row, Scale to a row, so that a row group's share of a tile is a whole   *)
(* number.                                                                 *)
(***************************************************************************)
EXTENDS TileRanges, FiniteSets, FiniteSetsExt, Functions

CONSTANTS
  Pivot,            \* the pivot zoom
  CutInputs,           \* the sequences of row groups that may be given
  ShardCounts,      \* the numbers of shards asked for
  Scale,            \* parts of a row
  MaxGroupTiles     \* a group over more tiles than this is spread

ASSUME CutAssumption ==
  /\ Pivot \in 1..MaxPivot /\ MaxPivot <= FinestZoom
  /\ CutInputs \subseteq Seq([rows : Nat, tiles : SUBSET IdsOf(Pivot)])
  /\ ShardCounts \subseteq Nat
  /\ MaxGroupTiles \in Nat

\* A row can be shared out evenly among any number of tiles.
ASSUME ScaleAssumption ==
  /\ Scale \in Nat
  /\ \A n \in 1..TileCount(Pivot) : Scale % n = 0

VARIABLES
  groups,       \* the input
  shards,       \* how many shards are asked for
  pc,           \* "weigh", "cut", "saved", "edited", "loaded" or "refused"
  weight,       \* pivot tile to its weight, for those that have one
  pending,      \* the weighted tiles not yet taken
  taken,        \* the weight of those taken (acc)
  cursor,       \* the first tile of the next range
  ranges        \* the ranges so far, each with its estimated rows

cutVars == <<groups, shards, pc, weight, pending, taken, cursor, ranges>>

FirstTile == FirstId(Pivot)
LastTile == LastId(Pivot)
Ids == IdsOf(Pivot)
Remaining == shards - Len(ranges)

Total == SumFunction(weight)
WeightOf(S) == SumFunctionOnSet(weight, S)

CutInit ==
  /\ groups \in CutInputs
  /\ shards \in ShardCounts
  /\ shards \in 1..TileCount(Pivot)
  /\ pc = "weigh"
  /\ weight = <<>> /\ pending = {} /\ taken = 0
  /\ cursor = FirstTile /\ ranges = <<>>

-----------------------------------------------------------------------------
(* Weights *)

Covering == {g \in DOMAIN groups : groups[g].tiles # {}}
Placed == {g \in Covering : Cardinality(groups[g].tiles) <= MaxGroupTiles}

\* The rows held back are spread over what the other groups cover, or over
\* the whole zoom.
Extent ==
  IF Covering = {} THEN Ids
  ELSE IdsIn(Pivot, Hull({Place(Pivot, id) :
                id \in UNION {groups[g].tiles : g \in Covering}}))

RowsOf(S) == SumFunctionOnSet([g \in DOMAIN groups |-> groups[g].rows], S)

\* Mutant: the rows of a group over too many tiles are not held back.
HeldBack_BoxlessOnly == RowsOf(DOMAIN groups \ Covering)

HeldBack == RowsOf(DOMAIN groups \ Placed)

\* estimate_pivot_weights.
Weigh ==
  /\ pc = "weigh"
  /\ LET PerTile(n, tiles) == (n * Scale) \div Cardinality(tiles)
         Spread == IF HeldBack > 0 THEN Extent ELSE {}
         Touched == Spread \cup UNION {groups[g].tiles : g \in Placed}
     IN weight' = [id \in Touched |->
           SumFunction([g \in Placed |->
              IF id \in groups[g].tiles
              THEN PerTile(groups[g].rows, groups[g].tiles) ELSE 0])
           + (IF id \in Spread THEN PerTile(HeldBack, Extent) ELSE 0)]
  /\ pending' = DOMAIN weight'
  /\ pc' = "cut"
  /\ UNCHANGED <<groups, shards, taken, cursor, ranges>>

-----------------------------------------------------------------------------
(* The cut *)

\* Nothing has a weight: ranges of the same width.
CutEvenly ==
  /\ pc = "cut" /\ ranges = <<>>
  /\ Total = 0
  /\ ranges' = [i \in 1..shards |->
        [lo |-> FirstTile + (TileCount(Pivot) * (i - 1)) \div shards,
         hi |-> FirstTile + (TileCount(Pivot) * i) \div shards - 1,
         rows |-> 0]]
  /\ cursor' = LastTile + 1
  /\ pc' = "saved"
  /\ UNCHANGED <<groups, shards, weight, pending, taken>>

\* The last tile a range may end at, leaving one for each still to come.
LatestEnd == LastTile - (Remaining - 1)

\* Mutant: a range is closed at the share of the ranges before it.
Reaches_Early(id) ==
  (taken + WeightOf({k \in pending : k <= id})) * shards
    >= Total * Len(ranges)

\* The tiles the next range takes: in order, until the weight taken by all
\* ranges so far reaches their share of the total.
Reaches(id) ==
  (taken + WeightOf({k \in pending : k <= id})) * shards
    >= Total * (Len(ranges) + 1)
Takes ==
  {id \in pending : /\ id <= LatestEnd
                    /\ \A k \in pending : k < id => ~Reaches(k)}

\* The code's clamp of the last tile taken, the cursor when there is none.
Ending(S) == IF S = {} THEN cursor
             ELSE LET end == Max(S)
                  IN Max({cursor, Min({end, LatestEnd})})

CutRange ==
  /\ pc = "cut" /\ Total > 0 /\ Remaining > 1
  /\ ranges' = Append(ranges, [lo |-> cursor, hi |-> Ending(Takes),
                               rows |-> WeightOf(Takes)])
  /\ pending' = pending \ Takes
  /\ taken' = taken + WeightOf(Takes)
  /\ cursor' = Ending(Takes) + 1
  /\ UNCHANGED <<groups, shards, pc, weight>>

\* The last range takes the rest.
CutLast ==
  /\ pc = "cut" /\ Total > 0 /\ Remaining = 1
  /\ ranges' = Append(ranges, [lo |-> cursor, hi |-> LastTile,
                               rows |-> WeightOf(pending)])
  /\ pending' = {}
  /\ taken' = taken + WeightOf(pending)
  /\ cursor' = LastTile + 1
  /\ pc' = "saved"
  /\ UNCHANGED <<groups, shards, weight>>

-----------------------------------------------------------------------------
(* The file *)

Plan == [pivot |-> Pivot,
         ranges |-> [i \in DOMAIN ranges |->
                       [lo |-> ranges[i].lo, hi |-> ranges[i].hi]]]

\* Someone moves one end of one range, or drops a range.
Edit ==
  /\ pc = "saved"
  /\ \/ \E i \in DOMAIN ranges, d \in {-1, 1} :
          \/ ranges' = [ranges EXCEPT ![i].lo = @ + d]
          \/ ranges' = [ranges EXCEPT ![i].hi = @ + d]
     \/ \E i \in DOMAIN ranges : ranges' = 
          SubSeq(ranges, 1, i - 1) \o SubSeq(ranges, i + 1, Len(ranges))
  /\ pc' = "edited"
  /\ UNCHANGED <<groups, shards, weight, pending, taken, cursor>>

Load ==
  /\ pc \in {"saved", "edited"}
  /\ pc' = IF Structured(Plan) THEN "loaded" ELSE "refused"
  /\ UNCHANGED <<groups, shards, weight, pending, taken, cursor, ranges>>

CutNext == Weigh \/ CutEvenly \/ CutRange \/ CutLast \/ Edit \/ Load

CutSpec == CutInit /\ [][CutNext]_cutVars

-----------------------------------------------------------------------------
(* Properties *)

\* Every variable holds a value of its kind.
CutTypeOK ==
  /\ pc \in {"weigh", "cut", "saved", "edited", "loaded", "refused"}
  /\ DOMAIN weight \subseteq Ids
  /\ pending \subseteq DOMAIN weight
  /\ taken \in Nat
  /\ cursor \in FirstTile..(LastTile + 1)
  /\ Len(ranges) <= shards

\* compute and cut_ranges: when a plan has been cut it has as many ranges as
\* were asked for, none empty, and each tile of the pivot zoom is in exactly
\* one.  No estimate exceeds an equal share by more than the heaviest tile,
\* each is the weight of the tiles in its range, and together they are the
\* whole weight.
Heaviest == Max({0} \cup Range(weight))
TilesIn(r) == {id \in DOMAIN weight : r.lo <= id /\ id <= r.hi}

CutIsPartition ==
  pc = "saved" =>
    /\ Len(ranges) = shards
    /\ \A i \in DOMAIN ranges :
         LET r == ranges[i]
         IN /\ r.lo <= r.hi
            /\ r.rows = WeightOf(TilesIn(r))
            /\ r.rows * shards <= Total + shards * Heaviest
    /\ \A id \in Ids : Cardinality({i \in DOMAIN ranges :
                            ranges[i].lo <= id /\ id <= ranges[i].hi}) = 1
    /\ SumFunction([i \in DOMAIN ranges |-> ranges[i].rows]) = Total

\* estimate_pivot_weights: the whole weight is the rows of the input, those
\* of the groups that are spread and of those without a box included.
WeightIsTheRows ==
  pc \in {"cut", "saved"} => Total = Scale * RowsOf(DOMAIN groups)

\* check_structure and ids_at: once a plan is loaded, as it was cut or as it
\* was edited, each tile of each zoom the shards own has exactly one owner,
\* the one that owns its ancestor at the pivot.
OneOwner ==
  pc = "loaded" =>
    \A z \in Pivot..FinestZoom : \A id \in IdsOf(z) :
      LET Owner == {i \in DOMAIN ranges :
                      /\ HasRange(Plan, i, Len(ranges))
                      /\ id \in IdsAt(Pivot, Plan.ranges[i], z)}
          up == FirstTile + (id - FirstId(z)) \div TileCount(z - Pivot)
      IN \E i \in Owner : /\ Owner = {i}
                          /\ ranges[i].lo <= up /\ up <= ranges[i].hi

=============================================================================
