----------------------------- MODULE LevelAssign -----------------------------
(***************************************************************************)
(* overview/assign.rs, assign_levels_bounded: the coarsest level at which  *)
(* each feature survives.  Coarse levels are built in waves that the grid  *)
(* budget allows, the levels of a wave at once; a level classifies a block *)
(* of chunks in parallel, then contests its cells in parallel over shards; *)
(* a wave's winners are folded in parallel over slices of positions.       *)
(*                                                                         *)
(* A step is what one Rayon task does between two places where tasks meet, *)
(* and of a shard's task one contest.  The serial build of a small table   *)
(* is the one of a single chunk and a single shard.                        *)
(***************************************************************************)
EXTENDS FeatureTable, FiniteSetsExt

CONSTANTS
  Chunk,        \* chunk_features
  Shards,       \* shards of a grid
  Pool,         \* chunks that may be pending in a wave at once
  FoldChunk,    \* positions of a slice of the fold
  GridBudget    \* cells that the grids of a wave may have, as estimated

ASSUME BuildAssumption ==
  /\ Chunk \in Nat \ {0} /\ Shards \in Nat \ {0} /\ Pool \in Nat
  /\ FoldChunk \in Nat \ {0} /\ GridBudget \in Nat

VARIABLES
  wave,        \* the coarse levels that are being built
  planned,     \* coarse levels built, or being built
  start,       \* per level: positions of the blocks before this one
  classified,  \* per level: the block's chunks that are classified
  drained,     \* per level and shard: the position it contested last
  grid,        \* per level: the winners so far, one for each cell
  freely,      \* per level: winners that contested no cell
  folded       \* slices of positions that the wave is folded into

building   == <<start, classified, drained, grid, freely>>
assignVars == <<wave, planned, building, folded, minLevel>>

-----------------------------------------------------------------------------
(* center_extent_and_kind_counts, estimate_level_grid_bytes *)

CountOf(k) == Cardinality({p \in Positions : row[p].kind = k})
Extent     == LET centers == {row[p].at : p \in Positions}
              IN IF centers = {} THEN 0 ELSE Max(centers) - Min(centers)

\* In cells, each of 96 bytes.
CellsOf(l, k) ==
  LET spanned == Extent \div Width(l, k) + 1
  IN  IF config.factor[k] = 0 THEN CountOf(k)
      ELSE IF Width(l, k) = 0 \/ CountOf(k) = 0 THEN 0
      ELSE IF spanned < CountOf(k) THEN spanned ELSE CountOf(k)

Estimate(l) == MapThenSumSet(LAMBDA k : CellsOf(l, k), Kinds)

\* plan_level_waves: a wave of a single level is always allowed.
MayShare(i, j) ==
  i = j \/ MapThenSumSet(LAMBDA l : Estimate(l), i..j) <= GridBudget

-----------------------------------------------------------------------------

\* Laddered features have their level, all others start at the finest.
AtFirst(p) == IF ~Laddered(p) \/ row[p].entry > Finest THEN Finest
                                                       ELSE row[p].entry

AssignInit ==
  /\ row \in [Positions -> Features] /\ config \in Configs
  /\ wave = {} /\ planned = 0 /\ folded = {}
  /\ start = [l \in Coarse |-> 0]
  /\ classified = [l \in Coarse |-> {}]
  /\ drained = [l \in Coarse |-> [s \in 0..(Shards - 1) |-> 0]]
  /\ grid = [l \in Coarse |-> {}]
  /\ freely = [l \in Coarse |-> {}]
  /\ minLevel = [p \in Positions |-> AtFirst(p)]

\* The next wave: as many levels as may share the budget.
StartWave ==
  /\ wave = {} /\ planned < Finest
  /\ \E last \in planned..(Finest - 1) :
       /\ MayShare(planned, last)
       /\ last < Finest - 1 => ~MayShare(planned, last + 1)
       /\ wave' = planned..last
       /\ planned' = last + 1
  /\ UNCHANGED <<Input, building, folded, minLevel>>

\* WinnerBuild::for_pool: the levels of a wave share the pending chunks.
BlockChunks == LET each == Pool \div Cardinality(wave)
               IN IF each = 0 THEN 1 ELSE each
BlockEnd(l) == LET to == start[l] + Chunk * BlockChunks
               IN IF to < RowCount THEN to ELSE RowCount
Block(l)    == (start[l] + 1)..BlockEnd(l)

ChunkOf(l, p)  == (p - start[l] - 1) \div Chunk
ChunksIn(l)    == {ChunkOf(l, p) : p \in Block(l)}
ShardOf(l, p)  == LET discriminant == CASE row[p].kind = "point" -> 0
                                        [] row[p].kind = "line" -> 1
                                        [] OTHER -> 2
                  IN (Cell(l, p)[2] + discriminant) % Shards

\* classify_chunk: what it finds depends on the table alone.
Classify(l, c) ==
  /\ l \in wave /\ c \in ChunksIn(l) \ classified[l]
  /\ classified' = [classified EXCEPT ![l] = @ \cup {c}]
  /\ UNCHANGED <<Input, wave, planned, start, drained, grid, freely, folded,
                 minLevel>>

\* What a shard has still to contest of the block.
Ahead(l, s) == {p \in Block(l) : /\ Contests(l, p) /\ ShardOf(l, p) = s
                                 /\ p > drained[l][s]}

\* Mutant: a challenger has only not to be beaten.
AfterContest_TieTakes(l, p) ==
  LET incumbents == {w \in grid[l] : Cell(l, w) = Cell(l, p)}
  IN  IF \E w \in incumbents : Beats(w, p) THEN grid[l]
      ELSE (grid[l] \ incumbents) \cup {p}

\* contest_cell: a challenger has to beat the winner so far.
AfterContest(l, p) ==
  LET incumbents == {w \in grid[l] : Cell(l, w) = Cell(l, p)}
  IN  IF \E w \in incumbents : ~Beats(p, w) THEN grid[l]
      ELSE (grid[l] \ incumbents) \cup {p}

\* A shard drains the chunks in order once all are classified.
Contest(l, s) ==
  /\ l \in wave /\ classified[l] = ChunksIn(l)
  /\ \E p \in Ahead(l, s) :
       /\ \A q \in Ahead(l, s) : p <= q
       /\ grid' = [grid EXCEPT ![l] = AfterContest(l, p)]
       /\ drained' = [drained EXCEPT ![l][s] = p]
  /\ UNCHANGED <<Input, wave, planned, start, classified, freely, folded, minLevel>>

\* All shards are through: what contests no cell wins too.
NextBlock(l) ==
  /\ l \in wave /\ start[l] < RowCount
  /\ classified[l] = ChunksIn(l)
  /\ \A s \in 0..(Shards - 1) : Ahead(l, s) = {}
  /\ freely' = [freely EXCEPT ![l] = @ \cup {p \in Block(l) : WinsAlways(l, p)}]
  /\ start' = [start EXCEPT ![l] = BlockEnd(l)]
  /\ classified' = [classified EXCEPT ![l] = {}]
  /\ UNCHANGED <<Input, wave, planned, drained, grid, folded, minLevel>>

Built     == wave # {} /\ \A l \in wave : start[l] = RowCount
Winners(l) == grid[l] \cup freely[l]

Slice(r) == {p \in Positions : (p - 1) \div FoldChunk = r}
Slices   == {(p - 1) \div FoldChunk : p \in Positions}

\* The coarsest of the levels so far and of those won in this wave.
Lowered(p) ==
  LET levels == {minLevel[p]} \cup {l \in wave : p \in Winners(l)}
  IN  CHOOSE l \in levels : \A k \in levels : l <= k

\* fold_wave_winners, one slice of the positions.
Fold(r) ==
  /\ Built /\ r \in Slices \ folded
  /\ minLevel' = [p \in Positions |-> IF p \in Slice(r) THEN Lowered(p)
                                                        ELSE minLevel[p]]
  /\ folded' = folded \cup {r}
  /\ UNCHANGED <<Input, wave, planned, building>>

\* The wave's grids are dropped.
EndWave ==
  /\ Built /\ folded = Slices
  /\ wave' = {} /\ folded' = {}
  /\ start' = [l \in Coarse |-> 0]
  /\ classified' = [l \in Coarse |-> {}]
  /\ drained' = [l \in Coarse |-> [s \in 0..(Shards - 1) |-> 0]]
  /\ grid' = [l \in Coarse |-> {}]
  /\ freely' = [l \in Coarse |-> {}]
  /\ UNCHANGED <<Input, planned, minLevel>>

AssignNext ==
  \/ StartWave \/ EndWave
  \/ \E l \in Coarse : NextBlock(l)
  \/ \E l \in Coarse, c \in 0..RowCount : Classify(l, c)
  \/ \E l \in Coarse, s \in 0..(Shards - 1) : Contest(l, s)
  \/ \E r \in 0..RowCount : Fold(r)

AssignSpec == AssignInit /\ [][AssignNext]_<<Input, assignVars>>

Assigned == wave = {} /\ planned = Finest

-----------------------------------------------------------------------------
(* Properties *)

\* Every variable holds a value of its kind.
AssignTypeOK ==
  /\ row \in [Positions -> Features] /\ config \in Configs
  /\ wave \subseteq Coarse /\ planned \in 0..Finest
  /\ start \in [Coarse -> 0..RowCount]
  /\ classified \in [Coarse -> SUBSET (0..RowCount)]
  /\ drained \in [Coarse -> [0..(Shards - 1) -> 0..RowCount]]
  /\ grid \in [Coarse -> SUBSET Positions]
  /\ freely \in [Coarse -> SUBSET Positions]
  /\ folded \subseteq Slices
  /\ minLevel \in [Positions -> 0..Finest]

\* A feature survives at a coarse level if it is alone in its cell or the best
\* of those there, the earlier of twins.
Survives(l, p) ==
  \/ WinsAlways(l, p)
  \/ Contests(l, p) /\ \A q \in Positions : q # p /\ Rivals(l, p, q) => Better(p, q)

\* Whatever the waves, blocks, chunks, shards and slices are and whichever
\* task is ahead, each feature has the level that one thread would find: its
\* own if it is on the ladder, else the coarsest at which it survives.
LevelsAreSerial ==
  Assigned => \A p \in Positions :
    IF Laddered(p) THEN minLevel[p] = AtFirst(p)
    ELSE /\ minLevel[p] \in Coarse => Survives(minLevel[p], p)
         /\ \A l \in Coarse : l < minLevel[p] => ~Survives(l, p)

=============================================================================
