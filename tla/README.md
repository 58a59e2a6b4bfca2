# tylertoo in TLA+

tylertoo turns GeoParquet into overview GeoParquet files and PMTiles archives.
This directory models the parts of it where several threads, several processes,
a file on disk, a failure or a limit decide what comes out: the archive writer
and its crash behaviour, the scoped pipe every pass streams through, the
parallel ordered reader, the buffered second pass with its spill writers, the
memory budget of a conversion and of an export, the levels and counts that a
conversion gives its features, the reading of a level into tiles, the valves
that make a tile fit its size, the concurrent export of levels, the prober of
the variable-depth pyramid, the outputs written beside other runs of the
program, the jobs of a sharded build, and the merges of archives. Paths below
are relative to the repository; `core/` stands for `src/crates/core/src/`.

## 1. The system

| Part | Source | State it keeps | Operations |
|---|---|---|---|
| PMTiles writer | `core/pmtiles_writer.rs` | directory entries, dedup index, `current_offset`, the spool's `BufWriter`, `tail_dirty`, `tail_checkpoints`; on disk `<output>.partial`, `.partial.prev`, the output | `with_tail_layout`, `add_tile_precompressed`, `checkpoint`, `finalize`, drop |
| Scoped pipe | `core/overview/pipe.rs` | a bounded channel, the producer's handle | `scoped_pipe`, `for_each_window`, `split_in_flight` |
| Ordered reader | `core/overview/read.rs`, `core/input_set.rs` | per worker a channel; a `Regrouper` queue | `read_in_order`, `read_in_parallel`, `read_sequentially`, `resolve_read_shape` |
| Buffered pass 2 | `core/overview/pipeline.rs` | a sink per level (RAM or spill), a writer thread per spill | `run_pass2_buffered`, `push`, `downgrade_to_spill`, `into_reader`, drop |
| Conversion's phases | `core/overview/stream.rs` | nested pipes, staged input, the tuning the reads share | staging, pass 1, assignment, pass 2 buffered and streamed |
| Memory budget | `core/overview/memory.rs` | reserved bytes, the grant of each phase | `fit_units`, `release`, `reserve_up_to` and what derives from `remaining` |
| Level assignment | `core/overview/assign.rs`, `ladder.rs` | per level of a wave a grid of cells in shards; the coarsest level per row; what a level's budget has left | `assign_levels_bounded`, `plan_level_waves`, `fold_wave_winners`, `apply_density_budget` |
| Clustering | `core/overview/cluster.rs`, `coalesce.rs`, `accumulate.rs` | a table per level, by row: who is counted there | `build_cluster_tables`, `verify_sum_invariant` |
| Conversion driver | `core/overview/stream.rs`, `convert.rs` | the winner tables and whether each stage ran | `resolve_winner_tables` and the phases above |
| Level export | `core/overview/export.rs` | the plan (partitions, waves, groups), the member store, `GroupCommit` | `plan_partitions`, `plan_level_groups`, `fill_member_store`, `fill_level_store`, `process_wave`, `export_level_group` |
| Size valves | `core/overview/export.rs`, `export/coalesce_valve.rs` | of one tile: features, threshold, what is kept | `drop_to_fit`, `merge_to_fit`, `with_fill` |
| Variable depth | `core/overview/export/variable_depth.rs` | the stop policy, a channel of probed levels, the frontier | `build_policy`, the prober, `export_levels` |
| Atomic output | `core/atomic_output.rs` | a sibling of the destination, exclusively created; a write probe | `check_writable`, `create`, `publish`, drop |
| Sharding | `core/shard.rs`, `core/tile.rs` | a shard plan: the pivot zoom and its ranges | `estimate_pivot_weights`, `cut_ranges`, `check_structure`, `ids_at` |
| Plan state | `core/overview/plan_state.rs`, `tiles.rs` | a saved convert plan and what binds it to a run | `save`, `load_plan_state`, `verify_with`, `rebase_plan_for_shard` |
| Merge, pyramid | `core/merge.rs`, `core/archive_index.rs`, `core/pyramid.rs` | a cursor per directory, a look-ahead tile per archive, the id seen last | `TileIter`, `MergedTiles`, `merge_shards`, `merge_prepared_bands` |
| Geometry, codecs, I/O | `clip.rs`, `simplify.rs`, `mvt.rs`, `decode.rs`, `io/` ... | none that outlives a call | pure functions or library calls |

How they interact. A conversion reads its input in order (ordered reader), runs
passes over the batches (each a producer and a consumer joined by a scoped
pipe), gives each feature of the first pass's table the coarsest level it is
shown at, thins what a level admits, counts the points that are not there by one
that is, buffers what a pass produces per level (sinks) and writes the levels to
one overview file. An export plans the tiles of each level into partitions,
waves and groups, reads the levels back by one of three ways, makes each tile
fit, encodes a group of levels on several threads and commits them, in order, to
one PMTiles writer, with a checkpoint between levels when one is due. Every
phase of both asks the memory budget what it may hold. A sharded build runs a
coarse job and a job per range of tiles, which share a shard plan and a convert
plan, and merges their archives. Threads meet in three ways only: a bounded
channel with a scoped join, the commit lock of a level group, and the file
system; processes meet in the file system alone.

What is hard, and so what the models are about:

* *Blocking joins.* A consumer that leaves while its producer is parked in
  `send` must drop the receiver before it joins (#362, met in the pipe, in the
  reader, in the spill writers and in the variable-depth prober).
* *Errors in several places at once.* Each concurrent part names which error
  its caller is told of. The models state it as a refinement of the serial
  program.
* *Order across threads.* Windows, levels and read segments finish in any order
  and must come out in one.
* *Shortcuts that must not show.* A level is read by one of three ways, split
  into waves, spilled, and read without the row groups that lie elsewhere; the
  winners of a level are found by chunks and shards in parallel; an input is cut
  into shards. The result must be that of one pass over the whole.
* *Stages that trust each other.* Winners, budget and clusters each take the
  levels the stage before left, and each drops features for reasons of its own.
* *Decisions that outlive what they were taken from.* A budget sized before
  others were granted, a plan saved before its input was rewritten, a level
  drawn while a finer one is still being probed.
* *Death at any instruction.* The archive writer keeps a salvage archive on
  disk while it goes on writing into the same file; a fleet's jobs die and are
  started again.
* *Files of others.* Several runs over one path race between look-up, creation
  and rename. Archives to be merged may overlap, repeat themselves or be damaged
  in the middle.
* *Loops that project.* The valves encode, measure and guess again: they must
  end, and account for every member.
* *Boundaries.* In-flight settings of 0 and 1, budgets of nothing, a join that
  would pass the byte limit of an Arrow offset buffer, more shards than tiles
  with anything in them, a row across the antimeridian.

`PROJECT.json` lists each of these at its line, under `hazards`, with the
property that covers it.

## 2. Modules

| Module | Models | Abstract specification |
|---|---|---|
| `TailWriter` | the tail layout of `StreamingPmtilesWriter`, its reader, process death, failing I/O, later runs over the same paths | `SalvagePromise` |
| `ScopedPipe` | `scoped_pipe` with `for_each_window` | `PipeContract` |
| `SpillSink` | `run_pass2_buffered`'s sinks and writer threads | `BufferedPass` |
| `OrderedRead` | `read_in_parallel`, its workers, `Regrouper`, `concat_prefix_rows` | `SequentialRead` |
| `MemoryBudget` | the ledger: what remains, what is granted, charged and returned | |
| `ConvertBudget` | over it, the phases of a conversion and the shape of its reads | |
| `ExportBudget` | over it, an export's partitions, waves, groups and grants | |
| `FeatureTable` | the table of the first pass: which of two rows is better, where a row falls in a level's grid | |
| `LevelAssign` | `assign_levels_bounded`: waves, blocks, chunks, shards and slices | (one thread, `Survives`) |
| `DensityBudget` | `apply_density_budget`: what a level admits of those that survive there | |
| `ClusterTables` | `build_cluster_tables`, `verify_sum_invariant` | |
| `WinnerTables` | over the three, `resolve_winner_tables` | |
| `LevelRead` | the three ways a level is read, the member store, pruning, encoding in waves | (the archive of one pass, `Archive`) |
| `SizeValve` | the drop and merge valves and the coverage fill of a tile | |
| `GroupCommit` | `export_level_group` with `GroupCommit` | `SerialLevels` |
| `VariableDepth` | the stop policy, the prober thread, `export_levels` | |
| `AtomicOutput` | `check_writable`, `create`, `publish`, the drop of a pending output, several runs | `OutputRegister` |
| `TileRanges` | tile ids along the curve, ranges of them, the structure of a shard plan | |
| `ShardCut` | over it, the weights and the cut, the saved plan and its edits | |
| `ConvertPlan` | the rows a run reads, the fingerprint of a plan, its tables re-addressed | |
| `Fleet` | over both, the jobs of a sharded build | (one run over the input, `Whole`) |
| `MergedTiles` | `TileIter` and the k-way merge `MergedTiles` | |
| `ShardMerge` | `merge_shards` over it | |
| `BandMerge` | `merge_prepared_bands` over it, and over each archive in turn | |
| `MCTailWriter`, `MCPass`, `MCEnds`, `MCBudgets`, `MCTiles`, `MCLevels`, `MCSharding`, `MCMerges` | instances for TLC | |
| `EndsProofs`, `PassProofs`, `LevelsProofs`, `ConvertProofs`, `MergeProofs`, `TileProofs`, `ShardingProofs` | theorems | |
| `SumProofs` | lemmas that several of them need: sums over finite sets, ranks, induction, sequences laid one after another, powers and quotients | |

Every module with an abstract one instantiates it and states `X!Spec` as a
property; variables of the abstract module that the detailed one does not name
alike are given in the `INSTANCE`.

Each `MC` module but the first puts two or three specifications side by side:
a variable (`part`, `end`) says which of them a behaviour is of, and the
variables of the others rest. They are halves of one operation, commands over
one component, or the two ends of a conversion; where they hand something over,
what is handed over is an input of the second, and all inputs that can come of
the first are enumerated. So no step of one can make one of the other possible,
and a run checks exactly what separate runs would.
The liveness properties are stated for the part they are about, and each part
has the fairness of its own specification.

### TailWriter

Bytes become *cells*: one per tile body, one for the metadata section, one for
the leaf directories. Cell *i* of a file is the *i*-th after the prefix. A file
is a record of its prefix (`magic`, `dataEnd`, `root`), whether the prefix has
been reserved, its cells (`body`), and one history field: the tile map its last
completed assembly stood for (`truth`). The three paths are `partial`, `prev`
and `output`.

| Action | Code |
|---|---|
| `Open`, `Create`, `Reserve` | `with_tail_layout`: step an earlier non-empty partial aside, truncate, write the zeroed prefix |
| `AddDuplicate` | `add_tile_precompressed` on a hash hit confirmed byte for byte by `spool_holds`, which looks in the buffer or in the file |
| `BeginAppend` | a new body: `invalidate_tail_prefix_before_append` |
| `AppendBuffered`, `Spill`, `Drain`, `AppendSpilled` | `BufWriter::write_all`, one buffered body at a time, so that death can strike between two of them |
| `Record` | what follows a successful write: the entry, `current_offset` |
| `Assemble` | `checkpoint` or `finalize` begin an assembly |
| `TruncateTail`, `WriteMetadata`, `WriteLeaves`, `WriteHeader`, `WriteRoot`, `Synced` | `write_tail_archive`; the prefix is several pages, and header and root directory can land apart |
| `Publish`, `RemovePrev` | `finalize`'s rename and the removal of the older salvage, whose error is ignored |
| `Kill` | the process dies; the buffer is gone |
| `Fail` | any I/O error, error or panic: `Drop` removes a partial no checkpoint landed in, else the `BufWriter`'s drop writes out what it can |

`Readable` and `Served` are the reader: `Header::from_bytes`, the directory
walk and the metadata read. A section that is missing or belongs to another
header fails to decompress, so a reader that meets one reports an error; a
directory entry that points at something other than a tile body is answered
with a wrong value, which is what `NeverWrong` looks for.

### ScopedPipe and SpillSink: a buffered pass

`Send`, `HungUp`, `SourceEnds` are the producer's closure; `Recv`, `TopUp`,
`Filled`, `Process`, `EmitNext`, `NextWindow` are `for_each_window`'s loop with
its non-blocking top-up and its in-order emission; `Join` is the scoped join
with its precedence (panic, then source error, then item error). Which item
fails where is an input (`verdict`), as is the in-flight setting.

`SpillSink`'s driver is sequential (`pc`, `at`, `item`); each spilled level has
a writer thread with a channel, a batch in hand and a file. The downgrade moves
a RAM buffer to a new writer batch by batch. Faults are bounded by `MaxFaults`,
so that two faults can meet, and `broke` records them.

### OrderedRead

Worker *w* reads segments *w*, *w* + *n*, ... into its own channel; the merge
receives from the channel of the current segment's worker, regroups rows into
batches of `B`, never across input parts, and calls `on_batch` with the row
offset. Batches carry the rows they were decoded with, so that a slice pins
what its parent pinned, and `BoundedRows` cuts a join at the byte limit.

### MemoryBudget, ConvertBudget, ExportBudget

`MemoryBudget` is the ledger: `Base` is the allowance (six tenths of what the
limit leaves after the reserved page cache, or the fallback), `Remaining` what
the grants leave of it, `Affordable` how many units of a price a phase may hold,
`Fit` a grant clamped between a floor and what is wanted, `Release` its return.
A number past the largest of a word is that number (`Sat`), as the code's
arithmetic saturates. `least` is a history: what each grant in force was not
negotiable below, so that `WithinAllowance` can tell a floor from an overdraft.

`ConvertBudget` has an action per grant in the order `stream.rs` takes them:
`Stage`, `Staged`, `ReserveSpill`, `Encode`, then per read of pass 2 `Read`,
`Window`, `EndRead`. `Workers` and `Depth` are `resolve_read_shape`'s closed
form; `ReadAhead` charges what it gives. Both reads resolve from `tuning`, a
copy of the ledger taken once: that the copy is still true for the second read
is half of `SizedAsCharged`.

`ExportBudget` plans first (`Plan`: `plan_partitions`, `memory_safe_level_wave`,
`plan_level_groups`, `check_levels_fit`) and then takes the grants of the
store, the gzip cache, the fill and each level (`GrantStore`, `GrantGzip`,
`GrantFill`, `EndFill`, `GrantLevel`, `EndLevel`, `DrawGroup`, `Finish`). Tiles
are their member counts. It starts with what the conversion before it still
holds, as an input.

### FeatureTable, LevelAssign, DensityBudget, ClusterTables, WinnerTables

The table is an input, a row per position: index, kind, center, diagonal, sort
key and, for a row on the ladder, its level. `Priority` is the comparison by
components that `Priority::beats` makes; two rows with one index beat neither
each other, so `Better` falls back on position, as `priority_order` does.
`WinsAlways` and `Contests` are the outcomes of `place_feature`: gated out,
unthinned, or in a cell. A center has one coordinate.

`LevelAssign` has an action for what one Rayon task does between two places
where tasks meet: `StartWave` (`plan_level_waves` over the estimates of the
levels' grids), `Classify` (one chunk of a level's block), `Contest` (a shard's
next feature, once the block is classified), `NextBlock` (the barrier; features
that contest no cell win), `Fold` (a slice of the positions takes the least of
its level and the wave's winners), `EndWave`. Levels of one wave go on
independently, each at its own block.

`DensityBudget` admits from coarse to fine (`AdmitLevel`): all that survive if
the level has room, else the best of each neighbourhood, by shares that
`WaterFill` pours over them. `ClusterTables` builds the entry of each row at
each level (`BuildTables`: itself, the winner of its cell, or the nearest
present) and checks their sum (`VerifySums`). Each of the two extends the table
and the one before it, and reads the levels that one left (`minLevel`, `Level`);
`WinnerTables` runs the stages in order.

### LevelRead and SizeValve: the tiles of a level

`LevelRead` is pass 2's way from rows to tiles: `ReadFile` (`fill_member_store`,
the one read of a partitioning file), `ReadLevel` (`fill_level_store`) or
`ReadWave` (`process_wave`) begin a read of the row groups that `Reads` lets
through; `Row` clips one row for the levels it is drawn at and gives its
members their sequence number and gap; `Push` and `Flush` are the store with
its segments, its ceiling and its flush of half a buffer, largest bucket first;
`Finish` is `finish_fill`; `EncodeWave` and `NextLevel` route a wave's members
to partitions and write their tiles. Any read or write may fail (`Fail`).

The world is one-dimensional: a tile is a column, a row an extent, stored
inside or a world away. `Key` numbers the columns in an order that is not that
of their places, so that a rectangle around planned tiles covers others too, as
along the real curve. A member costs one byte-unit. The rows of a read are a
set, taken foremost first (`Foremost`): in file order, as the reader's batches
come. What is assumed of an export is its shape (`SetupsAssumption`): a file of
groups of rows, a buffer no wider than a tile, finitely many tiles wanted at a
zoom, all those of a range unless they are picked one by one; and that a zoom's
columns have keys of their own (`KeyAssumption`).

`SizeValve` is the life of one tile in `encode_tile`: `Drop` is a pass of
`drop_to_fit`; `Merge`, `Raise` and `Shed` are `merge_to_fit`'s pass, its next
threshold (`next_mingap`, with the stall detection of `coalesce_valve.rs`) and
its drop fallback; `Fill` is a pass of `with_fill`. What an encode weighs is any
of `Fits`, afresh for each encode: the code assumes nothing of how size moves
with members, and the properties must not either. Members are in file order;
the draw order inside a tile, encode errors (they end the call) and the bytes
are left out.

### GroupCommit and VariableDepth: the levels of an export

A caller collects each level's input and spawns its encoding; a task that
finishes takes the commit lock (`Finish`), writes every level that is ready
(`WriteReady`, `WriteFails`, `WritePanics`) and lets go (`Release`). The lock
ignores poison, as `lock_commit` does. A level can fail at collection, at
encoding, at the write and at the checkpoint, and can panic half way through
its write; which it does is an input per level.

In `VariableDepth` a branch of the pyramid may end at a coarse tile. `Policy`
is the scan's rule A' (which tiles may not stop, and that blocking a tile blocks
those above it); `ProbeLevel`, `ProbeEnds`, `ProbeFails` are the prober thread,
coarse to fine; `DrawLevel`, `DrawFails`, `DrawnAll`, `Receive`, `Abandoned`,
`PlanRun`, `Join` are `export_levels`, which draws each run of levels that the
prober has released, restricted to what lies under no stop. How a level shows
each row (not, as part of a cluster, or whole) is an input. Tiles are columns,
a clip buffer a quarter of one.

### AtomicOutput

The directory is an entry at the path (`here`), what a link there leads to
(`away`), the siblings by name and the probes. A file is the run that wrote it
and how much of it is there. Each run is a process: its `call` is the one it
makes next, and every call on the file system is a step of its own, so that
other runs act between the three look-ups (`CheckWritable`, `Lstat`, `Stat`),
the creation (`CreateSibling`, refused for a name that exists) and `Rename`.
`Write` and `Close` are the callers, `decode_pmtiles` and the overview writer;
`Unchecked` is `write_report`, which does not probe. `Fails` is any call that
fails, with the drop of the `PendingOutput`; `Killed` can come at any step.

### TileRanges, ShardCut, ConvertPlan, Fleet: a sharded build

`TileRanges` has the real tile ids: four copies of the zoom above, the first
transposed and the last anti-transposed, are the curve, and `IdsAt` the ids a
range of pivot tiles owns at every zoom. `ShardCut` is `Weigh`
(`estimate_pivot_weights`, in parts of a row so that shares are whole), the cut
(`CutEvenly`, `CutRange`, `CutLast`), an `Edit` of the saved plan and its
`Load`.

`ConvertPlan` is what a run knows of its input and what a saved plan is bound
to: the rows a selection of row groups reads, in order (`Stream`), the
fingerprint, `Verified` and `RowsAgree` (`verify_with` and the row counts), and
`Rebased`, which re-addresses tables indexed by row of the whole input to the
rows a shard reads. `Fleet` runs the jobs: `LoadCut`, then `CreatePlan` and
`SavePlan` (the coarse job) or `Replay` (a data shard, or a coarse job given a
plan), then `Draw`; `Refuse` is every check that fails. Between any two steps
a job may be killed (`Crash`), the input rewritten, the shard plan cut again or
torn, or the plan's path overwritten by a run that is no shard.

### MergedTiles, ShardMerge, BandMerge

An archive is its directory: entries of an id, a run length and whether the
body lies in the tile data. The format demands that ids ascend along it, and
within a leaf they do, being coded as differences; but leaves are laid end to end
and nothing compares them, so an id may repeat or fall behind. A run may reach
over the next entry, a body may lie outside, and the runs may add up to too much:
all this is what the merges have to find.
`MergedTiles` has one action for each way through `next`: `Prime` (the first
call), `Pop`, `HandOutError`, `Dry`. `given` hands its result to the loop that
called it; the loops are `ShardMerge`, which refuses an id that does not ascend
and names the two archives, and `BandMerge`, which gathers the copies of an id
(`OpenGroup`, `JoinGroup`, `Complete`) and writes one tile of them, or, when no
bands share a zoom, copies one archive after another (`Turn`, `CopyTile`,
`NextBand`). Opening is part of both: `ShardMerge!Index` and
`BandMerge!OpenFails` are the refusals that come before a tile is copied.

## 3. What the runs check

| Run | Instance | What it shows |
|---|---|---|
| `TailWriter_crash` | 3 tiles, 2 bodies, root directory of 1 tile, 2 runs, symmetry; 1.3 M states | whenever either run dies, none of the three files reads as anything but what its writer meant (`NeverWrong`), the output is nothing or whole (`OutputWhole`), the last run's salvage is not lost (`LeftoverSurvives`), and the two paths behave as `SalvagePromise` says (`KeepsPromise`) |
| `TailWriter_doc_salvage` | violation | the salvage is lost inside an assembly with no tile appended since the checkpoint (section 6) |
| `TailWriter_doc_aside` | violation | a failing rename does not stop the run (section 6) |
| `Pass_halves` | the pipe: up to 4 items, in-flight 0 to 4; the sinks: 2 levels, 3 batches, channel of 2, 2 faults; 479 k states | the pipe is the serial loop with its error precedence, holds what it may, and returns; the sinks write what the all-RAM pass writes whenever the downgrade comes, or report something that failed, leave no thread, and return |
| `Ends_both` | the output: 3 runs, 2 names, outputs of 2 writes, every kind of entry at the path; the read: 2 workers, depth 2, batches of 2, 2 or 3 segments of up to 3 rows, 4 in all, in 2 parts, a byte limit of one batch or none; 378 k states | the path is an atomic register whose writers report truly, only the killed leave files, a link stays; the read gives the sequential reader's batches, cut for cut where the limit allows, and an outcome it could have had, no join passes the limit, and it returns |
| `Budgets_all` | conversions from no memory to plenty and unknown, 3 profiles; exports of 3 zooms, light, dense or empty; tables of 5 rows out of 6 features, 3 levels, 4 sets of options, chunks of 1, 2 shards, 2 chunks pending, slices of 2; 985 k states | what is granted together stays within the allowance but for what could not be negotiated, the second read is sized from the ledger as it is then, the read shape is the largest that fits, groups and waves hold what was affordable when they were planned; each feature has the level one thread would find (`LevelsAreSerial`), the density budget only defers, for want of room and fairly (`BudgetHolds`), and each point is counted once at each level or the refusal is for a true reason (`CountedOnce`) |
| `Counted_doc` | violation, over the same instance | with thinning off the conversion can still be refused (section 6) |
| `Tiles_both` | reads: 4 row groups of 3 bands, 3 zooms, 4 buffer and wave shapes, whole, a range, stopped tiles, no statistics; valves: every tile of up to 3 members and larger ones, any of 3 fits per encode; 214 k states | the tiles are those of one pass over the file, in order, each with its rows in file order (`TilesAsRead`); the store keeps its ceilings; a tile's members are drawn once or reported, it is over its limit only as a last resort, and every loop ends |
| `LevelRead_doc` | violation | a partitioning file exported to a range writes tiles outside it (section 6) |
| `Levels_both` | a group of 3 levels, each fault at each; 4 levels behind a prober, a point and an area at a tile border; 101 k states | the group is the serial loop; every tile is drawn once or lies under one stopped tile, which hides nothing; both return with what happened |
| `Sharding_both` | the cut: up to 4 row groups over zoom 2, 1 to 17 shards, one edit; the fleet: zooms 0 to 3, a coarse job and 2 data shards, 4 starts, 2 mishaps, 3 inputs, 4 cuts; 329 k states | the cut is a partition with fair, additive estimates; a plan that loads gives each tile one owner; the whole weight is the rows of the input; each archive built is its slice of one run over one input, and those of one plan merge to that run |
| `Merges_both` | shards: 2 archives of up to 2 entries, runs of up to 2, ids 0 to 3; bands: 2 of up to 2 entries or 3 of one, 2 zooms, 2 layers; entries in any order; 2.04 M states | the ascending union, errors named after the tiles before them, overlaps real or within a directory that falls behind; clustered on both paths, exactly the bands that hold a tile, none claimed twice for a layer, the right band to blame |

Why the bounds are enough. In `TailWriter`, three tiles over two bodies are the
least with a duplicate beside two distinct bodies; a root of one tile makes
leaves both needed and not needed; two runs are what stepping aside needs; all
three checkpoint patterns (none, one, several per run) occur because checkpoints
are not bounded. In `ScopedPipe`, four items fill a window of two with a channel
of two, and every smaller split occurs. Two levels and three batches let a
downgrade fall before, between and after pushes with a full channel, with one
level moved and the other not. Two workers and three segments make one worker
own two segments with another between them, and a part boundary can fall at
either seam. The budgets' runs reach every floor, every clamp and every early
exit, among them a limit smaller than every price. Five rows are the least with
a cell contested over a block's border and a neighbourhood that has to give some
of its share away; the grid budget makes waves of one level and of two, the pool
makes blocks of one chunk and of two, and each refusal of the cluster check
occurs. Two features share an index, the first four rows are taken in the order
of theirs, and `MIN_DENSITY_LEVEL_FEATURES` is 1 instead of 256. In `LevelRead`
the rows lie in a tile, across the middle, in the buffer of the world's edge,
beyond it and over all of it; the shapes make one wave or several, with stores
that flush once, twice and never. Tiles of up to six members reach every exit of
both valves, stalls included. Three levels are enough for a task to write levels
of two others that finished before it. Four levels, one zoom skipped and the
coarsest beyond the clamp, are the least with a stop above a stop and a level
that is never probed. In `AtomicOutput` three runs let one publish, one fail and
one be killed over the same path. Two data shards over eight by eight cells
leave each a row group unread in the middle of the input's order; two mishaps
put one before and one after the plan is saved. In the merges two entries are
the least that can overlap inside one directory, and a limit of three makes two
runs of two exceed it; ids up to three with runs of two reach the first id that
is no tile's.

Deadlock is not checked where the system ends: each of these programs returns
to its caller. That it does so is the liveness property of the run instead;
`TailWriter`, `AtomicOutput` and `Fleet` may simply stop being used, and the
merges, the cut, the budgets, the tables and the reads end with a report.

Fairness. `ScopedPipe`, `GroupCommit`, `OrderedRead`, `SpillSink` and
`VariableDepth` assume weak fairness of each thread: the operating system
schedules it, a read or write it has issued returns, and the closures it calls
return. `SizeValve` is one thread, and assumes it of that: an encode returns.
Nothing else is assumed. No fairness is given to a choice between outcomes: that
an item fails, a probe fails or a tile fits is never forced. Strong fairness is
not needed: a channel has one sender, so a `send` that could go on still can,
and the commit lock is taken once per task and once per level collected, so it
cannot be kept from a waiter for ever. `TailWriter`, `AtomicOutput` and `Fleet`
have none: a process may stop anywhere. Of the merges, the budgets, the cut and
the reads, which are sequential, only safety is stated; so it is of
`LevelAssign`, whose tasks wait for one another at barriers only.

A module's `TypeOK` is proved where the module has proofs and elsewhere
documents the state. What a refinement or a stronger property already says is
not run beside it.

Every property of a passing run has a mutant of the code, next to the
definition it mutates in the module, that breaks it.

## 4. What is proved

`LevelsProofs`, of the level groups, for every number of levels and every input:

* `GroupTyped`; `InLevelOrder`, `NothingPastError` and the action property
  `NothingFollowsTorn`, which no run repeats.
* `SerialOrder`: the concurrent group implements `SerialLevels`.

The invariant `CommitInv` adds to them what `write_ready` relies on and no
assertion says. `Cursor`: the levels behind `GroupCommit.next` are exactly those
written, or the level it stands at is used up (`Spent`: taken from `pending`,
its write gone wrong), and then it is never ready again. `Collected`, `Ended`:
what the calling thread has done and when it is through. `Locked`: the lock is
held by the one task that writes, and nobody lets go of it with a level still to
be written, but by panicking. `Explained`: what the state of a level and its
task say of its input. `Failure`: the recorded failure is of a level that was
reached, and no written level is finer. `SerialOrder` needs the last two: the
serial program must be able to fail at the level the concurrent one reports, and
each level below must have had nothing wrong with it. Assumed: `N` is a positive
natural, `Last` a Boolean, the sentinels are no naturals.

`EndsProofs`, of the archive writer, for every set of tiles and bodies, every
root capacity and every number of runs, whether or not stepping aside can fail
(but for `LeftoverIsKept`, which assumes it cannot):

* `TypeCorrect`; `NeverServesWrong`, `OutputIsWhole`, `LeftoverIsKept`: the
  run's invariants. `SectionsClear` (a live prefix never covers tile bytes),
  `SalvageReads` (a checkpoint leaves a readable salvage until the next append)
  and the action property `NoResurrection` (a drop revives nothing) are proved
  and not run.
* `PromiseKept`: the writer implements `SalvagePromise`.

`NeverWrong` is not inductive: it says nothing of a file that does not read yet.
The invariant says of *every* file that, if its prefix parses, the directory
resolves to the right bodies and nothing past the tile data is a tile body
(`Sound`). That survives a step for reasons only a live run knows:

* `Prefix`: while anything is buffered, or `tail_dirty` is set outside an
  assembly's last steps, the prefix does not parse; when `tail_dirty` is clear
  the prefix's data end is `current_offset`. So a prefix that parses describes
  every tile body there is, and neither a truncation nor a new section can take
  one away or put one past the data end.
* `Directory`: each entry of the run finds its body where `spool_holds` looks,
  in the buffer or in the file, wherever the boundary between them is now. This
  is what makes the directory written by an assembly right, and what a
  duplicate aliases.
* `Spool` and `Assembly`: how much of the file there is at each step.

For `LeftoverIsKept` the invariant `Leftover` adds where the salvage is at each
step. The refinement's only surprising case is a section landing under the old
prefix: the old archive can then become readable again before the new prefix is
written, when both have the same directory. `SeenInAssembly` shows that it then
stands for exactly the tiles added, so the step is the promise's checkpoint.

Assumed of the constants: `RootCap` and `MaxRuns` are naturals, `RenameMayFail`
is a Boolean, and the sentinels are none of the values they stand beside.

`EndsProofs`, of the atomic output, for every number of runs, names and parts:

* `OutputTyped`; `OnlyTheKilledLeave`, the run's invariant, with `NeverTorn`
  and `SiblingsApart`; `LinkKept`: its action property.
* `RegisterKept`: the runs implement `OutputRegister`.

The invariant adds what one run may rely on between two of its calls although
others go on. `Siblings`: the sibling of a run holds what that run wrote.
`ReadyToPublish`: it is complete when the run is about to rename it. `Unborn`: a
run has a sibling only while it builds, or if it was killed. `Resolved`: what
lstat, canonicalize and stat told a run stays true, because no run makes or
replaces a link, or puts a device at a destination or takes one away; so the
entry a run renames over is still the one that reading the path leads to, which
is what `RegisterKept` needs. Assumed: `Parts` is positive and the kinds of
entries are distinct.

`EndsProofs`, of the ordered read, for every plan of segments over parts, every
fault, any number of workers, channel capacity, batch size and join limit:

* `ReadTypes`; `JoinsStayBounded`, the run's action property `JoinsBounded`.
* `ReadIsSequential`, the run's property `ReadsSequentially`: workers, channels,
  merge and regrouper implement `SequentialRead`.

`Top` is the last row the merge has received. `Queued`: the batches handed on
and then the queue, end to end, are the rows 1 to `Top`, whatever was sliced on
the way. `Merging` says which segment and part `Top` is in at each place of the
loop, that less than a batch is left where the merge goes back to receive, and
that it has not got past the row where reading fails. What the interleaving
could spoil is in `Streams`: each worker has a next segment among those to come
(round-robin leaves it exactly one, `Readers`), and the messages in its channel,
one after the other, lead from the merge's place in that segment to where the
worker itself stands, each being what one reader would have met there (`Sent`,
`Linked`). So a receive moves one worker's chain and no other's (`MovedOn`,
`OthersStand`), and a worker's send moves only its far end. `Ended` says why a
worker has ended, which is what lets the merge take an empty channel for a
panic; `Explained` what the merge left with. That a batch is as long as one
reader's needs `Room`: nothing is left of a part once it has ended, and the part
of the segment at hand goes on at least to that segment's end. Where the limit
binds, the batches are shorter and nothing else is different; below two batches'
rows a queue pins three batches' worth at most (`PinsFew`), which is the limit
that never binds. Assumed: `ShapeAssumption` (batch size, workers and capacity
are positive, limits are naturals, `Ample` is three batches' worth or more).

`PassProofs`, of the pipe, for every source, every verdict of every item and
every in-flight setting:

* `TypeCorrect`; `KeepsOrder`, an invariant that the refinement implies;
  `InFlightIsBounded` (what is queued and in the window; an item that a blocked
  sender holds is beyond it), `SourceErrorReported`, `SentIsEmitted`.
* `SerialLoop`: the two threads and their channel implement `PipeContract`.

The invariant follows an item through the three places it can be: what was
emitted counts up from 1, the window goes on from there, the channel from the
window, and nothing else was sent (`InOrder`). `InHand` says what the consumer
holds at each place of its loop, `Alive` that each end of the channel lives as
long as the thread or closure that owns it. `Produced` is what the hang-up
protocol rests on: a producer that has ended came to its source's end, or a
failed send told it that the receiver was gone, and then it reports no error of
its own. `Consumed` says with what the consumer can have ended: only after the
whole of an exhausted source, at an item that asked it to stop, or at the first
item that failed. With the two, whatever the join reports is something the
serial loop could have returned. Assumed: `MaxItems` and `MaxInFlight` are
naturals, and `Pending` is none of the results it stands for the absence of.

`PassProofs`, of the sinks, for every feed, every level's choice of sink, every
capacity and any number of faults:

* `SinksTyped`; `WritersJoined`, the run's invariant `NoOrphans`.
* `SpillsAsRam`, the run's property `ActsAsRam`: the driver, its channels and its
  writer threads implement `BufferedPass`, whenever the downgrade comes.

The invariant follows one level at a time (`Flow`): its file, the batch in its
writer's hands, its queue and, from the downgrade on, the buffer that is being
moved, put end to end, are the batches the driver has handed to that level, in
the feed's order, unless that writer has failed. `Placed` and `Handed` say how
far the driver has come at each place of its loop, `Gone` that a channel's end
goes with the writer or the sender that owns it, `Blamed` that what the driver
means to report has happened to someone. The promise computes what a level
should hold by a recursion over the feed; that the recursion has a solution, and
what it gives for one more batch (`FirstRows`), is proved by the least place
where it would go wrong. Assumed: `SinkAssumption` (a level and a place in the
channel at least; the other bounds are naturals).

`ConvertProofs`, of the budget, for every run, every limit and every price:

* `GrantsTyped`; `ReadsSizedAsCharged`,
  `ConversionWithinAllowance`: the run's invariants about a conversion.

`ClosedForm` is the arithmetic: dividing the affordable batches by the least a
worker costs, then what a worker gets by what its reader takes, each clamped,
gives the largest number of workers and then the deepest queue that fit; it
needs products and quotients kept apart (`QuotientBounds`, `ProductMonotone`).
The invariant says which slots of the ledger are in use at each place
(`SlotsInUse`), so that the second read finds the ledger the first one found,
and bounds each prefix of the grants in force by the allowance and the floors
that could not be negotiated (`WithinPieces`): a later grant is sized by what
the earlier ones left, so no single bound on the sum is inductive. Assumed:
`Runs` is a set of runs of the type given, the ledger's word and fallback are
naturals, the floors are positive and in order.

`ConvertProofs`, of an export's memory, for all tiles, every limit and every
price:

* `ExportTyped`; `PlansFit` and `ExportWithinAllowance`: the run's `PlannedFits`,
  and its `WithinAllowance` of an export.

Partitions and groups are made by folds over tiles and zooms. Of a fold nothing
can be said but by an induction over its steps, and that it has a value at all
is such an induction too (`Folding`, `FoldingStays`). What the fold over the
zooms keeps is `Joined`: every group is one level or within the cap, and an open
group's sum is what its levels have (`JoinSound`). A cap is a number of members
and a group of one member may cost more than its share; that it is then one
partition follows since a partition has a member or more (`PartsInGroup`). A
wave holds no more than its width of the densest partition (`WidestBounded`),
and if its width was chosen from a price that reached the largest number of a
word, it is one (`WaveAffordable`). `ExportIInv` says which slots are in use
(`Slots`), and of the plan that its waves and groups fit (`Plans`): that is what
keeps a level's wave, which is not negotiated when it is granted, within the
allowance (`WaveFits`), and the members beside it are sized by what the wave
left (`LevelUnits`). Assumed: `Exports` is a set of exports of the type given;
prices may be unknown, caps and waves as wide as one likes.

`ConvertProofs`, of the levels, for every table, all options and every cut into
waves, blocks, chunks, shards and slices:

* `AssignTyped`; `AlwaysSerial`: the run's invariant about the levels.

`BetterOrder` and `BetterTransitive` make the comparison a strict total order of
the positions, from priorities that compare component by component. `GridInv`
says of each level what its shards have contested (`Done`): the grid holds no
two rivals, and whatever was contested and is not in the grid has a better rival
there; all behind the block's start has been contested. A contest keeps it
because rivals fall into one shard and a shard takes its features in order of
position, so that the challenger is always the later one, and "not beaten by"
and "better than" part exactly at twins. At the end of the table the winners are
therefore those that survive (`WinnersSurvive`), and `LevelsInv` carries that
through the folds: a position's level is its first one or one it survives at,
and none it has taken into account (`Seen`) is coarser. Assumed: the rows and
options are of the kinds given, and the sizes of the cut are positive.

`ConvertProofs`, of the budget of a level and of the clusters, for every table,
every grid and every weight:

* `BudgetsKept`, `EachPointCounted`: the run's `BudgetHolds` and `CountedOnce`.

`BudgetHolds` speaks of the end, when all levels have admitted. `BudgetInv` says
of every coarse level already passed that it is `Settled`: the property itself,
of what had been admitted until then. A later level admits only what none before
it did, so nothing it does can unsettle one (`SettledKept`), and budgets grow
from level to level (`BudgetsGrow`), so that a level finds those before it
within its own. What is left to show is that a level settles itself by what it
chooses (`ChosenFair`). That rests on `WaterFills`: of n units for cells that
hold more than n, the shares are n in all, no cell gets more than it holds, and
none more than a more populous cell, but for one. A cell fills up when its
weighted share is all it holds or more. Since weight grows slower than
population the least populous fill up first (`SmallerFills`); since it grows
with population the shares of the others are in the order of their populations;
and a round leaves each unit of weight as much as before, or more (`FillTakes`),
so no full cell has more than one that is not. As many rounds as there are cells
are enough (`FullSettles`). The cut inside a neighbourhood is a beginning of a
strict order (`RankCount`).

For `CountedOnce`, a point is counted at the row that represents it
(`Represented`), and there is one wherever any point is present. If no two
present rows share an entry, what the rows count parts the points, and the sizes
add up to all of them (`SumsRight`), whatever the levels are. Where points are
not thinned by cells there is no table and a row counts itself, so that the sum
is only accepted if every point is present (`AcceptedCounts`). That a level
without a point is blamed rightly needs the two stages before: the best of all
points survives at every level that thins, and the budget leaves one unit or
more (`NoneAllowed`, from `AlwaysSerial` and `BudgetsKept`). Assumed:
`BudgetAssumption`, that the drop rate is a whole number above 1 and weights
grow with population, and slower; and that coarse levels have a grid
(`StagesAssumption`).

`MergeProofs`, for all archives, whatever their directories hold, and all bands:

* `EveryCopyWritten`, `NoLayerTwice`, `BlameIsJust`: the three invariants the
  run states of the band merge.
* `UnionWritten`, `BlamedRightly`: the run's two of the shard merge. A
  success has copied every tile of every archive once, in the order of ids; a
  refusal names two archives that both hold the tile, one whose directory lists
  it after itself or after a higher id, or one whose directory is at fault, after
  all that it yields before the fault.

A directory is walked by position, not by id, because ids may repeat or descend:
`Stepping` and `Ensuing` say that a step of the iterator goes to the position
right behind those passed. `StreamInv` then says of each archive that nothing it
passed is unreadable and that its head is the tile at its cursor, and of the
tile handed out last (`Last`) that every other head comes after it, by id and
then by archive, and its own archive's head too unless that directory is at
fault (`Bad`). This is all the loop needs on the path where zooms are shared:
copies of one id come in the order of the archives (`GroupInv`), whose bands
differ in layer since they cover the same zoom (`LayersApart`), and a tile that
descends is of the archive that gave the last (`NextInv`). On the other path the
order is that of the bands' coarsest zooms: an id that descends cannot be below
one of a coarser band, so it is below one of its own (`CopyBlame`).
`CompleteInv` says where each tile passed is: written, in the open group, handed
out, or a head. The shard merge rests on the same stream: a tile the loop
accepts comes after the last one copied (`AdjacentInv`), so those copied ascend
and are all different, and as many as the tiles passed (`CopyingInv`); at the
end none is left (`EndInv`). What is refused does not ascend, and `StreamInv`
says of the archive it came from whether that is its own fault. A tile its
directory lists behind a higher id comes late, after tiles above it were copied;
of all others (`InTurn`) none is passed over (`BelowGiven`). Assumed: what
`MergedTiles` and `BandMerge` assume of their constants (naturals, directories
that are sequences of entries, zooms that ascend with ids), and that `None` is no
number and no answer of the stream (`Given`).

`TileProofs`, of the size valves, for every tile, every fill and whatever its
encodes weigh:

* `ValveTyped`; `DrawnOrReported` and `OverOnlyAtLast`, the run's
  `NothingVanishes` and `LastResort`: over its limit a tile has one feature, or
  its passes of dropping are used up, or every gap in it has merged and at most
  one feature has not, or its sheds are used up.

`ValveInv` says of each loop what is drawn (`Thinned`) out of what there is to
draw (`All`: the members, or what coalescing at the gap reached makes of them):
nothing merged is left out, nor an unmerged one while a smaller one is kept; and
that the counts account for the rest (`Reported`). That coalescing makes
features of the members, each once, with the target of each the last before it,
is `Grouping`, proved of `coalesce_members` at any gap; what
`select_kept_members` keeps is a beginning of a finite order (`Ranked`,
`KeptOf`). A gap that may be raised no further has merged everything that has
one (`NoGapLeft`). Assumed: the bounds are naturals, tiles are not empty, and
sizes are positive.

`TileProofs`, of the member store, for every file, plan, segment and ceiling:

* `StoreBounded`: the run's `BufferBounded`;
* `ReadsAgree`: the run's `TilesAsRead`.

What a store holds is a sum over its buckets, a fold over a finite set in an
order nothing is known of: it has a value (`HeldSums`), and changes by what one
bucket changes by (`HeldChanges`). `StoreInv` says that while a store fills it
is within its buffer and its grant or about to be flushed to a point below them,
and once filled is flushed to its grant; a plan splits finitely many keys, so
that there are finitely many buckets (`PlanSplit`, of the fold over the planned
keys).

That the tiles are those of one pass has four parts, and `ReadInv` joins them.

* Where things are. A plan is the planned keys in ascending order, split into
  partitions with none empty (`PlanSplit`), so a key routes to the partition
  that planned it (`RoutedTo`), and a level's waves cover its partitions once
  each (`WavesAre`). A planned key is one that some row draws; and one that a
  row draws and the export wants is planned (`WantedPlanned`).
* What a read passes. Of the rows of its groups those before the foremost one
  left are passed (`Passed`), so that the cursor gives each row the gap the file
  gives it (`GapIs`), and a row's number is its place or, in the read of the
  whole file, the count of rows read, which is the same (`ReadIs`). A group that
  is skipped has no row in a tile wanted: a row's tile lies within a tile's width
  of the row or of a copy of it a world away (`RegionCovers`, `Unread`), whatever
  the partitions' boxes are folded into, because a hull covers what it is the
  hull of. So the rows a bucket is owed are all among those to be read
  (`DueRead`).
* What a bucket holds. Until it is encoded, what it holds in RAM, what of it is
  on disk, what waits in the queue for it and what the rows left owe it are
  together what all rows owe it (`DueInv`). A row is clipped to a window of keys
  that may be wider or narrower than a bucket's (`WindowIs`), and queues exactly
  its members (`RowQueues`); `Push` and `Flush` only move them.
* What is written. A wave's members, routed afresh among its partitions, go to
  the partition that planned their key (`WaveParts`); encoded, they are each
  tile's rows in file order (`TilesDrawn`), one member for each row. So the
  archive is that of the waves before this one (`WrittenInv`), a beginning of the
  archive of one pass (`ArchiveStarts`).

`ReadsAgree` has a hypothesis, `WholeWorld`: a partitioning file read once is
exported whole. Without it the theorem is false, and `LevelRead_doc` has the
behaviour: that read clips a row to all its keys, and one outside the range is
routed to a partition that did not plan it (section 6). Assumed: the widths of
tiles are whole at every zoom (`WorldAssumption`), `KeyAssumption` and
`SetupsAssumption`.

`LevelsProofs`, of the variable-depth pyramid, for every set of rows, every
ladder of zooms, and every limit on a tile's members:

* `EveryTileOnce` and `StopsHideNothing`, the run's `EachTileOnce` and
  `StopsLoseNothing`.

The exporter draws a level while the prober goes on stopping tiles of others.
That is sound because of what `Drawing` says: every level of the run being drawn
is settled (`Known`): its stops have been received, or no tile up to it can
stop, or it is the canonical level and all others have been received. What no
stop blocks at first, none ever does (`NothingStops`), and the exporter's copy
of the stops up to a settled level is the prober's (`Settled`); `Sending` says
where the copies are in between. That no tile has two stops above it is then
arithmetic: an ancestor's ancestor is one's own (`Ancestors`, from powers of
two, which the provers know nothing of but that 2^n counts the subsets of 1..n).
A tile under a stop is not blocked, because blocking goes up (`UnderStop`), so
its counts of points agree, and with a finite band equal counts of one set
within another are equal sets (`SamePoints`); that coarse levels may draw an
area as a point breaks the inclusion, and is why a mixed band is blocked
altogether. Assumed: zooms ascend, rows are finitely many and lie in the finest
zoom (`VariableDepthAssumption`).

`ShardingProofs`, for every pivot zoom, every input, and every number of shards
that leaves each a tile:

* `CutTyped`; `CutSharesOut`, `OwnedOnce` and `WholeWeight`, the run's
  `CutIsPartition`, `OneOwner` and `WeightIsTheRows`;
* `ArchiveSlices` and `ArchivesMergeToOne`, the run's `SliceOfOneRun` and
  `MergesToOneRun`, from the invariant of `FleetInductive`.

That a plan has no empty range and none far over its share pull against each
other: a range must leave a tile for each to come (`LatestEnd`), and may then
have to close short of its share, or a last one hold more than it. `Ahead` says
why that is harmless: either the ranges so far hold the share of so many, or
all weight that is left lies in the tiles kept for those to come, of which each
takes at most one and so no more than the heaviest. Its two cases are the two
ways `Takes` can end, and `TakesItsShare` and `TakesEnough` prove one half each:
a range stops at the first tile that reaches the share, so that it exceeds it by
less than that tile. `CutEvenly` is division (`Marks`): no two of n bounds in T
tiles coincide while n <= T. `OwnedOnce` needs nothing of the cut; it is what
`check_structure` accepts, an edited plan too: ranges that follow one another
contain a tile once (`FollowOnce`), and a descendant's place divided by the
tiles under one pivot tile is its ancestor's place (`QuotientBetween`). Weights
are sums, a fold over a finite set in an order nothing is known of; `Summing` is
what the cut uses of them. `WholeWeight` sums a table of groups and tiles once
by groups and once by tiles (`SumSwap`), each row of it being a group's rows
without a remainder (`SharedOut`); that the rows held back have a tile to go to
(`ExtentHolds`) is the only place where the curve comes in. Assumed:
`ZoomAssumption` and `CutAssumption`, that zooms and shard counts are naturals,
the pivot is one a plan may have, and groups cover tiles of the pivot zoom; and
`ScaleAssumption`, that a row can be shared out evenly among any number of tiles
of the pivot zoom, which makes exact here what the code computes in floats.

`FleetInv` says what a job knows. The two files, if whole, are a shard plan and
a convert plan saved over one of the inputs (`CutFiled`, `PlanFiled`). A job that
has its plan holds the very input the plan was saved over, under the cut and the
options it was saved with, and its tables hold, row by row of the stream it reads,
what the one run assigned to that row (`Working`, `Tabled`); an archive is the
job's part of the one run (`Archived`). Each check of `verify_with` has its step
in the proof of `ReplayKeeps`. What is left is that a job with such tables draws
its part and no less, and that has three sides.

* The curve. A tile's descendants follow one another on the curve of each zoom
  below (`CurveNesting`, `CurveAbove`), so that the ids a range owns at a zoom are
  the tiles under its own (`PlaceAbove`). The curve is a recursive function; what
  is proved of it goes from one zoom to the next (`CurveNext`) by a least
  counterexample.
* The margin. A row drawn in a tile of the range lies within `Buffer` of it, so
  its row group's box comes within the margin the job reads (`ReachesRow`): a row
  group that is skipped has nothing to draw. This is where `Buffer <= ReadMargin`
  is needed.
* The addresses. The runs `Kept` finds are those of the shard's stream in the
  plan's (`KeptMatches`, one step of the walk at a time, `WalkMatches`); a table
  compacted to them, and a side table moved by them, is the table of the shard's
  rows (`Compacts`, `SidesMove`, `Rebases`).

`OneJob` then gives each feature's tile one job: the coarse job above the pivot,
below it the owner that `PlanOwns` finds. Assumed: `FleetAssumption` (`N` is
positive, `Buffer` at most `ReadMargin`); `InputsAssumption`, that the statistics
of a row group are true of its rows; `StampsAssumption`, that a file rewritten
has another size, modification time or entity tag, which is all that the code
can tell two files by, and without which no plan could be bound to its input;
`SelectionsAssumption` and `CutsAssumption`, on the shape of what a job is given.

What stays with TLC. Liveness under fairness and everything about `ENABLED`,
which the prover has no means for: `PassReturns`, `ReadReturns`, `LevelsReturn`,
`ValveEnds`. Every invariant that a passing run checks is stated by a theorem.

Two limits of the provers shape the proofs. The library's induction theorems
take an operator as a parameter and cannot be used; where induction is needed,
the least counterexample of a set of naturals is refuted (`Smallest` and its
likes). And a fold is a recursive function over the parts of a set: what is
proved of it is proved from the equation the function satisfies (`SumProofs`,
`Summing`: what a sum over a finite set is, in whatever order it was taken).

## 5. What is not modelled

* Power loss. The tail writer syncs, but the models let a finished write stay;
  the code claims no more for a partial than process death.
* The packed layout (`with_temp_dir`), the directory's varint codec, the hash
  buckets of the dedup index: a hit is compared byte for byte, so a collision
  is a miss.
* Programs other than this one that change the output directory, network file
  systems where an exclusive creation or a rename is not atomic, and a removal of
  a sibling or of a probe that fails.
* In the merges: the metadata, bounds and compression that inputs have to agree
  on, and the layer names inside the tiles. Nor does `merge` compare the convert
  plans of what it joins; `MergesToOneRun` is therefore about archives of one
  plan.
* In a sharded build: an input replaced while a job holds it open, a rewrite
  that leaves size, modification time and entity tag as they were, `auto`
  maximum zooms, a load of a plan in several reads, geometries wider than a
  cell of the finest zoom, and how pass 1 decides a row's level (an input there;
  `WinnerTables` is about a run by itself). The rows of `Fleet` lie in the world
  and its inputs are duplicating files, which is what every build through the
  command line reads; a caller of the library who shards a partitioning file
  meets what `LevelRead_doc` shows, tiles outside a job's range.
* Of the tables: the second coordinate, sort keys that saturate or are no
  number, the hash (any numbers) and the floats of `water_fill` (exact fractions
  here); how the ladder gives a row its level (an input), the aggregates of
  attributes over a cluster, the coalescing of lines and the carriers of tiny
  polygons.
* Of the budget: the sampler that watches resident memory, the probes of
  `/proc` and cgroups, and the disk budget of the spills.
* Of an export's tiles: attributes, geometry and its precision, how the fill's
  features are built, the gzip cache, profiles and metadata. In `LevelRead`
  levels are read one after the other, and the pipe that reads is `ScopedPipe`,
  modelled apart; an input without usable bounds (EPSG:3857) is one without
  statistics.
* Object-store input, the Arrow and Parquet libraries, MVT encoding,
  compression, clipping, simplification and the rest of the geometry: pure
  functions or libraries, whose results are payloads here.
* The parts with no module yet; see section 7.

`PROJECT.json` gives the status of each component.

## 6. Where code and documentation differ

* `with_tail_layout` documents the partial as readable after a checkpoint "if
  no tile has been appended since". An assembly drops the old tail before the
  new prefix lands, so death inside a second assembly loses the salvage although
  nothing was appended (`TailWriter_doc_salvage`). Nothing wrong is served:
  `NeverWrong` holds there.
* `with_tail_layout` documents an error when an earlier partial cannot be moved
  aside; the code warns and overwrites it (`TailWriter_doc_aside`).
* `tile_range` is documented to keep tiles outside the range from being
  clipped or encoded. The one read of a partitioning file clips over every key,
  and `route_partition` sends a key that is in no partition to the one before
  it, so a release build writes tiles outside the range; a debug build stops at
  an assertion (`LevelRead_doc`, `core/overview/export.rs:5085`). The other two
  ways of reading clip to the range.
* No run is about this one: the comment at `core/overview/export.rs:8150` has
  the merge valve drop unmerged features until "only merged features" are left.
  `merge_to_fit` does ask for none, but `select_kept_members` keeps at least one
  of what it is given. `LastResort` states what the code does.
* No run is about this one either, but `RefusalsAreTrue` states it: `merge` says
  in its error (`core/lib.rs:646`) that an archive named with itself addresses an
  id more than once. It also names one so whose directory lists the id once, but
  behind a higher one (`core/merge.rs:309`), which nothing upstream rules out
  (`core/pyramid.rs:1228`). To refuse is right there, the reason given is not.
* The comment on the cluster tables has it that with thinning off "every point
  survives at every level", so that no table is needed. The density budget, on
  by default for points, defers some of them all the same, and the check of the
  sum then refuses the conversion (`Counted_doc`, `core/overview/cluster.rs:261`).
* No run is about these two. `estimate_level_grid_bytes` is documented as biased
  high; it counts `extent / width + 1` columns, one fewer than an extent that is
  not aligned with the grid can touch, and at a level of points it takes a
  polygon's own factor, not the one it is thinned by. What follows is a wave
  that holds more than its budget, not a wrong level. `AssignFeature::entry_level`
  is documented as authoritative for a row on the ladder; the density budget may
  defer such a row, as the tuning guide says it does.

## 7. Plan

Built so far, most important first: the archive writer; the pipe, the sinks and
the ordered reader; the level groups; the atomic outputs; the merges; the
budgets; the variable-depth pyramid; the sharded build; the reading of levels
and the size valves; the tables of the first pass; eight modules of proofs and
lemmas.

Next, more of the system:

1. `filter.rs`: pruning of row groups by an expression over statistics, against
   evaluating it on every row.
2. `input.rs`: staging of remote parts, with its retries and byte budget.
3. `DedupStore` and the packed layout: the index's buckets, the spill of bodies,
   and finalisation by copying.
4. `coalesce.rs`: chains of lines and the carriers of tiny polygons, over the
   levels of `WinnerTables`.
5. The RSS sampler of the streaming levels, which must stop when a level fails.
6. A conversion and the export after it on one ledger, in place of `held`.
