----------------------------- MODULE LevelRead -----------------------------
(***************************************************************************)
(* export.rs, pass 2: a level's rows are read, clipped into the tiles they *)
(* touch and encoded a wave of partitions at a time.  There are three ways *)
(* to read them: one read of the whole file for every level, into a store  *)
(* of buckets that spill; one read of a level into a store of its own; a   *)
(* read per wave.  The last two skip the row groups whose bounds lie off   *)
(* the tiles wanted.  The tiles are to be the same.                        *)
(*                                                                         *)
(* The world is [0, World), and a tile a column of it.  A row is the       *)
(* extent <<lo, hi>> of its geometry, which may lie off the world, or      *)
(* empty; a file is a sequence of row groups [band, rows].  Level z is     *)
(* drawn at zoom z.  A tile's key is its place along the curve, given by   *)
(* Key.  The clip keeps a member of every tile the extent and its buffer   *)
(* touch, and a member's bytes are one.                                    *)
(***************************************************************************)
EXTENDS Integers, Sequences, FiniteSets, SequencesExt, FiniteSetsExt

CONSTANTS
  Setups,    \* the exports there may be, see Init
  Levels,    \* number of levels of the file
  World,     \* width of the world
  Key,       \* key of each column at each zoom
  Segment    \* SPILL_SEGMENT_MEMBERS

ASSUME WorldAssumption ==
  /\ Levels \in Nat \ {0} /\ World \in Nat \ {0}
  /\ \A l \in 0..(Levels + 1) : World % 2^l = 0

\* A zoom's columns have keys of their own.
ASSUME KeyAssumption ==
  \A l \in 0..(Levels - 1) :
    LET columns == 0..(2^l - 1)
    IN /\ Key[l] \in [columns -> Nat]
       /\ \A c, d \in columns : Key[l][c] = Key[l][d] => c = d

\* The extent of a row, if it has a geometry.
Spans == {<<>>} \cup {e \in Int \X Int : e[1] <= e[2]}

\* What an export is given: its file, a buffer no wider than a tile, how large
\* its store may be, how many partitions a wave has, and finitely many tiles,
\* all those of a range but when they are picked.
ASSUME SetupsAssumption ==
  /\ Segment \in Nat
  /\ \A s \in Setups :
       /\ s.file \in Seq([band : Nat, rows : Seq(Spans)])
       /\ s.pixels \in 0..4
       /\ {s.buffer, s.resident} \subseteq Nat /\ s.wave \in Nat \ {0}
       /\ \A l \in 0..(Levels - 1) :
            /\ s.tiles[l] \subseteq Nat /\ IsFiniteSet(s.tiles[l])
            /\ ~s.picked => \A j, k \in s.tiles[l] : j..k \subseteq s.tiles[l]

VARIABLES
  run,       \* the export
  plan,      \* of each level, its partitions, each its planned keys
  pc,        \* "next", "read", "finish", "done" or "failed"
  z, wave,   \* the next level and wave to encode
  rows,      \* rows left to read, a set of <<group, index>>
  read,      \* rows read so far
  prev,      \* <<group, row>> of the last row with a geometry
  todo,      \* members of the last row not yet in the store
  held,      \* members of each <<level, wave>> in RAM
  spilled,   \* members of each on disk
  buffer,    \* the store's ceiling for the fill
  resident,  \* what it may keep after the fill
  pushed,    \* members ever pushed, counted to Segment
  floor,     \* flush down to here
  written    \* the archive's tiles

vars == <<run, plan, pc, z, wave, rows, read, prev, todo, held, spilled,
          buffer, resident, pushed, floor, written>>

Zooms == 0..(Levels - 1)
NoRow == <<0, -1>>
File == run.file

-----------------------------------------------------------------------------
(* Membership *)

Width(l) == World \div 2^l
Buffer(l) == (Width(l) * run.pixels) \div 4

\* The world copies of a row that reach the grid.
Shifts(row, l) ==
  {s \in {-World, 0, World} :
     LET lo == row[1] + s
         hi == row[2] + s
     IN IF s = 0 THEN hi >= -Buffer(l) /\ lo <= World + Buffer(l)
                 ELSE hi > -Buffer(l) /\ lo < World + Buffer(l)}

ColumnAt(p, l) == Min({Max({0, Min({p, World})}) \div Width(l), 2^l - 1})

\* The keys of the tiles a row has a member in: one each.
KeysOf(row, l) ==
  IF row = <<>> THEN {}
  ELSE UNION {{Key[l][c] : c \in ColumnAt(row[1] + s - Buffer(l), l)
                                   .. ColumnAt(row[2] + s + Buffer(l), l)} :
                s \in Shifts(row, l)}

\* The row groups a level draws: its own band, or all to it.
Draws(g, l) == IF run.partitioning THEN File[g].band <= l ELSE File[g].band = l

Places == UNION {{<<g, i>> : i \in DOMAIN File[g].rows} : g \in DOMAIN File}
RowAt(p) == File[p[1]].rows[p[2]]

Ahead(p, q) == p[1] < q[1] \/ (p[1] = q[1] /\ p[2] < q[2])

\* The row's place in the file.
Global(p) == Cardinality({q \in Places : Ahead(q, p)})

-----------------------------------------------------------------------------
(* The plan *)

Count(key, l) ==
  Cardinality({p \in Places : Draws(p[1], l) /\ key \in KeysOf(RowAt(p), l)})

\* What the scan counted, less what lies outside the export's tiles.
PlannedKeys(l) == {k \in run.tiles[l] : Count(k, l) > 0}

Ascending(S) == [i \in 1..Cardinality(S) |->
                   CHOOSE k \in S : Cardinality({n \in S : n < k}) = i - 1]

Members(part, l) == MapThenSumSet(LAMBDA k : Count(k, l), ToSet(part))

\* plan_partitions: ascending keys, a partition closed at the target.
Partitions(l) ==
  FoldLeft(LAMBDA ps, k :
             IF ps # <<>> /\ Members(Last(ps), l) < run.target
               THEN Append(Front(ps), Append(Last(ps), k))
               ELSE Append(ps, <<k>>),
           <<>>, Ascending(PlannedKeys(l)))

Parts(l) == 1..Len(plan[l])
WaveOf(part) == (part - 1) \div run.wave + 1
Waves(l) == 1..(IF plan[l] = <<>> THEN 0 ELSE WaveOf(Len(plan[l])))

\* route_partition: the last partition of those from a to b to start at or
\* before the key, or the first.
Routed(l, a, b, key) == Max({a} \cup {i \in a..b : plan[l][i][1] <= key})

-----------------------------------------------------------------------------
(* Pruning *)

Hull(boxes) == IF boxes = {} THEN {}
               ELSE {<<Min({b[1] : b \in boxes}), Max({b[2] : b \in boxes})>>}

West(b) == 2 * b[2] <= World
Grown(boxes, l) == {<<b[1] - Width(l), b[2] + Width(l)>> : b \in boxes}

TileBox(key, l) ==
  LET c == CHOOSE c \in DOMAIN Key[l] : Key[l][c] = key
  IN <<c * Width(l), (c + 1) * Width(l)>>

\* The two sides of a partition's region.
WestSide(part, l) == Grown(Hull({b \in {TileBox(k, l) : k \in ToSet(part)} : West(b)}), l)
EastSide(part, l) == Grown(Hull({b \in {TileBox(k, l) : k \in ToSet(part)} : ~West(b)}), l)

\* Where the rows of partitions a to b may lie: around each tile when few of
\* a range's tiles are drawn, else around the partitions, each later one
\* added to the side its grown box falls on.
Region(l, a, b) ==
  IF run.picked
    THEN Grown({TileBox(k, l) : k \in UNION {ToSet(plan[l][i]) : i \in a..b}}, l)
    ELSE LET later == UNION {WestSide(plan[l][i], l) \cup EastSide(plan[l][i], l) :
                               i \in (a + 1)..b}
         IN Hull(WestSide(plan[l][a], l) \cup {x \in later : West(x)})
            \cup Hull(EastSide(plan[l][a], l) \cup {x \in later : ~West(x)})

\* Mutant: rows stored a world away are forgotten.
Boxes_StoredOnly(l, a, b) == Region(l, a, b)

\* Rows stored a world away are drawn too.
Boxes(l, a, b) == {<<x[1] + s, x[2] + s>> : x \in Region(l, a, b), s \in {-World, 0, World}}

\* The bounds in a row group's statistics.
Bounds(g) == Hull(ToSet(File[g].rows) \ {<<>>})

\* A row group without bounds is read.
Reads(g, l, a, b) ==
  /\ Draws(g, l)
  /\ run.stats => \A s \in Bounds(g) :
                    \E x \in Boxes(l, a, b) : s[1] <= x[2] /\ x[1] <= s[2]

RowsOf(G) == {p \in Places : p[1] \in G}

\* They come in file order.
Foremost(P) == CHOOSE p \in P : \A q \in P : ~Ahead(q, p)

-----------------------------------------------------------------------------
Single == run.partitioning /\ ~run.legacy
Stored(l) == Single \/ (~run.legacy /\ Cardinality(Waves(l)) > 1)

Buckets == UNION {{<<l, w>> : w \in Waves(l)} : l \in Zooms}
Buffered == MapThenSumSet(LAMBDA k : Cardinality(held[k]), DOMAIN held)
Flushing == Buffered > floor

\* Nothing to flush to.
NoFloor == Cardinality(Places) * 2^Levels

\* setup: the file, whether it has bounds, the tiles of the export at each
\* zoom and whether they are picked one by one (variable depth), how it is
\* partitioned and buffered, whether its store spills and at what size.
Init ==
  /\ run \in Setups
  /\ plan = [l \in Zooms |-> Partitions(l)]
  /\ pc = "next" /\ z = 0 /\ wave = 1
  /\ rows = {} /\ read = 0 /\ prev = NoRow /\ todo = <<>>
  /\ held = <<>> /\ spilled = <<>>
  /\ buffer = run.buffer /\ resident = 0 /\ pushed = 0 /\ floor = NoFloor
  /\ written = <<>>

\* A read of the rows of G, into empty buckets B.
Start(G, B, res) ==
  /\ pc' = "read" /\ rows' = RowsOf(G)
  /\ read' = 0 /\ prev' = NoRow
  /\ held' = [k \in B |-> {}] /\ spilled' = [k \in B |-> {}]
  /\ buffer' = run.buffer /\ resident' = res /\ pushed' = 0 /\ floor' = NoFloor
  /\ UNCHANGED <<run, plan, z, wave, todo, written>>

\* fill_member_store: every band once, for every level.
ReadFile ==
  /\ pc = "next" /\ z = 0 /\ wave = 1 /\ Single /\ held = <<>>
  /\ Start(DOMAIN File, Buckets, 0)

\* fill_level_store: the level once, for its waves.
ReadLevel ==
  /\ pc = "next" /\ ~Single /\ z < Levels /\ wave = 1 /\ Stored(z)
  /\ Start({g \in DOMAIN File : Reads(g, z, 1, Len(plan[z]))},
           {k \in Buckets : k[1] = z}, run.resident)

FirstPart(l, w) == (w - 1) * run.wave + 1
LastPart(l, w) == Min({w * run.wave, Len(plan[l])})

\* process_wave: the level for one wave.
ReadWave ==
  /\ pc = "next" /\ ~Single /\ z < Levels /\ wave \in Waves(z) /\ ~Stored(z)
  /\ Start({g \in DOMAIN File : Reads(g, z, FirstPart(z, wave), LastPart(z, wave))},
           {<<z, wave>>}, 0)

\* The levels a row is clipped for.
Targets(g) == IF Single THEN {l \in Zooms : File[g].band <= l /\ plan[l] # <<>>} ELSE {z}

\* The keys it is clipped to: all of them, or from the first tile of the
\* partitions read to the last, or those tiles alone.
Window ==
  LET ws == {k[2] : k \in DOMAIN held}
      parts == FirstPart(z, Min(ws)) .. LastPart(z, Max(ws))
      wanted == UNION {ToSet(plan[z][i]) : i \in parts}
  IN IF Single THEN Nat ELSE IF run.picked THEN wanted ELSE Min(wanted) .. Max(wanted)

\* One row's members.  Its gap is to the row with a geometry before it in its
\* row group.
Row ==
  /\ pc = "read" /\ rows # {} /\ todo = <<>>
  /\ LET p == Foremost(rows)
         gap == IF prev[1] = p[1] THEN prev[2] ELSE -1
         seq == IF Single THEN read ELSE Global(p)
         Of(l) == LET ks == Ascending(KeysOf(RowAt(p), l) \cap Window)
                  IN [i \in DOMAIN ks |-> [level |-> l, key |-> ks[i], seq |-> seq,
                                           gap |-> gap, band |-> File[p[1]].band]]
     IN /\ todo' = FlattenSeq([i \in 1..Levels |->
                     IF i - 1 \in Targets(p[1]) THEN Of(i - 1) ELSE <<>>])
        /\ prev' = IF RowAt(p) = <<>> THEN prev ELSE <<p[1], Global(p)>>
        /\ rows' = rows \ {p}
  /\ read' = read + 1
  /\ UNCHANGED <<run, plan, pc, z, wave, held, spilled, buffer, resident,
                 pushed, floor, written>>

Spills == run.spill /\ Stored(z)

\* MemberStore::push: into its wave's bucket.  The first segment's members
\* price the buffer; over the ceiling the store flushes half of the buffer.
Push ==
  /\ pc = "read" /\ todo # <<>> /\ ~Flushing
  /\ LET m == Head(todo)
         b == <<m.level, WaveOf(Routed(m.level, 1, Len(plan[m.level]), m.key))>>
         need == 2 * Segment * Cardinality(DOMAIN held)
         room == IF pushed + 1 = Segment THEN Min({buffer, need}) ELSE buffer
     IN /\ held' = [held EXCEPT ![b] = @ \cup {m}]
        /\ pushed' = Min({pushed + 1, Segment})
        /\ buffer' = room
        /\ floor' = IF Spills /\ Buffered + 1 > room + resident
                      THEN room + resident - room \div 2
                      ELSE NoFloor
  /\ todo' = Tail(todo)
  /\ UNCHANGED <<run, plan, pc, z, wave, rows, read, prev, spilled, resident, written>>

\* The largest bucket, the first of its size.
Largest(b) ==
  \A c \in DOMAIN held :
    \/ Cardinality(held[c]) < Cardinality(held[b])
    \/ /\ Cardinality(held[c]) = Cardinality(held[b])
       /\ c = b \/ Ahead(b, c)

Flush(b) ==
  /\ pc \in {"read", "finish"} /\ Flushing /\ Largest(b)
  /\ spilled' = [spilled EXCEPT ![b] = @ \cup held[b]]
  /\ held' = [held EXCEPT ![b] = {}]
  /\ UNCHANGED <<run, plan, pc, z, wave, rows, read, prev, todo, buffer,
                 resident, pushed, floor, written>>

\* Mutant: what the fill leaves in RAM stays there.
Finish_KeepsAll ==
  /\ pc = "read" /\ rows = {} /\ todo = <<>> /\ ~Flushing
  /\ pc' = "finish" /\ floor' = NoFloor
  /\ UNCHANGED <<run, plan, z, wave, rows, read, prev, todo, held, spilled,
                 buffer, resident, pushed, written>>

\* finish_fill: down to what the store may keep.
Finish ==
  /\ pc = "read" /\ rows = {} /\ todo = <<>> /\ ~Flushing
  /\ pc' = "finish" /\ floor' = IF Spills THEN resident ELSE NoFloor
  /\ UNCHANGED <<run, plan, z, wave, rows, read, prev, todo, held, spilled,
                 buffer, resident, pushed, written>>

-----------------------------------------------------------------------------
(* Encoding *)

Fields(m) == [seq |-> m.seq, gap |-> m.gap, band |-> m.band]

\* encode_members: the tiles of a partition by key, each with its members by
\* row.
Tiles(ms) ==
  LET ks == Ascending({m.key : m \in ms})
      In(key) == {m \in ms : m.key = key}
      Rank(m, key) == Cardinality({n \in In(key) : n.seq < m.seq}) + 1
  IN [i \in DOMAIN ks |->
        [level |-> z, key |-> ks[i],
         members |-> [j \in 1..Cardinality({m.seq : m \in In(ks[i])}) |->
                        Fields(CHOOSE m \in In(ks[i]) : Rank(m, ks[i]) = j)]]]

\* One wave's members, from disk and from RAM, encoded a partition at a time
\* and written in order.
Encode(b) ==
  /\ LET a == FirstPart(z, wave)
         n == LastPart(z, wave)
         ms == spilled[b] \cup held[b]
         Part(i) == {m \in ms : Routed(z, a, n, m.key) = i}
     IN written' = written \o FlattenSeq([i \in 1..(n - a + 1) |-> Tiles(Part(a + i - 1))])
  /\ held' = [held EXCEPT ![b] = {}] /\ spilled' = [spilled EXCEPT ![b] = {}]
  /\ wave' = wave + 1
  /\ UNCHANGED <<run, plan, z, rows, read, prev, todo, buffer, resident, pushed, floor>>

\* Of what the read before it filled.
EncodeWave ==
  /\ pc = "finish" /\ ~Flushing
  /\ <<z, wave>> \in DOMAIN held
  /\ Encode(<<z, wave>>)
  /\ pc' = IF Stored(z) THEN "finish" ELSE "next"

\* The level's waves are written.
NextLevel ==
  /\ pc \in {"next", "finish"} /\ ~Flushing
  /\ z < Levels /\ wave \notin Waves(z)
  /\ Single => pc = "finish"
  /\ z' = z + 1 /\ wave' = 1
  /\ pc' = IF z' = Levels THEN "done" ELSE IF Single THEN "finish" ELSE "next"
  /\ UNCHANGED <<run, plan, rows, read, prev, todo, held, spilled, buffer,
                 resident, pushed, floor, written>>

\* A read or a write fails, and the export with it.
Fail ==
  /\ pc \in {"read", "finish"}
  /\ pc' = "failed"
  /\ UNCHANGED <<run, plan, z, wave, rows, read, prev, todo, held, spilled,
                 buffer, resident, pushed, floor, written>>

Stop == pc \in {"done", "failed"} /\ UNCHANGED vars

Next ==
  \/ ReadFile \/ ReadLevel \/ ReadWave \/ Row \/ Push \/ Finish
  \/ \E b \in DOMAIN held : Flush(b)
  \/ EncodeWave \/ NextLevel \/ Fail \/ Stop

Spec == Init /\ [][Next]_vars

-----------------------------------------------------------------------------
TypeOK ==
  /\ run \in Setups /\ plan \in [Zooms -> Seq(Seq(Nat))]
  /\ pc \in {"next", "read", "finish", "done", "failed"}
  /\ z \in 0..Levels /\ wave \in Nat \ {0}
  /\ read \in Nat /\ pushed \in 0..Segment /\ floor \in 0..NoFloor
  /\ buffer \in Nat /\ resident \in Nat
  /\ DOMAIN held = DOMAIN spilled

\* The row with a geometry before p in its row group.
Before(p) ==
  LET own == {q \in Places : q[1] = p[1] /\ q[2] < p[2] /\ RowAt(q) # <<>>}
  IN IF own = {} THEN -1 ELSE Max({Global(q) : q \in own})

\* A tile as one pass over the file gives it: every row it draws, in file
\* order.
TileOf(l, key) ==
  LET own == {p \in Places : Draws(p[1], l) /\ key \in KeysOf(RowAt(p), l)}
      Nth(i) == CHOOSE p \in own : Cardinality({q \in own : Ahead(q, p)}) = i - 1
  IN [level |-> l, key |-> key,
      members |-> [i \in 1..Cardinality(own) |->
        [seq |-> Global(Nth(i)), gap |-> Before(Nth(i)), band |-> File[Nth(i)[1]].band]]]

\* The tiles of a partition, of a level and of them all.
Drawn(l, part) == [j \in DOMAIN part |-> TileOf(l, part[j])]
DrawnLevel(l) == FlattenSeq([i \in Parts(l) |-> Drawn(l, plan[l][i])])
Archive == FlattenSeq([i \in 1..Levels |-> DrawnLevel(i - 1)])

\* Whatever way a level is read, and whatever is skipped, split into waves or
\* spilled on the way, the archive is that of one pass over the file: every
\* planned tile once and in order, each with all of its rows in file order
\* and each row with the distance and the band the file gives it; and no
\* tile is written ahead of its place (the byte identity that
\* fill_level_store and the comment before MemberStore claim).
TilesAsRead ==
  /\ written # <<>> => IsPrefix(written, Archive)
  /\ pc = "done" => Len(written) = Len(Archive)

\* A store that spills keeps its ceiling: between flushes no more than its
\* buffer and its grant while it fills, one member more while it flushes,
\* and its grant alone while it is drained (MemberStore::push, finish_fill).
BufferBounded ==
  z < Levels /\ Spills /\ ~Flushing =>
    /\ pc = "read" => Buffered <= buffer + resident
    /\ pc = "finish" => Buffered <= resident

\* The tiles of an export are those it was asked for: a tile outside its
\* range is never written (ExportOptions::tile_range).
OnlyPlannedTiles ==
  \A i \in DOMAIN written : written[i].key \in run.tiles[written[i].level]
=============================================================================
