------------------------------ MODULE MCTiles ------------------------------
(* The two ends of drawing a level's tiles, for TLC: the reads that give    *)
(* each tile its members (LevelRead), and the valves that make a tile of    *)
(* them fit its size (SizeValve).  A tile's members are all the second      *)
(* knows of the first, so a behaviour is one of either.                     *)
EXTENDS LevelRead, SizeValve

CONSTANT Parted   \* which of the two there are
VARIABLE part     \* which of the two

-----------------------------------------------------------------------------
(* The exports *)

KeyMC == [l \in 0..2 |->
            CASE l = 0 -> [c \in {0} |-> 0]
              [] l = 1 -> [c \in 0..1 |-> c]
              [] OTHER -> [c \in 0..3 |-> <<0, 1, 3, 2>>[c + 1]]]

AllTiles == [l \in 0..2 |-> 0..(2^l - 1)]
\* A shard's range, and the tiles left where z1's second stopped.
Slice(lo, hi) == [l \in 0..2 |-> IF l = 2 THEN lo..hi ELSE {}]
Picked == [l \in 0..2 |-> CASE l = 0 -> {0} [] l = 1 -> {0, 1} [] OTHER -> {0, 3}]

\* A point, a pair across the middle, one at the edge of the world, one
\* beyond it, one in a far column, the world, and a row without a geometry.
Extents == {<<1, 1>>, <<7, 9>>, <<15, 16>>, <<17, 18>>, <<0, 16>>, <<>>}

Group(b, rs) == [band |-> b, rows |-> rs]

FileOf(a, b, c, d) ==
  <<Group(0, <<a, <<5, 6>>>>), Group(1, <<b>>),
    Group(2, <<c, d>>), Group(2, <<<<12, 12>>, c>>)>>

Files == {FileOf(a, b, c, d) : a \in {<<7, 9>>, <<17, 18>>}, b \in {<<-2, -1>>, <<1, 1>>},
                               c \in Extents, d \in {<<>>, <<15, 16>>, <<10, 11>>}}

Setup(f, s, pa, le, ti, pi, sh) ==
  [file |-> f, stats |-> s, partitioning |-> pa, legacy |-> le, tiles |-> ti, picked |-> pi,
   pixels |-> sh.pixels, target |-> sh.target, wave |-> sh.wave, spill |-> sh.spill,
   buffer |-> sh.buffer, resident |-> sh.resident]

Shape(px, t, w, sp, b, r) ==
  [pixels |-> px, target |-> t, wave |-> w, spill |-> sp, buffer |-> b, resident |-> r]

Shapes == {Shape(0, 1, 1, FALSE, 4, 0), Shape(1, 1, 2, TRUE, 2, 0), Shape(1, 2, 1, TRUE, 4, 3),
           Shape(4, 3, 1, TRUE, 3, 1)}

SetupsMC ==
  {Setup(f, TRUE, FALSE, le, AllTiles, FALSE, sh) : f \in Files, le \in BOOLEAN, sh \in Shapes}
  \cup {Setup(f, TRUE, TRUE, le, AllTiles, FALSE, sh) : f \in Files, le \in BOOLEAN, sh \in Shapes}
  \cup {Setup(f, TRUE, FALSE, FALSE, Slice(1, 2), FALSE, sh) : f \in Files, sh \in Shapes}
  \cup {Setup(f, TRUE, FALSE, FALSE, Picked, TRUE, sh) : f \in Files, sh \in Shapes}
  \cup {Setup(f, FALSE, FALSE, FALSE, AllTiles, FALSE, sh) : f \in Files, sh \in Shapes}

\* export-pmtiles of a partitioning file to one range of a zoom.
RangeSetups ==
  {Setup(FileOf(<<7, 9>>, <<1, 1>>, <<0, 16>>, <<10, 11>>), TRUE, TRUE, FALSE, Slice(1, 2),
         FALSE, sh) : sh \in Shapes}

-----------------------------------------------------------------------------
(* The tiles: every one of up to three members out of polygons of two       *)
(* bands, a line and a point, and larger ones with several gaps.            *)

M(kind, gap, band, size) ==
  [kind |-> kind, gap |-> gap, band |-> band, size |-> size]
P(gap, size) == M("polygon", gap, 0, size)

TileMembers == {P(9, 4), P(1, 5), P(3, 4), M("polygon", 1, 1, 6),
              M("line", 3, 0, 2), M("point", 1, 0, 1)}

TilesMC ==
  UNION {[1..n -> TileMembers] : n \in 1..3}
    \cup {<<P(9, 3), P(2, 6), P(4, 5), P(1, 2), P(3, 4)>>,
          <<P(9, 3), P(9, 6), P(9, 5), P(1, 2), P(9, 4)>>,
          <<P(9, 3), M("line", 9, 0, 2), P(2, 2), M("line", 2, 0, 3),
            P(4, 7), M("point", 9, 0, 1)>>,
          [i \in 1..5 |-> M("point", 9, 0, 1)]}

-----------------------------------------------------------------------------
MCVars == <<vars, valveVars, part>>

IdleRun == CHOOSE s \in Setups : TRUE
IdleTile == <<P(9, 4)>>

MCInit ==
  /\ \/ part = "read" /\ tile = IdleTile /\ fill = 0 /\ valve = "drop"
     \/ part = "valve" /\ run = IdleRun
  /\ part \in Parted
  /\ Init /\ ValveInit

InRead == part = "read" /\ UNCHANGED <<part, valveVars>>
InValve == part = "valve" /\ UNCHANGED <<part, vars>>

MCNext ==
  \/ InRead /\ ReadFile
  \/ InRead /\ ReadLevel
  \/ InRead /\ ReadWave
  \/ InRead /\ Row
  \/ InRead /\ Push
  \/ InRead /\ Finish
  \/ InRead /\ \E b \in DOMAIN held : Flush(b)
  \/ InRead /\ EncodeWave
  \/ InRead /\ NextLevel
  \/ InRead /\ Fail
  \/ InValve /\ Drop
  \/ InValve /\ Merge
  \/ InValve /\ Raise
  \/ InValve /\ Shed
  \/ InValve /\ Fill

\* The valve's thread runs; nothing is asked of the reads.
MCSpec == MCInit /\ [][MCNext]_MCVars /\ WF_MCVars(InValve /\ ValveNext)

\* Every loop of the valve ends (SizeValve.Finishes).
ValveEnds == part = "valve" => Finishes

=============================================================================
