------------------------------ MODULE MCMerges ------------------------------
(* The two merges for TLC.  They are different commands over the same       *)
(* stream of tiles: a behaviour is one of the shards' or one of the bands'. *)
EXTENDS BandMerge, ShardMerge, TLC

CONSTANT MaxId    \* bound: the tile id of an entry, of a shard's archive

VARIABLE part    \* which merge runs

\* In any order: two entries may come from two leaves.
Directories(ids, entries) ==
  UNION {[1..n -> [id : ids, run : 1..2, inside : BOOLEAN]] : n \in 0..entries}

\* Pairs of archives of two entries; for the bands also three of one entry,
\* of which one may be shut out of a group by its zooms.
ShardArchives == [1..2 -> Directories(0..MaxId, 2)]
BandArchives == [1..2 -> Directories(0..(MaxId - 1), 2)]
                  \cup [1..3 -> Directories(0..(MaxId - 1), 1)]

\* Two zooms, of one tile and of the rest.
MCZoomOf == [i \in 0..(Top - 1) |-> IF i = 0 THEN 0 ELSE 1]

MCArchives == ShardArchives \cup BandArchives

ASSUME MergesAssumption == SizesAssumption /\ ZoomAssumption

MCVars == <<part, vars, shardLoop>>

\* In a merge of shards the bands' loop rests before its start.
MCInit ==
  \/ /\ part = "shards" /\ dir \in ShardArchives /\ ShardsInit
     /\ band = [s \in Sources |-> [lo |-> s - 1, hi |-> s - 1, layer |-> None]]
     /\ opened = 0 /\ at = 0 /\ group = <<>> /\ open = FALSE
     /\ prev = None /\ id = None /\ written = <<>> /\ outcome = None
  \/ /\ part = "bands" /\ dir \in BandArchives /\ Init
     /\ indexed = FALSE /\ last = None /\ copied = <<>> /\ merged = None

InShards == part = "shards" /\ UNCHANGED <<part, loop>>
InBands  == part = "bands" /\ UNCHANGED <<part, shardLoop>>

MCNext ==
  \/ InShards /\ Index
  \/ InShards /\ NextTile
  \/ InShards /\ Refuse
  \/ InShards /\ Copy
  \/ InShards /\ CopyFails
  \/ InShards /\ ReadStops
  \/ InShards /\ Finalize
  \/ InBands /\ Call
  \/ InBands /\ OpenGroup
  \/ InBands /\ OutOfOrder
  \/ InBands /\ JoinGroup
  \/ InBands /\ Repeated
  \/ InBands /\ WriteGroup
  \/ InBands /\ WriteFails
  \/ InBands /\ Stopped
  \/ InBands /\ Finish
  \/ InBands /\ \E s \in Sources : Open(s)
  \/ InBands /\ \E s \in Sources : OpenFails(s)
  \/ InBands /\ \E s \in Sources : CopyTile(s)
  \/ InBands /\ \E s \in Sources : CopyStops(s)
  \/ InBands /\ \E s \in Sources : NextBand(s)

\* Layers are only ever compared.
Symmetry == Permutations(Layers)

MCSpec == MCInit /\ [][MCNext]_MCVars

=============================================================================
