----------------------------- MODULE ShardMerge -----------------------------
(***************************************************************************)
(* merge.rs: the archives of a sharded build are concatenated by copying   *)
(* their tiles in id order.  That they are disjoint is checked, tile by    *)
(* tile.                                                                   *)
(***************************************************************************)
EXTENDS MergedTiles

VARIABLES
  indexed,    \* every input's id range has been worked out
  last,       \* the tile copied last, None before the first
  copied,     \* the tiles written, in order
  merged      \* what merge_shards returned, None until then

shardLoop == <<indexed, last, copied, merged>>
shardVars == <<stream, shardLoop>>

ShardsInit ==
  /\ StreamInit
  /\ indexed = FALSE /\ last = None /\ copied = <<>> /\ merged = None

Fails(kind, s) == merged' = [kind |-> kind, source |-> s]

TooLong(s) == Spent(dir[s], Len(dir[s])) > Limit

\* tile_id_range of each input, before the writer is created: a directory
\* that addresses too many tiles is refused here, and its archive named.
Index ==
  /\ ~indexed /\ merged = None
  /\ indexed' = TRUE
  /\ IF \E s \in Sources : TooLong(s)
     THEN Fails("limit", CHOOSE s \in Sources :
                           TooLong(s) /\ \A t \in 1..(s - 1) : ~TooLong(t))
     ELSE UNCHANGED merged
  /\ UNCHANGED <<stream, last, copied>>

Looping == indexed /\ merged = None

NextTile == Looping /\ Advance /\ UNCHANGED shardLoop

\* Each tile is held against the one copied before it.  Ids arrive ascending
\* where every directory ascends; a tile that falls behind is refused too.
Repeats == last # None /\ given.id <= last.id

Refuse ==
  /\ Looping /\ given # None /\ given.kind = "tile"
  /\ Repeats
  /\ merged' = [kind |-> "overlap", first |-> last.source,
                 second |-> given.source, id |-> given.id]
  /\ given' = None
  /\ UNCHANGED <<iterator, indexed, last, copied>>

\* The tile's body is read and added to the writer.
Copy ==
  /\ Looping /\ given # None /\ given.kind = "tile"
  /\ ~Repeats
  /\ last' = given
  /\ copied' = Append(copied, given)
  /\ given' = None
  /\ UNCHANGED <<iterator, indexed, merged>>

CopyFails ==
  /\ Looping /\ given # None /\ given.kind = "tile"
  /\ ~Repeats
  /\ last' = given
  /\ Fails("io", given.source)
  /\ given' = None
  /\ UNCHANGED <<iterator, indexed, copied>>

ReadStops ==
  /\ Looping /\ given # None /\ given.kind = "fault"
  /\ Fails("fault", given.source)
  /\ given' = None
  /\ UNCHANGED <<iterator, indexed, last, copied>>

\* finalize creates the archive, or fails.
Finalize ==
  /\ Looping /\ given = End
  /\ merged' \in {[kind |-> "done"], [kind |-> "io", source |-> None]}
  /\ UNCHANGED <<stream, indexed, last, copied>>

ShardsNext == Index \/ NextTile \/ Refuse \/ Copy \/ CopyFails \/ ReadStops \/ Finalize

ShardsSpec == ShardsInit /\ [][ShardsNext]_shardVars

-----------------------------------------------------------------------------
(* Properties *)

Wrote(s, i) == \E k \in 1..Len(copied) : copied[k] = Tile(s, i)

\* Every variable holds a value of its kind.
ShardsType ==
  /\ StreamType
  /\ indexed \in BOOLEAN
  /\ last \in {None} \cup Tiles
  /\ copied \in Seq(Tiles)

\* The output is clustered and no tile is skipped: at every moment, what was
\* copied is, in strictly ascending order, every readable tile of every
\* input below the last one that its own directory does not list behind a
\* higher id (and the iterator needs one look-ahead for it).  A merge that succeeds took every tile of every input, and the inputs were
\* readable throughout and disjoint.
WritesUnion ==
  /\ \A j, k \in 1..Len(copied) : j < k => copied[j].id < copied[k].id
  /\ copied # <<>> => \A s \in Sources : \A c \in InTurn(s) :
       IdOf(s, c) < copied[Len(copied)].id => Wrote(s, IdOf(s, c))
  /\ merged # None /\ merged.kind = "done" =>
       /\ \A s \in Sources : Readable(s) = Claims(s)
       /\ \A s \in Sources : \A i \in ReadableIds(s) : Wrote(s, i)
       /\ Len(copied) =
            Cardinality(UNION {{s} \X Claims(s) : s \in Sources})

\* A refusal for overlap names two archives that both hold the tile, or one
\* whose own directory lists it after itself or after a higher id.  An error in a directory is reported with its archive,
\* after every tile that archive yields before it; and it is never that the
\* archive addresses too many tiles, which was refused before anything was
\* copied.
RefusalsAreTrue ==
  /\ merged # None /\ merged.kind = "overlap" =>
       IF merged.first # merged.second
       THEN merged.id \in ReadableIds(merged.first)
                             \cap ReadableIds(merged.second)
       ELSE OutOfTurn(merged.first, merged.id)
  /\ merged # None /\ merged.kind = "fault" =>
       LET s == merged.source
       IN /\ Readable(s) # Claims(s)
          /\ ~TooLong(s)
          /\ \A i \in ReadableIds(s) : Wrote(s, i)

=============================================================================
