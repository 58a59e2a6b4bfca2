----------------------------- MODULE BandMerge -----------------------------
(***************************************************************************)
(* pyramid.rs, merge_prepared_bands: archives of zoom bands become one.    *)
(* Bands that share zooms are merged tile by tile, a tile of several bands *)
(* holding the layers of each; bands that do not are copied one after the  *)
(* other, coarsest first.                                                  *)
(***************************************************************************)
EXTENDS MergedTiles

CONSTANTS
  Layers,     \* the layer names
  ZoomOf      \* tile ids to zooms

ZoomAssumption ==
  \A i, j \in 0..(Top - 1) :
    ZoomOf[i] \in Nat /\ (i <= j => ZoomOf[i] <= ZoomOf[j])

VARIABLES
  band,       \* input: per archive, its band: zooms lo to hi, its layer
  opened,     \* how many archives were opened, and their bands found to fit
  at,         \* disjoint bands: how many are through
  group,      \* shared zooms: the archives whose copy of `id` is taken
  open,       \* a group is being gathered
  prev,       \* the archive that gave a copy of `id` last, or None
  id,         \* the id seen last, None before the first
  written,    \* the tiles written: their id and the archives in them
  outcome     \* what the merge returned, None until then

loop == <<band, opened, at, group, open, prev, id, written, outcome>>
vars == <<stream, loop>>

Zooms == {ZoomOf[i] : i \in 0..(Top - 1)}
Bands == {b \in [lo : Zooms, hi : Zooms, layer : Layers] : b.lo <= b.hi}

Overlap(b, c) == b.lo <= c.hi /\ c.lo <= b.hi

\* Mutant: bands of one layer have only to start at different zooms.
Valid_ByStart(bands) ==
  \A s, t \in Sources :
    s # t /\ bands[s].layer = bands[t].layer => bands[s].lo # bands[t].lo

\* validate_bands: bands of one layer share no zoom.
Valid(bands) ==
  \A s, t \in Sources :
    s # t /\ bands[s].layer = bands[t].layer => ~Overlap(bands[s], bands[t])

\* bands_share_zooms
Shared == \E s, t \in Sources : s # t /\ Overlap(band[s], band[t])

Covers(s, i) == band[s].lo <= ZoomOf[i] /\ ZoomOf[i] <= band[s].hi

\* The archive's zooms can be worked out from its directory: it addresses no
\* more tiles than it may, and none beyond the last zoom.
Measured(s) ==
  /\ Spent(dir[s], Len(dir[s])) <= Limit
  /\ \A e \in 1..Len(dir[s]) : dir[s][e].id + dir[s][e].run <= Top

\* The tiles of the archive lie within its band's zooms, or reach beyond them
\* at both ends.
Fits(s) ==
  LET zooms == {ZoomOf[IdOf(s, c)] : c \in Claims(s)}
      lowest  == CHOOSE z \in zooms : \A y \in zooms : z <= y
      highest == CHOOSE z \in zooms : \A y \in zooms : y <= z
  IN /\ Claims(s) # {}
     /\ \/ band[s].lo <= lowest /\ highest <= band[s].hi
        \/ lowest <= band[s].lo /\ band[s].hi <= highest

Init ==
  /\ StreamInit
  /\ band \in [Sources -> Bands] /\ Valid(band)
  /\ opened = 0 /\ at = 0 /\ group = <<>> /\ open = FALSE /\ prev = None /\ id = None
  /\ written = <<>> /\ outcome = None

\* ensure_ascending refuses the id.
Descends(i) == id # None /\ i <= id

Report(kind, s) ==
  /\ outcome' = [kind |-> kind, source |-> s]
  /\ UNCHANGED <<stream, band, opened, at, group, open, prev, id, written>>

Running == outcome = None

\* Disjoint bands: the next by its coarsest zoom.
Turn(s) ==
  /\ at < N
  /\ Cardinality({t \in Sources : band[t].lo < band[s].lo}) = at

-----------------------------------------------------------------------------
(* Opening: all archives before the merge, or each before it is copied *)

ToOpen(s) ==
  /\ Running
  /\ IF Shared THEN s = opened + 1 ELSE opened = at /\ Turn(s)

Open(s) ==
  /\ ToOpen(s) /\ Measured(s)
  /\ opened' = opened + 1
  /\ UNCHANGED <<stream, band, at, group, open, prev, id, written, outcome>>

\* A misfit is refused, unless the options or the zooms that the archive's
\* metadata declares allow for it.
OpenFails(s) ==
  /\ ToOpen(s) /\ (Measured(s) => ~Fits(s))
  /\ Report("misfit", s)

Merging == Running /\ Shared /\ opened = N

-----------------------------------------------------------------------------
(* Bands that share zooms *)

Call == Merging /\ Advance /\ UNCHANGED loop

HasTile == Merging /\ given # None /\ given.kind = "tile"

\* A group takes a copy, unless its band does not cover the zoom.
Takes(s, i) ==
  /\ group' = IF Covers(s, i) THEN Append(group, s) ELSE group
  /\ prev' = s /\ id' = i
  /\ open' = TRUE
  /\ given' = None
  /\ UNCHANGED <<iterator, band, opened, at, written, outcome>>

Claimed(s) == \E k \in 1..Len(group) : band[group[k]].layer = band[s].layer

\* The first copy of an id, which has to ascend.
OpenGroup ==
  /\ HasTile /\ ~open
  /\ ~Descends(given.id)
  /\ Takes(given.source, given.id)

OutOfOrder ==
  /\ HasTile /\ ~open
  /\ Descends(given.id)
  /\ Report("outOfOrder", given.source)

\* Mutant: only the first copy of an id is taken.
JoinGroup_FirstOnly ==
  /\ HasTile /\ open /\ given.id = id
  /\ given.source # prev
  /\ Covers(given.source, id) => ~Claimed(given.source)
  /\ prev' = given.source
  /\ given' = None
  /\ UNCHANGED <<iterator, band, opened, at, group, open, id, written, outcome>>

\* A further copy of the same id, of the next band that has it.
JoinGroup ==
  /\ HasTile /\ open /\ given.id = id
  /\ given.source # prev
  /\ Covers(given.source, id) => ~Claimed(given.source)
  /\ Takes(given.source, id)

Repeated ==
  /\ HasTile /\ open /\ given.id = id
  /\ given.source = prev
  /\ Report("outOfOrder", given.source)

\* The copy would be refused as claimed twice for its layer.
ClaimedTwice ==
  /\ HasTile /\ open /\ given.id = id
  /\ given.source # prev
  /\ Covers(given.source, id) /\ Claimed(given.source)

\* What is peeked is another id, an error or the end: the group is complete.
Complete == open /\ given # None /\ (given.kind = "tile" => given.id # id)

\* Mutant: a group is written before the tile behind it was looked at.
WriteGroup_Eager ==
  /\ Merging /\ open
  /\ written' = IF group = <<>> THEN written
                ELSE Append(written, [id |-> id, from |-> group])
  /\ open' = FALSE /\ group' = <<>> /\ prev' = None
  /\ UNCHANGED <<stream, band, opened, at, id, outcome>>

\* One tile, of all the layers in band order; none if no band covers it.
WriteGroup ==
  /\ Merging /\ Complete
  /\ written' = IF group = <<>> THEN written
                ELSE Append(written, [id |-> id, from |-> group])
  /\ open' = FALSE /\ group' = <<>> /\ prev' = None
  /\ UNCHANGED <<stream, band, opened, at, id, outcome>>

WriteFails ==
  /\ Merging /\ Complete /\ group # <<>>
  /\ Report("io", group[Len(group)])

Stopped ==
  /\ Merging /\ ~open /\ given # None /\ given.kind = "fault"
  /\ Report("fault", given.source)

-----------------------------------------------------------------------------
(* Bands that share none: each archive's own stream, coarsest band first *)

Copying(s) == Running /\ ~Shared /\ opened > at /\ Turn(s)

\* A tile of a zoom the band does not cover is skipped; the others ascend.
CopyTile(s) ==
  /\ Copying(s)
  /\ ~Exhausted(s) /\ ~Faulty(s)
  /\ LET i == Ahead(s)
     IN IF Covers(s, i)
        THEN /\ ~Descends(i)
             /\ written' = Append(written, [id |-> i, from |-> <<s>>])
             /\ id' = i
        ELSE UNCHANGED <<written, id>>
  /\ cursor' = [cursor EXCEPT ![s] = Upcoming(s)]
  /\ UNCHANGED <<dir, heads, pending, primed, given>>
  /\ UNCHANGED <<band, opened, at, group, open, prev, outcome>>

CopyStops(s) ==
  /\ Copying(s)
  /\ ~Exhausted(s)
  /\ \/ Faulty(s) /\ Report("fault", s)
     \/ /\ ~Faulty(s) /\ Covers(s, Ahead(s))
        /\ \/ Descends(Ahead(s)) /\ Report("outOfOrder", s)
           \/ ~Descends(Ahead(s)) /\ Report("io", s)

NextBand(s) ==
  /\ Copying(s)
  /\ Exhausted(s)
  /\ at' = at + 1
  /\ UNCHANGED <<stream, band, opened, group, open, prev, id, written, outcome>>

-----------------------------------------------------------------------------

\* finish_merge writes the metadata and finalizes, or fails.
Finish ==
  /\ Running
  /\ IF Shared THEN ~open /\ given = End ELSE at = N
  /\ Report("done", None) \/ Report("io", None)

Next ==
  \/ Call \/ OpenGroup \/ OutOfOrder \/ JoinGroup \/ Repeated
  \/ WriteGroup \/ WriteFails \/ Stopped \/ Finish
  \/ \E s \in Sources : Open(s) \/ OpenFails(s)
  \/ \E s \in Sources : CopyTile(s) \/ CopyStops(s) \/ NextBand(s)

Spec == Init /\ [][Next]_vars

-----------------------------------------------------------------------------
(* Properties *)

Ended(kind) == outcome # None /\ outcome.kind = kind

\* The archives whose band covers the id and that hold it.
Holders(i) == {s \in Sources : Covers(s, i) /\ i \in ReadableIds(s)}

\* Every variable holds a value of its kind.
TypeOK ==
  /\ StreamType
  /\ band \in [Sources -> Bands]
  /\ opened \in 0..N /\ at \in 0..N
  /\ group \in Seq(Sources) /\ open \in BOOLEAN
  /\ prev \in Sources \cup {None}
  /\ id \in 0..(Top - 1) \cup {None}
  /\ \A k \in 1..Len(written) :
       written[k].id \in 0..(Top - 1) /\ written[k].from \in Seq(Sources)

\* The output is clustered, on both paths; and a merge that succeeds wrote,
\* for every id a band covers and holds, one tile of exactly the bands that
\* do.
EveryBandsCopy ==
  /\ \A j, k \in 1..Len(written) : j < k => written[j].id < written[k].id
  /\ Ended("done") =>
       /\ \A s \in Sources : Readable(s) = Claims(s)
       /\ \A i \in 0..(Top - 1) : Holders(i) # {} =>
            \E k \in 1..Len(written) :
              /\ written[k].id = i
              /\ {written[k].from[j] : j \in 1..Len(written[k].from)} = Holders(i)

\* validate_bands is enough: the merge never comes upon a tile that two bands
\* claim for one layer, whatever their directories hold.  (The code reports
\* one if it does; with this invariant that branch is dead.)  A tile's layers
\* have names of their own and are in band order.
NeverClaimedTwice ==
  /\ ~ClaimedTwice
  /\ \A k \in 1..Len(written) : LET f == written[k].from IN
       \A i, j \in 1..Len(f) :
         i < j => f[i] < f[j] /\ band[f[i]].layer # band[f[j]].layer

\* A band is called out of order only if its own directory lists an id twice,
\* or one below an earlier one, whatever the other bands hold.
BlamesTheRightBand ==
  Ended("outOfOrder") =>
    \E c, d \in Readable(outcome.source) :
      Before(c, d) /\ IdOf(outcome.source, d) <= IdOf(outcome.source, c)

=============================================================================
