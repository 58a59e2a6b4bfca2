----------------------------- MODULE MergedTiles -----------------------------
(***************************************************************************)
(* archive_index.rs: the tiles of one archive's directory, in directory    *)
(* order with runs expanded (TileIter), and the k-way merge of several     *)
(* such streams by tile id (MergedTiles).  ShardMerge and BandMerge are    *)
(* the two loops that call it.                                             *)
(***************************************************************************)
EXTENDS Naturals, Sequences, FiniteSets

CONSTANTS
  Archives,   \* bound: the inputs, each the directories of the archives merged
  Top,        \* the first id that is no tile's (beyond zoom 31)
  Limit,      \* how many tiles an archive's runs may address
  None

VARIABLES
  dir,        \* input: per archive, its directory
  cursor,     \* per archive: the entry being expanded, tiles taken of it
  heads,      \* per archive: the id of its look-ahead tile, or None
  pending,    \* the archive whose error waits to be handed out, or None
  primed,     \* every archive has been asked for its first tile
  given       \* what the last call of next returned, None once it is used

iterator == <<dir, cursor, heads, pending, primed>>
stream   == <<iterator, given>>

N       == Len(dir)
Sources == 1..N

\* A directory entry: a run of ids over one body, `inside` the tile data or
\* not.  Ids ascend within one leaf (they are coded as differences), but leaves
\* are laid end to end as they come, and a run may reach over the next entry:
\* along the directory of an archive an id may repeat or fall behind.
Entry == [id : Nat, run : Nat \ {0}, inside : BOOLEAN]

SizesAssumption ==
  /\ {Top, Limit} \subseteq Nat
  /\ Archives \subseteq Seq(Seq(Entry))

\* Tiles the first e entries of a directory address.
Spent(d, e) ==
  LET spent[k \in 0..Len(d)] == IF k = 0 THEN 0 ELSE spent[k - 1] + d[k].run
  IN spent[e]

-----------------------------------------------------------------------------
(* TileIter::next *)

Upcoming(s) ==
  LET c == cursor[s]
  IN IF c.entry # 0 /\ c.taken < dir[s][c.entry].run
     THEN [c EXCEPT !.taken = @ + 1]
     ELSE [entry |-> c.entry + 1, taken |-> 1]

IdAt(s, c) == dir[s][c.entry].id + c.taken - 1

Exhausted(s) == Upcoming(s).entry > Len(dir[s])

\* The body lies outside the section, the archive's runs add up to more than
\* it may address, or the id is not a tile's.
Faulty(s) ==
  /\ ~Exhausted(s)
  /\ LET c == Upcoming(s)
     IN \/ ~dir[s][c.entry].inside
        \/ Spent(dir[s], c.entry) > Limit
        \/ IdAt(s, c) >= Top

Ahead(s) == IF Exhausted(s) THEN None ELSE IdAt(s, Upcoming(s))

-----------------------------------------------------------------------------
(* MergedTiles::next *)

StreamInit ==
  /\ dir \in Archives
  /\ cursor = [s \in Sources |-> [entry |-> 0, taken |-> 0]]
  /\ heads = [s \in Sources |-> None]
  /\ pending = None
  /\ primed = FALSE
  /\ given = None

Tile(s, id) == [kind |-> "tile", source |-> s, id |-> id]
Fault(s)    == [kind |-> "fault", source |-> s]
End         == [kind |-> "end"]
Tiles       == {Tile(s, id) : s \in Sources, id \in 0..(Top - 1)}

\* The first call asks every archive for its first tile; the first one, in
\* order, that cannot give it ends the merge.
Prime ==
  /\ given = None /\ ~primed
  /\ primed' = TRUE
  /\ IF \E s \in Sources : Faulty(s)
     THEN /\ given' = Fault(CHOOSE s \in Sources :
                              Faulty(s) /\ \A t \in 1..(s - 1) : ~Faulty(t))
          /\ UNCHANGED <<cursor, heads>>
     ELSE /\ heads' = [s \in Sources |-> Ahead(s)]
          /\ cursor' = [s \in Sources |-> Upcoming(s)]
          /\ UNCHANGED given
  /\ UNCHANGED <<dir, pending>>

\* Mutant: the heap orders by archive first.
First_BySource(s) ==
  /\ heads[s] # None
  /\ \A t \in 1..(s - 1) : heads[t] = None

\* The heap's order: by id, then by archive.
First(s) ==
  /\ heads[s] # None
  /\ \A t \in Sources \ {s} :
       heads[t] # None =>
         heads[s] < heads[t] \/ (heads[s] = heads[t] /\ s < t)

\* Mutant: an error met while advancing is handed out at once, in place of
\* the tile popped alongside it.
Pop_ErrorFirst ==
  /\ given = None /\ primed /\ pending = None
  /\ \E s \in Sources :
       /\ First(s)
       /\ IF Faulty(s)
          THEN /\ given' = Fault(s)
               /\ heads' = [heads EXCEPT ![s] = None]
               /\ UNCHANGED <<cursor, pending>>
          ELSE /\ given' = Tile(s, heads[s])
               /\ heads' = [heads EXCEPT ![s] = Ahead(s)]
               /\ cursor' = [cursor EXCEPT ![s] = Upcoming(s)]
               /\ UNCHANGED pending
  /\ UNCHANGED <<dir, primed>>

\* The least tile is handed out and its archive asked for the next; an error
\* waits for the following call.
Pop ==
  /\ given = None /\ primed /\ pending = None
  /\ \E s \in Sources :
       /\ First(s)
       /\ given' = Tile(s, heads[s])
       /\ IF Faulty(s)
          THEN /\ pending' = s
               /\ heads' = [heads EXCEPT ![s] = None]
               /\ UNCHANGED cursor
          ELSE /\ heads' = [heads EXCEPT ![s] = Ahead(s)]
               /\ cursor' = [cursor EXCEPT ![s] = Upcoming(s)]
               /\ UNCHANGED pending
  /\ UNCHANGED <<dir, primed>>

HandOutError ==
  /\ given = None /\ pending # None
  /\ given' = Fault(pending) /\ pending' = None
  /\ UNCHANGED <<dir, cursor, heads, primed>>

Dry ==
  /\ given = None /\ primed /\ pending = None
  /\ \A s \in Sources : heads[s] = None
  /\ given' = End
  /\ UNCHANGED iterator

Advance == Prime \/ Pop \/ HandOutError \/ Dry

StreamType ==
  /\ dir \in Archives
  /\ cursor \in [Sources -> [entry : Nat, taken : Nat]]
  /\ heads \in [Sources -> 0..(Top - 1) \cup {None}]
  /\ pending \in Sources \cup {None}
  /\ primed \in BOOLEAN
  /\ given \in {None, End} \cup {Fault(s) : s \in Sources} \cup Tiles

-----------------------------------------------------------------------------
(* What a directory says, as a reference for the properties *)

Claims(s) == UNION {{e} \X (1..dir[s][e].run) : e \in 1..Len(dir[s])}

IdOf(s, c) == dir[s][c[1]].id + c[2] - 1

Unreadable(s, c) ==
  \/ ~dir[s][c[1]].inside
  \/ Spent(dir[s], c[1]) > Limit
  \/ IdOf(s, c) >= Top

Before(c, d) == c[1] < d[1] \/ (c[1] = d[1] /\ c[2] < d[2])

\* The tiles of s that come before anything in its directory is wrong.
Readable(s) ==
  {c \in Claims(s) : \A d \in Claims(s) :
     Unreadable(s, d) => Before(c, d)}

ReadableIds(s) == {IdOf(s, c) : c \in Readable(s)}

\* Those of them that are not behind a higher id of their own directory.
InTurn(s) ==
  {c \in Readable(s) : \A b \in Claims(s) :
     Before(b, c) => IdOf(s, b) <= IdOf(s, c)}

\* An id that s lists after itself or after a higher one.
OutOfTurn(s, i) ==
  \E b, c \in Readable(s) : Before(b, c) /\ IdOf(s, c) = i /\ i <= IdOf(s, b)

=============================================================================
