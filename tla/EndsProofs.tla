---------------------------- MODULE EndsProofs ----------------------------
(***************************************************************************)
(* Theorems about the two ways that an output comes to its path, and about *)
(* the workers' ordered read of the input.                                 *)
(*                                                                         *)
(* About TailWriter, for any tiles, bodies, directory capacity and number  *)
(* of runs: the types, and that no file the writer leaves at any of its    *)
(* three paths, whenever it dies, can be read as anything but what its     *)
(* writer meant.  The inductive invariant says of every file on disk that, *)
(* if its prefix parses, the directory resolves to the right bodies and    *)
(* nothing past the tile data is a tile body (Sound).  That survives a     *)
(* step because of what holds while a run is live: a prefix that parses    *)
(* describes every tile body in the file and in the buffer (Prefix), and   *)
(* the entries of the run find their bodies where find_stored looks for    *)
(* them (Directory).                                                       *)
(*                                                                         *)
(* About AtomicOutput, for any number of runs, sibling names and writes:   *)
(* the destination is always whole, a link stays, only killed runs leave   *)
(* files behind, and the output path implements OutputRegister.  The       *)
(* inductive invariant says what each run may still rely on between two of *)
(* its calls although the others go on: its sibling is its own, and what   *)
(* it found out about its destination still holds (Resolved).              *)
(*                                                                         *)
(* About OrderedRead, at the other end of a conversion, for any plan, any  *)
(* number of workers, channel capacity, batch size and join limit: the     *)
(* types, that no join pins more than its limit, and that the parallel     *)
(* read implements SequentialRead.  The inductive invariant (ReadIInv)     *)
(* says that the batches handed on and the queue, end to end, are the rows *)
(* of the plan up to where the merge stands (Queued, Merging), that what   *)
(* is in each worker's channel leads from the merge's place in that        *)
(* worker's next segment to the worker's own place, batch by batch         *)
(* (Streams), and why whoever has ended has ended (Ended, Explained).      *)
(***************************************************************************)
EXTENDS TailWriter, AtomicOutput, OrderedRead, SumProofs, SequenceTheorems, TLAPS

\* A run has its partial open and reserved.
Live == pc \in {"adding", "append", "spill", "flush", "meta", "leaves", "head",
                "root", "sync", "publish"}

\* The directory finds in the body the tiles the file stands for.
Resolves(f) ==
  /\ DOMAIN f.truth = {e[1] : e \in f.root.dir}
  /\ \A e \in f.root.dir : /\ e[2] <= f.dataEnd /\ e[2] <= Len(f.body)
                           /\ f.body[e[2]] = TileCell(f.truth[e[1]])

\* No tile body lies past the tile data.
ClearPast(f) ==
  \A i \in 1..Len(f.body) : i > f.dataEnd => f.body[i].kind # "tile"

Sound(f) == Parses(f) => Resolves(f) /\ ClearPast(f)

\* The open partial holds at least what has left the buffer.
Spool ==
  /\ pc = "reserve" => partial = EmptyFile
  /\ pc \in {"create", "reserve"} => entries = {} /\ size = 0 /\ buf = <<>>
                                       /\ dirty /\ added = NoTiles /\ ~landed
  /\ Live => /\ partial \in Files /\ Flushed <= Len(partial.body)
             /\ partial.reserved

\* Where the cell of the run at an offset is now: spool_holds' two cases.
CellOf(off) == IF off > Flushed THEN buf[off - Flushed] ELSE CellAt(partial, off)

\* Every entry of the run has its body stored, and it is the body given.
Directory ==
  Live => /\ DOMAIN added = {e[1] : e \in entries}
          /\ \A e \in entries : /\ e[2] <= size
                                  /\ CellOf(e[2]) = TileCell(added[e[1]])

\* What the prefix is worth, by tail_dirty and by the step.
Prefix ==
  /\ Live /\ buf # <<>> => dirty /\ pc \in {"adding", "append", "spill", "flush"}
  /\ Live /\ dirty /\ pc \notin {"root", "sync", "publish"} => ~partial.magic
  /\ Live /\ ~dirty => partial.dataEnd = size
  /\ pc \in {"append", "spill"} => /\ dirty /\ cur \in Tiles \X Bodies
                                   /\ cur[1] \notin DOMAIN added
  /\ pc = "root" => partial.magic /\ partial.root = Torn /\ partial.dataEnd = size
  /\ pc \in {"sync", "publish"} =>
       /\ partial.magic /\ partial.dataEnd = size
       /\ partial.root = snap /\ partial.truth = added

\* How far an assembly has got with the tail.
Assembly ==
  LET n == Len(partial.body)
  IN  /\ pc \in {"flush", "meta", "leaves", "head", "root", "sync", "publish"} =>
           snap \in Snapshots /\ snap.dir = entries
      /\ pc = "meta" => n = size
      /\ pc = "leaves" => n = size + 1 /\ Spills(snap)
      /\ pc \in {"head", "root", "sync", "publish"} =>
           n = size + (IF Spills(snap) THEN 2 ELSE 1)
      /\ pc \in {"leaves", "head", "root", "sync", "publish"} =>
           partial.body[size + 1] = MetaCell(snap)
      /\ pc \in {"head", "root", "sync", "publish"} /\ Spills(snap) =>
           partial.body[size + 2] = LeafCell(snap)
      /\ pc = "adding" /\ ~dirty => Readable(partial)

IInv == /\ TypeOK
        /\ Sound(partial) /\ Sound(prev) /\ Sound(output)
        /\ Spool /\ Directory /\ Prefix /\ Assembly /\ OutputWhole

-----------------------------------------------------------------------------
(* Lemmas about files *)

\* The fields of a file.
LEMMA FileFields ==
  ASSUME NEW f \in Files
  PROVE  /\ f.reserved \in BOOLEAN /\ f.magic \in BOOLEAN /\ f.dataEnd \in Nat
         /\ f.root \in Snapshots \cup {Absent, Torn}
         /\ f.body \in Seq(Cells) /\ f.truth \in Maps
         /\ f # Absent
BY SentinelAssumption DEF Files

\* Put writes its cells, leaves the others, and grows the file to hold them.
LEMMA PutFacts ==
  ASSUME NEW f \in Files, NEW i \in Nat, NEW cells \in Seq(Cells),
         1 <= i, i <= Len(f.body) + 1
  PROVE  /\ Put(f, i, cells) \in Files
         /\ Put(f, i, cells).reserved = f.reserved
         /\ Put(f, i, cells).magic = f.magic
         /\ Put(f, i, cells).dataEnd = f.dataEnd
         /\ Put(f, i, cells).root = f.root
         /\ Put(f, i, cells).truth = f.truth
         /\ Len(Put(f, i, cells).body) =
              IF i + Len(cells) - 1 > Len(f.body) THEN i + Len(cells) - 1
                                                  ELSE Len(f.body)
         /\ \A j \in 1..Len(Put(f, i, cells).body) :
              Put(f, i, cells).body[j] =
                IF j \in i..(i + Len(cells) - 1) THEN cells[j - i + 1] ELSE f.body[j]
<1> DEFINE end == i + Len(cells) - 1
           n == IF end > Len(f.body) THEN end ELSE Len(f.body)
           body == [j \in 1..n |-> IF j \in i..end THEN cells[j - i + 1]
                                                   ELSE f.body[j]]
<1>1. f.body \in Seq(Cells) /\ Len(f.body) \in Nat /\ Len(cells) \in Nat
  BY FileFields, LenProperties
<1>2. n \in Nat /\ end \in Int
  BY <1>1
<1>3. \A j \in 1..n : body[j] \in Cells
  <2> SUFFICES ASSUME NEW j \in 1..n PROVE body[j] \in Cells
    OBVIOUS
  <2>1. CASE j \in i..end
    <3>1. j - i + 1 \in 1..Len(cells)
      BY <1>1, <1>2, <2>1
    <3> QED BY <2>1, <3>1, ElementOfSeq
  <2>2. CASE j \notin i..end
    <3>1. j \in 1..Len(f.body)
      BY <1>1, <1>2, <2>2
    <3> QED BY <1>1, <2>2, <3>1, ElementOfSeq
  <2> QED BY <2>1, <2>2
<1>4. body \in Seq(Cells) /\ Len(body) = n
  <2>1. body \in [1..n -> Cells]
    BY <1>3
  <2> HIDE DEF body
  <2>2. body \in Seq(Cells)
    BY <1>2, <2>1, SeqDef
  <2>3. Len(body) = n
    BY <1>2, <2>1, <2>2, LenProperties
  <2> QED BY <2>2, <2>3
<1>5. Put(f, i, cells) = [f EXCEPT !.body = body]
  BY DEF Put
<1> HIDE DEF body
<1>6. /\ Put(f, i, cells) \in Files /\ Put(f, i, cells).body = body
      /\ Put(f, i, cells).reserved = f.reserved
      /\ Put(f, i, cells).magic = f.magic
      /\ Put(f, i, cells).dataEnd = f.dataEnd
      /\ Put(f, i, cells).root = f.root
      /\ Put(f, i, cells).truth = f.truth
  BY <1>4, <1>5 DEF Files
<1> QED BY <1>4, <1>6 DEF body

\* One cell written.
PutCell(f, i, c) == Put(f, i, <<c>>)

\* The same for one cell.
LEMMA PutOne ==
  ASSUME NEW f \in Files, NEW i \in Nat, NEW c \in Cells,
         1 <= i, i <= Len(f.body) + 1
  PROVE  /\ PutCell(f, i, c) \in Files
         /\ PutCell(f, i, c).reserved = f.reserved
         /\ PutCell(f, i, c).magic = f.magic
         /\ PutCell(f, i, c).dataEnd = f.dataEnd
         /\ PutCell(f, i, c).root = f.root
         /\ PutCell(f, i, c).truth = f.truth
         /\ Len(PutCell(f, i, c).body) \in Nat /\ Len(f.body) \in Nat
         /\ Len(f.body) <= Len(PutCell(f, i, c).body)
         /\ i <= Len(PutCell(f, i, c).body)
         /\ i > Len(f.body) => Len(PutCell(f, i, c).body) = i
         /\ PutCell(f, i, c).body[i] = c
         /\ \A j \in 1..Len(f.body) : j # i => PutCell(f, i, c).body[j] = f.body[j]
<1> DEFINE cells == <<c>>
           g == Put(f, i, cells)
<1>1. cells \in Seq(Cells) /\ Len(cells) = 1 /\ cells[1] = c
  OBVIOUS
<1>2. Len(f.body) \in Nat
  BY FileFields, LenProperties
<1> HIDE DEF cells
<1>3. /\ g \in Files /\ g.reserved = f.reserved /\ g.magic = f.magic
      /\ g.dataEnd = f.dataEnd /\ g.root = f.root /\ g.truth = f.truth
      /\ Len(g.body) = IF i + Len(cells) - 1 > Len(f.body) THEN i + Len(cells) - 1
                                                          ELSE Len(f.body)
      /\ \A j \in 1..Len(g.body) :
           g.body[j] = IF j \in i..(i + Len(cells) - 1) THEN cells[j - i + 1]
                                                        ELSE f.body[j]
  BY <1>1, <1>2, PutFacts
<1> HIDE DEF g
<1>4. /\ i \in 1..Len(g.body) /\ Len(f.body) <= Len(g.body) /\ Len(g.body) \in Nat
      /\ i > Len(f.body) => Len(g.body) = i
  BY <1>1, <1>2, <1>3
<1>5. g.body[i] = c
  BY <1>1, <1>3, <1>4
<1>6. \A j \in 1..Len(f.body) : j # i => g.body[j] = f.body[j]
  BY <1>1, <1>2, <1>3, <1>4
<1>7. g = PutCell(f, i, c)
  BY DEF g, cells, PutCell
<1> QED BY <1>2, <1>3, <1>4, <1>5, <1>6, <1>7

\* A tile map grows by one tile.
LEMMA MapGrows ==
  ASSUME NEW m \in Maps, NEW t \in Tiles, NEW b \in Bodies,
         NEW g, g = [u \in DOMAIN m \cup {t} |-> IF u = t THEN b ELSE m[u]]
  PROVE  /\ g \in Maps /\ DOMAIN g = DOMAIN m \cup {t} /\ g[t] = b
         /\ \A u \in DOMAIN m : u # t => g[u] = m[u]
<1>1. PICK T \in SUBSET Tiles : m \in [T -> Bodies]
  BY DEF Maps
<1>2. g \in [T \cup {t} -> Bodies]
  BY <1>1
<1>3. T \cup {t} \in SUBSET Tiles
  OBVIOUS
<1> QED BY <1>1, <1>2, <1>3 DEF Maps

\* The tiles of a directory with one entry more.
LEMMA EntryAdded ==
  ASSUME NEW S, NEW t, NEW off
  PROVE  {e[1] : e \in S \cup {<<t, off>>}} = {e[1] : e \in S} \cup {t}
<1>1. <<t, off>>[1] = t
  OBVIOUS
<1> QED BY <1>1

\* The empty file is a file, and no prefix in it parses.
LEMMA EmptyIsFile == EmptyFile \in Files /\ NoTiles \in Maps /\ Sound(EmptyFile)
<1>1. NoTiles \in [{} -> Bodies]
  BY DEF NoTiles
<1>2. NoTiles \in Maps
  BY <1>1 DEF Maps
<1>3. EmptyFile \in Files
  BY <1>2 DEF EmptyFile, Files
<1>4. ~Parses(EmptyFile)
  BY DEF Parses, EmptyFile
<1> QED BY <1>2, <1>3, <1>4 DEF Sound

\* The types the steps lean on.
LEMMA Types ==
  ASSUME TypeOK
  PROVE  /\ entries \subseteq Tiles \X (Nat \ {0})
         /\ size \in Nat /\ Len(buf) \in Nat /\ Flushed \in Nat
         /\ size = Flushed + Len(buf)
         /\ buf \in Seq(Cells)
         /\ \A i \in 1..Len(buf) : buf[i].kind = "tile"
<1>1. buf \in Seq([kind : {"tile"}, of : Bodies]) /\ Len(buf) \in Nat
  BY LenProperties DEF TypeOK
<1>2. [kind : {"tile"}, of : Bodies] \subseteq Cells
  BY DEF Cells
<1>3. buf \in Seq(Cells)
  BY <1>1, <1>2, SeqMonotonic
<1>4. \A i \in 1..Len(buf) : buf[i] \in [kind : {"tile"}, of : Bodies]
  BY <1>1, ElementOfSeq
<1>5. size = Flushed + Len(buf)
  BY <1>1 DEF TypeOK, Flushed
<1> QED BY <1>1, <1>3, <1>4, <1>5 DEF TypeOK

-----------------------------------------------------------------------------
(* The invariant: opening a run *)

\* The invariant holds initially.
LEMMA InitIInv == Init => IInv
<1> SUFFICES ASSUME Init PROVE IInv
  OBVIOUS
<1> USE DEF Init
<1>1. TypeOK
  <2>1. buf \in Seq([kind : {"tile"}, of : Bodies]) /\ Flushed \in Nat
    BY DEF Flushed
  <2>2. added \in Maps
    BY EmptyIsFile
  <2>3. dirty \in BOOLEAN /\ final \in BOOLEAN /\ landed \in BOOLEAN
    OBVIOUS
  <2> QED BY <2>1, <2>2, <2>3 DEF TypeOK
<1>2. Sound(partial) /\ Sound(prev) /\ Sound(output) /\ OutputWhole
  BY DEF Sound, Parses, OutputWhole
<1>3. Spool /\ Directory /\ Prefix /\ Assembly
  BY DEF Spool, Directory, Prefix, Assembly, Live
<1> QED BY <1>1, <1>2, <1>3 DEF IInv

\* with_tail_layout steps an earlier partial aside.
LEMMA OpenStep == IInv /\ Open => IInv'
<1> SUFFICES ASSUME IInv, Open PROVE IInv'
  OBVIOUS
<1> USE DEF Open
<1>1. TypeOK'
  <2>1. buf' \in Seq([kind : {"tile"}, of : Bodies]) /\ Flushed' \in Nat
    BY DEF Flushed
  <2>2. added' \in Maps
    BY EmptyIsFile
  <2>3. dirty' \in BOOLEAN /\ final' \in BOOLEAN /\ landed' \in BOOLEAN
    BY DEF asmVars, IInv, TypeOK
  <2>4. partial' \in Files \cup {Absent} /\ prev' \in Files \cup {Absent}
    BY DEF IInv, TypeOK
  <2> QED BY <2>1, <2>2, <2>3, <2>4 DEF IInv, TypeOK, asmVars
<1>2. Sound(partial)' /\ Sound(prev)' /\ Sound(output)' /\ OutputWhole'
  <2>1. Sound(Absent)
    BY DEF Sound, Parses
  <2>2. \/ prev' = partial /\ partial' = Absent
        \/ prev' = prev /\ partial' = partial
    OBVIOUS
  <2>3. output' = output
    OBVIOUS
  <2> QED BY <2>1, <2>2, <2>3 DEF IInv, OutputWhole
<1>3. Spool' /\ Directory' /\ Prefix' /\ Assembly'
  BY DEF Spool, Directory, Prefix, Assembly, Live
<1> QED BY <1>1, <1>2, <1>3 DEF IInv

\* It creates the partial.
LEMMA CreateStep == IInv /\ Create => IInv'
<1> SUFFICES ASSUME IInv, Create PROVE IInv'
  OBVIOUS
<1> USE DEF Create, runVars, asmVars
<1>1. TypeOK'
  BY EmptyIsFile DEF IInv, TypeOK, Flushed
<1>2. Sound(partial)' /\ Sound(prev)' /\ Sound(output)' /\ OutputWhole'
  BY EmptyIsFile DEF IInv, OutputWhole
<1>3. Spool' /\ Directory' /\ Prefix' /\ Assembly'
  BY DEF IInv, Spool, Directory, Prefix, Assembly, Live
<1> QED BY <1>1, <1>2, <1>3 DEF IInv

\* It reserves the prefix.
LEMMA ReserveStep == IInv /\ Reserve => IInv'
<1> SUFFICES ASSUME IInv, Reserve PROVE IInv'
  OBVIOUS
<1> USE DEF Reserve, runVars, asmVars
<1>1. /\ partial' \in Files /\ partial'.reserved /\ ~partial'.magic
      /\ partial'.body = <<>>
  <2>1. partial' = [EmptyFile EXCEPT !.reserved = TRUE]
    BY DEF IInv, Spool
  <2>2. partial' \in Files
    BY <2>1, EmptyIsFile DEF Files
  <2> QED BY <2>1, <2>2 DEF EmptyFile
<1>2. TypeOK'
  BY <1>1 DEF IInv, TypeOK, Flushed
<1>3. Sound(partial)' /\ Sound(prev)' /\ Sound(output)' /\ OutputWhole'
  BY <1>1 DEF IInv, OutputWhole, Sound, Parses
<1>4. entries = {} /\ size = 0 /\ buf = <<>> /\ dirty /\ added = NoTiles
  BY DEF IInv, Spool
<1>5. Spool' /\ Directory'
  BY <1>1, <1>4 DEF Spool, Directory, Live, Flushed, NoTiles
<1>6. Prefix' /\ Assembly'
  BY <1>1, <1>4 DEF Prefix, Assembly, Live
<1> QED BY <1>2, <1>3, <1>5, <1>6 DEF IInv

-----------------------------------------------------------------------------
(* The invariant: appending *)

\* A duplicate aliases a stored body.
LEMMA AddDuplicateStep ==
  ASSUME IInv, NEW t \in Tiles, NEW b \in Bodies, AddDuplicate(t, b)
  PROVE  IInv'
<1>3. /\ added' \in Maps /\ DOMAIN added' = DOMAIN added \cup {t} /\ added'[t] = b
      /\ \A u \in DOMAIN added : u # t => added'[u] = added[u]
  <2>1. added \in Maps
    BY DEF IInv, TypeOK
  <2>2. added' = [u \in DOMAIN added \cup {t} |-> IF u = t THEN b ELSE added[u]]
    BY DEF AddDuplicate
  <2> QED BY <2>1, <2>2, MapGrows
<1> USE DEF AddDuplicate, fileVars, asmVars
<1>1. PICK off \in Stored(b) : entries' = entries \cup {<<t, off>>}
  OBVIOUS
<1>2. off \in Nat \ {0} /\ off <= size /\ CellOf(off) = TileCell(b)
  <2>1. PICK e \in entries : off = e[2]
    BY DEF Stored
  <2>2. e[2] \in Nat \ {0} /\ e[2] <= size
    BY Types DEF IInv, Directory, Live
  <2>3. CellOf(off) = TileCell(b)
    BY DEF Stored, Holds, CellOf
  <2> QED BY <2>1, <2>2, <2>3
<1>4. TypeOK'
  BY <1>1, <1>2, <1>3 DEF IInv, TypeOK, Flushed
<1>5. Sound(partial)' /\ Sound(prev)' /\ Sound(output)' /\ OutputWhole'
  BY DEF IInv, OutputWhole
<1>6. Spool'
  BY DEF IInv, Spool, Live, Flushed
<1>7. Directory'
  <2>1. DOMAIN added = {e[1] : e \in entries} /\ t \notin DOMAIN added
    BY DEF IInv, Directory, Live
  <2>2. DOMAIN added' = {e[1] : e \in entries'}
    <3>1. {e[1] : e \in entries \cup {<<t, off>>}} = {e[1] : e \in entries} \cup {t}
      BY EntryAdded
    <3> QED BY <1>1, <1>3, <2>1, <3>1
  <2>3. \A o : CellOf(o)' = CellOf(o)
    BY DEF CellOf, Flushed
  <2>4. ASSUME NEW e \in entries'
        PROVE  e[2] <= size /\ CellOf(e[2]) = TileCell(added'[e[1]])
    <3>1. CASE e \in entries
      <4>1. e[1] \in DOMAIN added /\ e[1] # t
        BY <2>1, <3>1
      <4> QED BY <1>3, <3>1, <4>1 DEF IInv, Directory, Live
    <3>2. CASE e = <<t, off>>
      BY <1>2, <1>3, <3>2
    <3> QED BY <1>1, <3>1, <3>2
  <2> QED BY <2>2, <2>3, <2>4 DEF Directory
<1>8. Prefix'
  BY DEF IInv, Prefix, Live
<1>9. Assembly'
  BY DEF IInv, Assembly
<1> QED BY <1>4, <1>5, <1>6, <1>7, <1>8, <1>9 DEF IInv

\* invalidate_tail_prefix_before_append: from here on the prefix does not
\* parse.
LEMMA BeginAppendStep ==
  ASSUME IInv, NEW t \in Tiles, NEW b \in Bodies, BeginAppend(t, b)
  PROVE  IInv'
<1> USE DEF BeginAppend
<1>1. /\ partial \in Files /\ partial' \in Files
      /\ partial'.reserved = partial.reserved /\ partial'.body = partial.body
      /\ ~partial'.magic
  <2>1. partial \in Files
    BY DEF IInv, Spool, Live
  <2>2. CASE dirty
    BY <2>1, <2>2 DEF IInv, Prefix, Live
  <2>3. CASE ~dirty
    <3>1. partial' = [partial EXCEPT !.magic = FALSE]
      BY <2>3
    <3> QED BY <2>1, <3>1 DEF Files
  <2> QED BY <2>1, <2>2, <2>3
<1>2. TypeOK'
  <2>1. dirty' \in BOOLEAN /\ final' \in BOOLEAN /\ landed' \in BOOLEAN
    BY DEF IInv, TypeOK
  <2>2. cur' \in Tiles \X Bodies /\ Flushed' = Flushed
    BY DEF Flushed
  <2> QED BY <1>1, <2>1, <2>2 DEF IInv, TypeOK
<1>3. Sound(partial)' /\ Sound(prev)' /\ Sound(output)' /\ OutputWhole'
  BY <1>1 DEF IInv, OutputWhole, Sound, Parses
<1>4. Spool'
  BY <1>1 DEF IInv, Spool, Live, Flushed
<1>5. Directory'
  <2>1. \A o : CellOf(o)' = CellOf(o)
    BY <1>1 DEF CellOf, Flushed, CellAt
  <2> QED BY <2>1 DEF IInv, Directory, Live
<1>6. Prefix'
  BY <1>1 DEF IInv, Prefix, Live
<1>7. Assembly'
  BY DEF Assembly
<1> QED BY <1>2, <1>3, <1>4, <1>5, <1>6, <1>7 DEF IInv

\* An append gives the tile its body.
LEMMA RecordAdds ==
  ASSUME TypeOK, Record, NEW t \in Tiles, NEW b \in Bodies, cur = <<t, b>>
  PROVE  /\ added' \in Maps /\ DOMAIN added' = DOMAIN added \cup {t} /\ added'[t] = b
         /\ \A u \in DOMAIN added : u # t => added'[u] = added[u]
<1>1. added \in Maps
  BY DEF TypeOK
<1>2. added' = [u \in DOMAIN added \cup {t} |-> IF u = t THEN b ELSE added[u]]
  BY DEF Record
<1> QED BY <1>1, <1>2, MapGrows

\* The bookkeeping of an append, common to its three ways: the new entry's
\* body is where the spool says, and the old ones' still are.
LEMMA RecordStep ==
  ASSUME IInv, pc \in {"append", "spill"}, Record,
         partial' \in Files, partial'.reserved, ~partial'.magic,
         Flushed' \in Nat, Flushed' <= Len(partial'.body),
         buf' \in Seq([kind : {"tile"}, of : Bodies]),
         \A o \in 1..size : CellOf(o)' = CellOf(o),
         \A o \in {size + 1} : CellOf(o)' = TileCell(cur[2])
  PROVE  IInv'
<1>0. cur \in Tiles \X Bodies /\ cur[1] \notin DOMAIN added /\ dirty /\ size \in Nat
  BY DEF IInv, Prefix, TypeOK
<1> PICK t \in Tiles, b \in Bodies : cur = <<t, b>>
  BY <1>0
<1>1. /\ entries' = entries \cup {<<t, size + 1>>} /\ size' = size + 1
      /\ added' = [u \in DOMAIN added \cup {t} |-> IF u = t THEN b ELSE added[u]]
      /\ t \notin DOMAIN added
  BY <1>0 DEF Record
<1>2. /\ added' \in Maps /\ DOMAIN added' = DOMAIN added \cup {t} /\ added'[t] = b
      /\ \A u \in DOMAIN added : u # t => added'[u] = added[u]
  BY RecordAdds DEF IInv
<1> USE DEF Record, asmVars
<1>4. TypeOK'
  <2>1. entries' \subseteq Tiles \X (Nat \ {0}) /\ size' \in Nat
    BY <1>0, <1>1, Types DEF IInv
  <2> QED BY <1>2, <2>1 DEF IInv, TypeOK
<1>5. Sound(partial)' /\ Sound(prev)' /\ Sound(output)' /\ OutputWhole'
  BY DEF IInv, OutputWhole, Sound, Parses
<1>6. Spool'
  BY DEF Spool
<1>7. Directory'
  <2>1. DOMAIN added = {e[1] : e \in entries}
    BY DEF IInv, Directory, Live
  <2>2. DOMAIN added' = {e[1] : e \in entries'}
    <3>1. {e[1] : e \in entries \cup {<<t, size + 1>>}} = {e[1] : e \in entries} \cup {t}
      BY EntryAdded
    <3> QED BY <1>1, <1>2, <2>1, <3>1
  <2>3. ASSUME NEW e \in entries'
        PROVE  e[2] <= size' /\ CellOf(e[2])' = TileCell(added'[e[1]])
    <3>1. CASE e \in entries
      <4>1. e[1] \in DOMAIN added /\ e[1] # t
        BY <1>1, <2>1, <3>1
      <4>2. /\ e[2] \in 1..size
            /\ CellOf(e[2]) = TileCell(added[e[1]])
        BY <3>1, Types DEF IInv, Directory, Live
      <4>3. CellOf(e[2])' = CellOf(e[2])
        BY <4>2
      <4>4. e[2] <= size'
        BY <1>0, <1>1, <4>2
      <4> QED BY <1>2, <4>1, <4>2, <4>3, <4>4
    <3>2. CASE e = <<t, size + 1>>
      <4>1. e[1] = t /\ e[2] = size + 1
        BY <3>2
      <4>2. CellOf(e[2])' = TileCell(b)
        BY <4>1
      <4> QED BY <1>0, <1>1, <1>2, <4>1, <4>2
    <3> QED BY <1>1, <3>1, <3>2
  <2> QED BY <2>2, <2>3 DEF Directory
<1>8. Prefix'
  BY <1>0 DEF Prefix, Live
<1>9. Assembly'
  BY <1>0 DEF Assembly
<1> QED BY <1>4, <1>5, <1>6, <1>7, <1>8, <1>9 DEF IInv

\* An append the buffer holds.
LEMMA AppendBufferedStep == IInv /\ AppendBuffered => IInv'
<1> SUFFICES ASSUME IInv, AppendBuffered PROVE IInv'
  OBVIOUS
<1>1. /\ pc = "append" /\ Record /\ partial' = partial
      /\ buf' = Append(buf, TileCell(cur[2])) /\ size' = size + 1
  BY DEF AppendBuffered, Record
<1>2. /\ partial \in Files /\ partial.reserved /\ ~partial.magic
      /\ Flushed <= Len(partial.body)
  BY <1>1 DEF IInv, Spool, Prefix, Live
<1>3. /\ TileCell(cur[2]) \in [kind : {"tile"}, of : Bodies]
      /\ buf \in Seq([kind : {"tile"}, of : Bodies])
  BY <1>1 DEF IInv, Prefix, TypeOK, TileCell
<1>4. /\ buf' \in Seq([kind : {"tile"}, of : Bodies])
      /\ Len(buf') = Len(buf) + 1
      /\ \A k \in 1..Len(buf) : buf'[k] = buf[k]
      /\ buf'[Len(buf) + 1] = TileCell(cur[2])
  BY <1>1, <1>3, AppendProperties
<1>5. Flushed' = Flushed
  BY <1>1, <1>4, Types DEF IInv, Flushed
<1>6. \A o \in 1..size : CellOf(o)' = CellOf(o)
  BY <1>1, <1>4, <1>5, Types DEF CellOf, IInv
<1>7. \A o \in {size + 1} : CellOf(o)' = TileCell(cur[2])
  BY <1>4, <1>5, Types DEF CellOf, IInv
<1> QED BY <1>1, <1>2, <1>4, <1>5, <1>6, <1>7, RecordStep, Types DEF IInv

\* The body does not fit the buffer: nothing but the step changes.
LEMMA SpillStep == IInv /\ Spill => IInv'
<1> SUFFICES ASSUME IInv, Spill PROVE IInv'
  OBVIOUS
<1> USE DEF Spill, fileVars, runVars, asmVars
<1>1. TypeOK'
  BY DEF IInv, TypeOK, Flushed
<1>2. Sound(partial)' /\ Sound(prev)' /\ Sound(output)' /\ OutputWhole'
  BY DEF IInv, OutputWhole
<1>3. Spool' /\ Prefix'
  BY DEF IInv, Spool, Prefix, Live, Flushed
<1>4. Directory'
  <2>1. \A o : CellOf(o)' = CellOf(o)
    BY DEF CellOf, Flushed
  <2> QED BY <2>1 DEF IInv, Directory, Live
<1>5. Assembly'
  BY DEF Assembly
<1> QED BY <1>1, <1>2, <1>3, <1>4, <1>5 DEF IInv

\* A buffered body reaches the file.  The prefix does not parse meanwhile.
LEMMA DrainStep == IInv /\ Drain => IInv'
<1> SUFFICES ASSUME IInv, Drain PROVE IInv'
  OBVIOUS
<1> USE DEF Drain, asmVars
<1>1. /\ partial \in Files /\ partial.reserved /\ ~partial.magic /\ dirty
      /\ Flushed <= Len(partial.body)
  BY DEF IInv, Spool, Prefix, Live
<1>2. /\ buf \in Seq([kind : {"tile"}, of : Bodies]) /\ buf # <<>>
      /\ buf' = Tail(buf) /\ Head(buf) = buf[1]
  BY DEF IInv, TypeOK
<1>3. /\ buf' \in Seq([kind : {"tile"}, of : Bodies])
      /\ Len(buf) >= 1 /\ Len(buf') = Len(buf) - 1
      /\ \A k \in 1..Len(buf') : buf'[k] = buf[k + 1]
  BY <1>2, HeadTailProperties, EmptySeq
<1>4. Flushed' = Flushed + 1
  BY <1>3, Types DEF IInv, Flushed
<1> DEFINE p == Put(partial, Flushed + 1, <<Head(buf)>>)
<1>5. Head(buf) \in Cells
  BY <1>2, Types, HeadTailProperties DEF IInv
<1>6. /\ p \in Files /\ p.reserved /\ ~p.magic /\ Flushed + 1 <= Len(p.body)
      /\ Len(partial.body) <= Len(p.body)
      /\ p.body[Flushed + 1] = buf[1]
      /\ \A j \in 1..Flushed : p.body[j] = partial.body[j]
  <2>1. Flushed \in Nat /\ Flushed + 1 \in Nat \ {0} /\ Len(partial.body) \in Nat
    BY <1>1, Types, FileFields, LenProperties DEF IInv
  <2>2. /\ p \in Files /\ p.reserved = partial.reserved /\ p.magic = partial.magic
        /\ Len(p.body) \in Nat /\ Len(partial.body) <= Len(p.body)
        /\ Flushed + 1 <= Len(p.body)
        /\ p.body[Flushed + 1] = Head(buf)
        /\ \A j \in 1..Len(partial.body) : j # Flushed + 1 => p.body[j] = partial.body[j]
    <3> PICK i \in Nat, c \in Cells : i = Flushed + 1 /\ c = Head(buf)
      BY <1>5, <2>1
    <3>0. partial \in Files
      BY <1>1
    <3>1. /\ 1 <= i /\ i <= Len(partial.body) + 1 /\ Len(partial.body) \in Nat
      BY <1>1, <2>1
    <3>2. p = PutCell(partial, i, c)
      BY DEF PutCell
    <3> HIDE DEF p
    <3>3. /\ PutCell(partial, i, c) \in Files
          /\ PutCell(partial, i, c).reserved = partial.reserved
          /\ PutCell(partial, i, c).magic = partial.magic
          /\ Len(PutCell(partial, i, c).body) \in Nat
          /\ Len(partial.body) <= Len(PutCell(partial, i, c).body)
          /\ i <= Len(PutCell(partial, i, c).body)
          /\ PutCell(partial, i, c).body[i] = c
      BY <3>0, <3>1, PutOne
    <3>4. ASSUME NEW j \in 1..Len(partial.body), j # i
          PROVE  PutCell(partial, i, c).body[j] = partial.body[j]
      BY <3>0, <3>1, <3>4, PutOne
    <3> QED BY <3>2, <3>3, <3>4
  <2>3. \A j \in 1..Flushed : j \in 1..Len(partial.body) /\ j # Flushed + 1
    BY <1>1, <2>1
  <2> HIDE DEF p
  <2> QED BY <1>1, <1>2, <2>1, <2>2, <2>3
<1>7. partial' = p
  OBVIOUS
<1> HIDE DEF p
<1>8. TypeOK'
  BY <1>3, <1>4, <1>6, <1>7, Types DEF IInv, TypeOK
<1>9. Sound(partial)' /\ Sound(prev)' /\ Sound(output)' /\ OutputWhole'
  BY <1>6, <1>7 DEF IInv, OutputWhole, Sound, Parses
<1>10. Spool'
  BY <1>4, <1>6, <1>7 DEF Spool, Live
<1>11. Directory'
  <2>1. ASSUME NEW o \in 1..size PROVE CellOf(o)' = CellOf(o)
    <3>1. CASE o <= Flushed
      <4>1. o \in 1..Len(partial.body) /\ o \in 1..Len(p.body) /\ ~(o > Flushed + 1)
        BY <1>1, <1>6, <3>1, Types, FileFields, LenProperties DEF IInv
      <4> QED BY <1>4, <1>6, <1>7, <3>1, <4>1, Types DEF CellOf, CellAt, IInv
    <3>2. CASE o = Flushed + 1
      <4>1. o \in 1..Len(p.body)
        BY <1>6, <3>2, Types, FileFields, LenProperties DEF IInv
      <4> QED BY <1>4, <1>6, <1>7, <3>2, <4>1, Types DEF CellOf, CellAt, IInv
    <3>3. CASE o > Flushed + 1
      <4>1. o - (Flushed + 1) \in 1..Len(buf')
        BY <1>3, <3>3, Types DEF IInv
      <4> QED BY <1>3, <1>4, <3>3, <4>1, Types DEF CellOf, IInv
    <3> QED BY <3>1, <3>2, <3>3, Types DEF IInv
  <2>2. \A e \in entries : e[2] \in 1..size
    BY Types DEF IInv, Directory, Live
  <2> QED BY <2>1, <2>2 DEF IInv, Directory, Live
<1>12. Prefix'
  BY <1>1, <1>6, <1>7 DEF IInv, Prefix, Live
<1>13. Assembly'
  BY <1>1 DEF IInv, Assembly
<1> QED BY <1>8, <1>9, <1>10, <1>11, <1>12, <1>13 DEF IInv

\* An append after the buffer was written out.
LEMMA AppendSpilledStep == IInv /\ AppendSpilled => IInv'
<1> SUFFICES ASSUME IInv, AppendSpilled PROVE IInv'
  OBVIOUS
<1>1. /\ pc = "spill" /\ Record /\ buf = <<>> /\ size' = size + 1
      /\ \/ buf' = <<TileCell(cur[2])>> /\ partial' = partial
         \/ partial' = Put(partial, size + 1, <<TileCell(cur[2])>>) /\ buf' = buf
  BY DEF AppendSpilled, Record
<1>2. /\ partial \in Files /\ partial.reserved /\ ~partial.magic
      /\ Flushed = size /\ size <= Len(partial.body) /\ Len(partial.body) \in Nat
  BY <1>1, FileFields, LenProperties DEF IInv, Spool, Prefix, Live, Flushed, TypeOK
<1>3. TileCell(cur[2]) \in [kind : {"tile"}, of : Bodies]
  BY <1>1 DEF IInv, Prefix, TileCell
<1>4. CASE buf' = <<TileCell(cur[2])>> /\ partial' = partial
  <2>1. /\ buf' \in Seq([kind : {"tile"}, of : Bodies]) /\ Len(buf') = 1
        /\ buf'[1] = TileCell(cur[2])
    BY <1>3, <1>4
  <2>2. Flushed' = size
    BY <1>1, <2>1, Types DEF IInv, Flushed
  <2>3. \A o \in 1..size : CellOf(o)' = CellOf(o)
    BY <1>2, <1>4, <2>2, Types DEF CellOf, IInv
  <2>4. \A o \in {size + 1} : CellOf(o)' = TileCell(cur[2])
    BY <2>1, <2>2, Types DEF CellOf, IInv
  <2> QED BY <1>1, <1>2, <1>4, <2>1, <2>2, <2>3, <2>4, RecordStep, Types DEF IInv
<1>5. CASE partial' = Put(partial, size + 1, <<TileCell(cur[2])>>) /\ buf' = buf
  <2>1. TileCell(cur[2]) \in Cells
    BY <1>3 DEF Cells
  <2>2. /\ partial' \in Files /\ partial'.reserved /\ ~partial'.magic
        /\ size + 1 <= Len(partial'.body) /\ Len(partial'.body) \in Nat
        /\ partial'.body[size + 1] = TileCell(cur[2])
        /\ \A j \in 1..size : partial'.body[j] = partial.body[j]
    <3>1. size \in Nat /\ size + 1 \in Nat \ {0} /\ size + 1 <= Len(partial.body) + 1
      BY <1>2, Types DEF IInv
    <3>2. /\ partial' \in Files /\ partial'.reserved = partial.reserved
          /\ partial'.magic = partial.magic /\ Len(partial'.body) \in Nat
          /\ size + 1 <= Len(partial'.body)
          /\ partial'.body[size + 1] = TileCell(cur[2])
          /\ \A j \in 1..Len(partial.body) :
               j # size + 1 => partial'.body[j] = partial.body[j]
      <4> PICK i \in Nat, c \in Cells : i = size + 1 /\ c = TileCell(cur[2])
        BY <2>1, <3>1
      <4>0. partial \in Files
        BY <1>2
      <4>1. 1 <= i /\ i <= Len(partial.body) + 1 /\ Len(partial.body) \in Nat
        BY <1>2, <3>1
      <4>2. partial' = PutCell(partial, i, c)
        BY <1>5 DEF PutCell
      <4>3. /\ PutCell(partial, i, c) \in Files
            /\ PutCell(partial, i, c).reserved = partial.reserved
            /\ PutCell(partial, i, c).magic = partial.magic
            /\ Len(PutCell(partial, i, c).body) \in Nat
            /\ i <= Len(PutCell(partial, i, c).body)
            /\ PutCell(partial, i, c).body[i] = c
        BY <4>0, <4>1, PutOne
      <4>4. ASSUME NEW j \in 1..Len(partial.body), j # i
            PROVE  PutCell(partial, i, c).body[j] = partial.body[j]
        BY <4>0, <4>1, <4>4, PutOne
      <4> QED BY <4>2, <4>3, <4>4
    <3> QED BY <1>2, <3>1, <3>2
  <2>3. Flushed' = size + 1
    BY <1>1, <1>5, Types DEF IInv, Flushed
  <2>4. \A o \in 1..size : CellOf(o)' = CellOf(o)
    BY <1>2, <2>2, <2>3, Types DEF CellOf, CellAt, IInv
  <2>5. \A o \in {size + 1} : CellOf(o)' = TileCell(cur[2])
    BY <2>2, <2>3, Types DEF CellOf, CellAt, IInv
  <2>6. buf' \in Seq([kind : {"tile"}, of : Bodies])
    BY <1>5 DEF IInv, TypeOK
  <2> QED BY <1>1, <2>2, <2>3, <2>4, <2>5, <2>6, RecordStep, Types DEF IInv
<1> QED BY <1>1, <1>4, <1>5

-----------------------------------------------------------------------------
(* The invariant: an assembly *)

\* While an assembly runs its buffer is written out: the cells of the run are
\* those of the file.
LEMMA Drained ==
  ASSUME IInv, Live, buf = <<>>
  PROVE  /\ partial \in Files /\ partial.reserved
         /\ Flushed = size /\ size \in Nat /\ Len(partial.body) \in Nat
         /\ size <= Len(partial.body)
         /\ \A e \in entries : /\ e[2] \in 1..size
                               /\ partial.body[e[2]] = TileCell(added[e[1]])
<1>1. partial \in Files /\ partial.reserved /\ Flushed <= Len(partial.body)
  BY DEF IInv, Spool
<1>2. Flushed = size /\ size \in Nat
  BY Types DEF IInv, Flushed
<1>3. Len(partial.body) \in Nat
  BY <1>1, FileFields, LenProperties
<1>4. \A e \in entries : /\ e[2] \in 1..size
                         /\ CellOf(e[2]) = TileCell(added[e[1]])
  BY <1>2, Types DEF IInv, Directory
<1>5. \A o \in 1..size : CellOf(o) = partial.body[o]
  BY <1>1, <1>2, <1>3 DEF CellOf, CellAt
<1> QED BY <1>1, <1>2, <1>3, <1>4, <1>5

\* Where the run's cells stay what they were, its directory stays good.
LEMMA DirectoryKept ==
  ASSUME IInv, Live, buf = <<>>,
         partial' \in Files, size <= Len(partial'.body),
         \A j \in 1..size : partial'.body[j] = partial.body[j],
         UNCHANGED <<entries, size, buf, added>>
  PROVE  Directory'
<1>1. Flushed' = size
  BY Drained DEF Flushed
<1>2. Len(partial'.body) \in Nat
  BY FileFields, LenProperties
<1>3. ASSUME NEW o \in 1..size PROVE CellOf(o)' = partial.body[o]
  <2>1. o \in 1..Len(partial'.body)
    BY <1>2, <1>3, Drained
  <2> QED BY <1>1, <1>3, <2>1, Drained DEF CellOf, CellAt
<1>4. \A e \in entries : /\ e[2] \in 1..size
                         /\ CellOf(e[2])' = TileCell(added[e[1]])
  BY <1>3, Drained
<1>5. DOMAIN added = {e[1] : e \in entries}
  BY DEF IInv, Directory
<1>6. \A e \in entries : e[2] <= size
  BY <1>4, Drained
<1> QED BY <1>4, <1>5, <1>6 DEF Directory

\* The directory of the assembly is the run's.
LEMMA AssembleStep ==
  ASSUME IInv, NEW fin \in BOOLEAN, NEW deep \in BOOLEAN, Assemble(fin, deep)
  PROVE  IInv'
<1> USE DEF Assemble, fileVars, runVars
<1>1. snap' \in Snapshots /\ snap'.dir = entries
  BY Types DEF IInv, Snapshots
<1>2. TypeOK'
  <2>1. dirty' \in BOOLEAN /\ final' \in BOOLEAN /\ landed' \in BOOLEAN
    BY DEF IInv, TypeOK
  <2>2. Flushed' = Flushed
    BY DEF Flushed
  <2> QED BY <1>1, <2>1, <2>2 DEF IInv, TypeOK
<1>3. Sound(partial)' /\ Sound(prev)' /\ Sound(output)' /\ OutputWhole'
  BY DEF IInv, OutputWhole
<1>4. Spool' /\ Prefix'
  BY DEF IInv, Spool, Prefix, Live, Flushed
<1>5. Directory'
  <2>1. \A o : CellOf(o)' = CellOf(o)
    BY DEF CellOf, Flushed
  <2> QED BY <2>1 DEF IInv, Directory, Live
<1>6. Assembly'
  BY <1>1 DEF Assembly
<1> QED BY <1>2, <1>3, <1>4, <1>5, <1>6 DEF IInv

\* A prefix that parses while an assembly replaces the tail describes every
\* tile body there is, so whatever follows them may change.
LEMMA SoundTail ==
  ASSUME IInv, Live, buf = <<>>,
         pc \in {"flush", "meta", "leaves", "head"},
         NEW p \in Files, p.magic = partial.magic, p.dataEnd = partial.dataEnd,
         p.root = partial.root, p.truth = partial.truth,
         size <= Len(p.body),
         \A j \in 1..size : p.body[j] = partial.body[j],
         \A j \in 1..Len(p.body) : j > size => p.body[j].kind # "tile"
  PROVE  Sound(p)
<1> SUFFICES ASSUME Parses(p) PROVE Resolves(p) /\ ClearPast(p)
  BY DEF Sound
<1>1. Parses(partial)
  BY Drained, FileFields DEF Parses
<1>2. partial.dataEnd = size
  BY <1>1 DEF Parses, IInv, Prefix
<1>3. Resolves(partial)
  BY <1>1 DEF IInv, Sound
<1>4. Resolves(p)
  <2>1. DOMAIN p.truth = {e[1] : e \in p.root.dir}
    BY <1>3 DEF Resolves
  <2>2. ASSUME NEW e \in p.root.dir
        PROVE  /\ e[2] <= p.dataEnd /\ e[2] <= Len(p.body)
               /\ p.body[e[2]] = TileCell(p.truth[e[1]])
    <3>1. p.root \in Snapshots
      BY FileFields DEF Parses
    <3>2. e[2] \in Nat \ {0}
      BY <3>1 DEF Snapshots
    <3>3. e[2] <= size /\ partial.body[e[2]] = TileCell(partial.truth[e[1]])
      BY <1>2, <1>3 DEF Resolves
    <3>4. Len(p.body) \in Nat /\ size \in Nat
      BY FileFields, LenProperties, Drained
    <3>5. e[2] \in 1..size /\ e[2] <= Len(p.body)
      BY <3>2, <3>3, <3>4
    <3> QED BY <1>2, <3>3, <3>5
  <2> QED BY <2>1, <2>2 DEF Resolves
<1>5. ClearPast(p)
  BY <1>2 DEF ClearPast
<1> QED BY <1>4, <1>5

\* The old tail is dropped.
LEMMA TruncateTailStep == IInv /\ TruncateTail => IInv'
<1> SUFFICES ASSUME IInv, TruncateTail PROVE IInv'
  OBVIOUS
<1>1. /\ pc = "flush" /\ buf = <<>> /\ pc' = "meta" /\ Live
      /\ partial' = [partial EXCEPT !.body = SubSeq(@, 1, size)]
      /\ UNCHANGED <<prev, output, entries, size, buf, dirty, landed, added,
                     cur, snap, final, left, runs>>
  BY DEF TruncateTail, Live, runVars, asmVars
<1>2. /\ partial \in Files /\ size \in Nat /\ Len(partial.body) \in Nat
      /\ size <= Len(partial.body) /\ Flushed = size
  BY <1>1, Drained
<1>3. /\ partial' \in Files /\ Len(partial'.body) = size
      /\ \A j \in 1..size : partial'.body[j] = partial.body[j]
      /\ partial'.magic = partial.magic /\ partial'.dataEnd = partial.dataEnd
      /\ partial'.root = partial.root /\ partial'.truth = partial.truth
      /\ partial'.reserved = partial.reserved
  <2>1. partial.body \in Seq(Cells)
    BY <1>2, FileFields
  <2>2. /\ SubSeq(partial.body, 1, size) \in Seq(Cells)
        /\ Len(SubSeq(partial.body, 1, size)) = size
        /\ \A j \in 1..size : SubSeq(partial.body, 1, size)[j] = partial.body[j]
    BY <1>2, <2>1, SubSeqProperties
  <2> DEFINE sub == SubSeq(partial.body, 1, size)
  <2>3. partial' = [partial EXCEPT !.body = sub]
    BY <1>1
  <2> HIDE DEF sub
  <2>4. partial' \in Files /\ partial'.body = sub
    BY <1>2, <2>2, <2>3 DEF Files, sub
  <2>5. /\ partial'.magic = partial.magic /\ partial'.dataEnd = partial.dataEnd
        /\ partial'.root = partial.root /\ partial'.truth = partial.truth
        /\ partial'.reserved = partial.reserved
    BY <1>2, <2>3 DEF Files
  <2> QED BY <2>2, <2>4, <2>5 DEF sub
<1>4. TypeOK'
  <2>1. dirty' \in BOOLEAN /\ final' \in BOOLEAN /\ landed' \in BOOLEAN
    BY <1>1 DEF IInv, TypeOK
  <2>2. Flushed' = Flushed
    BY <1>1 DEF Flushed
  <2> QED BY <1>1, <1>3, <2>1, <2>2 DEF IInv, TypeOK
<1>5. Sound(partial)' /\ Sound(prev)' /\ Sound(output)' /\ OutputWhole'
  <2>1. \A j \in 1..Len(partial'.body) :
          j > size => partial'.body[j].kind # "tile"
    BY <1>2, <1>3
  <2>2. size <= Len(partial'.body)
    BY <1>2, <1>3
  <2>3. Sound(partial')
    BY <1>1, <1>3, <2>1, <2>2, SoundTail
  <2> QED BY <1>1, <2>3 DEF IInv, OutputWhole
<1>6. Spool'
  BY <1>1, <1>2, <1>3 DEF IInv, Spool, Live, Flushed
<1>7. Directory'
  BY <1>1, <1>2, <1>3, DirectoryKept
<1>8. Prefix'
  BY <1>1, <1>3 DEF IInv, Prefix, Live
<1>9. Assembly'
  BY <1>1, <1>3 DEF IInv, Assembly
<1> QED BY <1>4, <1>5, <1>6, <1>7, <1>8, <1>9 DEF IInv

\* A section is written at the end of the file, past the tile data.
LEMMA SectionWritten ==
  ASSUME IInv, pc \in {"meta", "leaves"}, NEW i \in Nat, NEW c \in Cells,
         i = Len(partial.body) + 1, c.kind # "tile",
         partial' = PutCell(partial, i, c),
         UNCHANGED <<prev, output, entries, size, buf, dirty, landed, added,
                     cur, snap, final, left, runs>>,
         pc' \in {"leaves", "head"}
  PROVE  /\ TypeOK' /\ Sound(partial)' /\ Sound(prev)' /\ Sound(output)'
         /\ Spool' /\ Directory' /\ Prefix' /\ OutputWhole'
         /\ partial'.body[i] = c /\ Len(partial'.body) = i
         /\ \A j \in 1..Len(partial.body) : partial'.body[j] = partial.body[j]
<1>1. Live /\ buf = <<>> /\ Live'
  BY DEF Live, IInv, Prefix
<1>2. /\ partial \in Files /\ size \in Nat /\ Len(partial.body) \in Nat
      /\ size <= Len(partial.body) /\ Flushed = size
  BY <1>1, Drained
<1>3. 1 <= i /\ i <= Len(partial.body) + 1
  BY <1>2
<1>4. /\ partial' \in Files /\ Len(partial'.body) = i /\ partial'.body[i] = c
      /\ partial'.magic = partial.magic /\ partial'.dataEnd = partial.dataEnd
      /\ partial'.root = partial.root /\ partial'.truth = partial.truth
      /\ partial'.reserved = partial.reserved
  BY <1>2, <1>3, PutOne
<1>5. ASSUME NEW j \in 1..Len(partial.body)
      PROVE  partial'.body[j] = partial.body[j]
  <2>1. j # i
    BY <1>2
  <2> QED BY <1>2, <1>3, <1>5, <2>1, PutOne
<1>6. TypeOK'
  <2>1. dirty' \in BOOLEAN /\ final' \in BOOLEAN /\ landed' \in BOOLEAN
    BY DEF IInv, TypeOK
  <2>2. Flushed' = Flushed
    BY DEF Flushed
  <2> QED BY <1>4, <2>1, <2>2 DEF IInv, TypeOK
<1>7. \A j \in 1..size : partial'.body[j] = partial.body[j]
  BY <1>2, <1>5
<1>8. size <= Len(partial'.body)
  BY <1>2, <1>4
<1>9. Sound(partial)' /\ Sound(prev)' /\ Sound(output)' /\ OutputWhole'
  <2>1. ASSUME NEW j \in 1..Len(partial'.body), j > size
        PROVE  partial'.body[j].kind # "tile"
    <3>1. CASE j = i
      BY <1>4, <3>1
    <3>2. CASE j # i
      <4>1. j \in 1..Len(partial.body)
        BY <1>2, <1>4, <3>2
      <4>2. j = size + 1 /\ pc = "leaves"
        BY <1>2, <2>1, <4>1 DEF IInv, Assembly
      <4>3. partial.body[j] = MetaCell(snap)
        BY <4>2 DEF IInv, Assembly
      <4> QED BY <1>5, <4>1, <4>3 DEF MetaCell
    <3> QED BY <3>1, <3>2
  <2>2. Sound(partial')
    BY <1>1, <1>4, <1>7, <1>8, <2>1, SoundTail
  <2> QED BY <2>2 DEF IInv, OutputWhole
<1>10. Spool'
  BY <1>1, <1>2, <1>4, <1>8 DEF IInv, Spool, Live, Flushed
<1>11. Directory'
  BY <1>1, <1>4, <1>7, <1>8, DirectoryKept
<1>12. Prefix'
  BY <1>1, <1>4 DEF IInv, Prefix, Live
<1> QED BY <1>4, <1>5, <1>6, <1>9, <1>10, <1>11, <1>12

\* The metadata section.
LEMMA WriteMetadataStep == IInv /\ WriteMetadata => IInv'
<1> SUFFICES ASSUME IInv, WriteMetadata PROVE IInv'
  OBVIOUS
<1> PICK c \in Cells : c = MetaCell(snap)
  BY DEF WriteMetadata, IInv, Assembly, MetaCell, Cells
<1> PICK i \in Nat : i = size + 1
  BY Types DEF IInv
<1>1. /\ pc = "meta" /\ pc' \in {"leaves", "head"}
      /\ pc' = IF Spills(snap) THEN "leaves" ELSE "head"
      /\ partial' = PutCell(partial, i, c)
      /\ UNCHANGED <<prev, output, entries, size, buf, dirty, landed, added,
                     cur, snap, final, left, runs>>
  BY DEF WriteMetadata, PutCell, runVars, asmVars
<1>2. /\ Len(partial.body) = size /\ c.kind # "tile"
      /\ snap \in Snapshots /\ snap.dir = entries
  BY <1>1 DEF IInv, Assembly, MetaCell
<1>3. /\ TypeOK' /\ Sound(partial)' /\ Sound(prev)' /\ Sound(output)'
      /\ Spool' /\ Directory' /\ Prefix' /\ OutputWhole'
      /\ partial'.body[i] = c /\ Len(partial'.body) = i
  BY <1>1, <1>2, SectionWritten
<1>4. Spills(snap)' = Spills(snap) /\ MetaCell(snap)' = MetaCell(snap)
  BY <1>1 DEF Spills, MetaCell
<1>5. Assembly'
  BY <1>1, <1>2, <1>3, <1>4 DEF Assembly
<1> QED BY <1>3, <1>5 DEF IInv

\* The leaf directories.
LEMMA WriteLeavesStep == IInv /\ WriteLeaves => IInv'
<1> SUFFICES ASSUME IInv, WriteLeaves PROVE IInv'
  OBVIOUS
<1> PICK c \in Cells : c = LeafCell(snap)
  BY DEF WriteLeaves, IInv, Assembly, LeafCell, Cells
<1> PICK i \in Nat : i = size + 2
  BY Types DEF IInv
<1>1. /\ pc = "leaves" /\ pc' = "head" /\ size \in Nat
      /\ partial' = PutCell(partial, i, c)
      /\ UNCHANGED <<prev, output, entries, size, buf, dirty, landed, added,
                     cur, snap, final, left, runs>>
  BY Types DEF WriteLeaves, PutCell, runVars, asmVars, IInv
<1>2. /\ Len(partial.body) = size + 1 /\ Spills(snap) /\ c.kind # "tile"
      /\ snap \in Snapshots /\ snap.dir = entries
      /\ partial.body[size + 1] = MetaCell(snap)
  BY <1>1 DEF IInv, Assembly, LeafCell
<1>3. i = Len(partial.body) + 1
  BY <1>1, <1>2
<1>4. /\ TypeOK' /\ Sound(partial)' /\ Sound(prev)' /\ Sound(output)'
      /\ Spool' /\ Directory' /\ Prefix' /\ OutputWhole'
      /\ partial'.body[i] = c /\ Len(partial'.body) = i
      /\ \A j \in 1..Len(partial.body) : partial'.body[j] = partial.body[j]
  BY <1>1, <1>2, <1>3, SectionWritten
<1>5. partial'.body[size + 1] = MetaCell(snap)
  <2>1. size + 1 \in 1..Len(partial.body)
    BY <1>1, <1>2
  <2>2. partial'.body[size + 1] = partial.body[size + 1]
    BY <1>4, <2>1
  <2> QED  BY <1>2, <2>2
<1>6. /\ Spills(snap)' = Spills(snap) /\ MetaCell(snap)' = MetaCell(snap)
      /\ LeafCell(snap)' = LeafCell(snap)
  BY <1>1 DEF Spills, MetaCell, LeafCell
<1>7. Assembly'
  BY <1>1, <1>2, <1>4, <1>5, <1>6 DEF Assembly
<1> QED BY <1>4, <1>7 DEF IInv

\* The header's page lands: the root directory behind it is not there yet.
LEMMA WriteHeaderStep == IInv /\ WriteHeader => IInv'
<1> SUFFICES ASSUME IInv, WriteHeader PROVE IInv'
  OBVIOUS
<1>1. /\ pc = "head" /\ pc' = "root" /\ Live /\ buf = <<>>
      /\ partial' = [partial EXCEPT !.magic = TRUE, !.dataEnd = size, !.root = Torn]
      /\ UNCHANGED <<prev, output, entries, size, buf, dirty, landed, added,
                     cur, snap, final, left, runs>>
  BY DEF WriteHeader, runVars, asmVars, Live, IInv, Prefix
<1>2. /\ partial \in Files /\ size \in Nat /\ Flushed = size
      /\ size <= Len(partial.body)
  BY <1>1, Drained
<1>3. /\ partial' \in Files /\ partial'.body = partial.body
      /\ partial'.dataEnd = size /\ partial'.root = Torn
      /\ partial'.reserved = partial.reserved /\ partial'.magic
  BY <1>1, <1>2 DEF Files
<1>4. TypeOK'
  <2>1. dirty' \in BOOLEAN /\ final' \in BOOLEAN /\ landed' \in BOOLEAN
    BY <1>1 DEF IInv, TypeOK
  <2>2. Flushed' = Flushed
    BY <1>1 DEF Flushed
  <2> QED BY <1>1, <1>3, <2>1, <2>2 DEF IInv, TypeOK
<1>5. Sound(partial)' /\ Sound(prev)' /\ Sound(output)' /\ OutputWhole'
  BY <1>1, <1>3 DEF IInv, OutputWhole, Sound, Parses
<1>6. Spool'
  BY <1>1, <1>2, <1>3 DEF IInv, Spool, Live, Flushed
<1>7. Directory'
  BY <1>1, <1>2, <1>3, DirectoryKept
<1>8. Prefix'
  BY <1>1, <1>3 DEF IInv, Prefix, Live
<1>9. Assembly'
  BY <1>1, <1>3 DEF IInv, Assembly, Spills, MetaCell, LeafCell
<1> QED BY <1>4, <1>5, <1>6, <1>7, <1>8, <1>9 DEF IInv

\* The root directory's pages land: the prefix parses, and describes the file.
LEMMA WriteRootStep == IInv /\ WriteRoot => IInv'
<1> SUFFICES ASSUME IInv, WriteRoot PROVE IInv'
  OBVIOUS
<1>1. /\ pc = "root" /\ pc' = "sync" /\ Live /\ buf = <<>>
      /\ partial' = [partial EXCEPT !.root = snap, !.truth = added]
      /\ UNCHANGED <<prev, output, entries, size, buf, dirty, landed, added,
                     cur, snap, final, left, runs>>
  BY DEF WriteRoot, runVars, asmVars, Live, IInv, Prefix
<1>2. /\ partial \in Files /\ size \in Nat /\ Flushed = size
      /\ size <= Len(partial.body) /\ Len(partial.body) \in Nat
      /\ \A e \in entries : /\ e[2] \in 1..size
                            /\ partial.body[e[2]] = TileCell(added[e[1]])
  BY <1>1, Drained
<1>3. /\ partial' \in Files /\ partial'.body = partial.body
      /\ partial'.dataEnd = partial.dataEnd /\ partial'.root = snap
      /\ partial'.truth = added /\ partial'.reserved = partial.reserved
  <2>1. snap \in Snapshots /\ added \in Maps
    BY <1>1 DEF IInv, Assembly, TypeOK
  <2> QED BY <1>1, <1>2, <2>1 DEF Files
<1>4. TypeOK'
  <2>1. dirty' \in BOOLEAN /\ final' \in BOOLEAN /\ landed' \in BOOLEAN
    BY <1>1 DEF IInv, TypeOK
  <2>2. Flushed' = Flushed
    BY <1>1 DEF Flushed
  <2> QED BY <1>1, <1>3, <2>1, <2>2 DEF IInv, TypeOK
<1>5. partial'.dataEnd = size /\ snap.dir = entries
  BY <1>1, <1>3 DEF IInv, Prefix, Assembly
<1>6. Sound(partial)' /\ Sound(prev)' /\ Sound(output)' /\ OutputWhole'
  <2>1. Resolves(partial')
    <3>1. DOMAIN added = {e[1] : e \in entries}
      BY <1>1 DEF IInv, Directory
    <3> QED BY <1>2, <1>3, <1>5, <3>1 DEF Resolves
  <2>2. ClearPast(partial')
    <3>1. ASSUME NEW i \in 1..Len(partial.body), i > size
          PROVE  partial.body[i].kind # "tile"
      <4>1. \/ i = size + 1
            \/ i = size + 2 /\ Spills(snap)
        BY <1>1, <1>2, <3>1 DEF IInv, Assembly
      <4> QED BY <1>1, <4>1 DEF IInv, Assembly, MetaCell, LeafCell
    <3> QED BY <1>3, <1>5, <3>1 DEF ClearPast
  <2> QED BY <1>1, <2>1, <2>2 DEF IInv, OutputWhole, Sound
<1>7. Spool'
  BY <1>1, <1>2, <1>3 DEF IInv, Spool, Live, Flushed
<1>8. Directory'
  BY <1>1, <1>2, <1>3, DirectoryKept
<1>9. Prefix'
  <2>1. partial'.magic = partial.magic
    BY <1>1, <1>2 DEF Files
  <2>2. partial.magic
    BY <1>1 DEF IInv, Prefix
  <2> QED BY <1>1, <1>3, <1>5, <2>1, <2>2 DEF Prefix, Live
<1>10. Assembly'
  BY <1>1, <1>3 DEF IInv, Assembly, Spills, MetaCell, LeafCell
<1> QED BY <1>4, <1>6, <1>7, <1>8, <1>9, <1>10 DEF IInv

\* With every section in place a file whose prefix describes it reads.
LEMMA Complete ==
  IInv /\ pc \in {"sync", "publish"}
    => /\ Readable(partial)
       /\ Len(partial.body) = partial.dataEnd + (IF Spills(partial.root) THEN 2 ELSE 1)
<1> SUFFICES ASSUME IInv, pc \in {"sync", "publish"}
             PROVE  /\ Readable(partial)
                    /\ Len(partial.body) = partial.dataEnd
                                             + (IF Spills(partial.root) THEN 2 ELSE 1)
  OBVIOUS
<1>1. /\ partial \in Files /\ size \in Nat /\ Len(partial.body) \in Nat
  <2>1. Live /\ buf = <<>>
    BY DEF Live, IInv, Prefix
  <2> QED BY <2>1, Drained
<1>2. /\ partial.magic /\ partial.dataEnd = size /\ partial.root = snap
      /\ snap \in Snapshots
      /\ Len(partial.body) = size + (IF Spills(snap) THEN 2 ELSE 1)
      /\ partial.body[size + 1] = MetaCell(snap)
      /\ Spills(snap) => partial.body[size + 2] = LeafCell(snap)
  BY DEF IInv, Prefix, Assembly
<1>3. Parses(partial)
  BY <1>1, <1>2, FileFields, SentinelAssumption DEF Parses
<1>4. size + 1 \in 1..Len(partial.body)
  BY <1>1, <1>2
<1>5. Spills(snap) => size + 2 \in 1..Len(partial.body)
  BY <1>1, <1>2
<1> QED BY <1>2, <1>3, <1>4, <1>5 DEF Readable, CellAt

\* sync_all returned.
LEMMA SyncedStep == IInv /\ Synced => IInv'
<1> SUFFICES ASSUME IInv, Synced PROVE IInv'
  OBVIOUS
<1> USE DEF Synced, fileVars, asmVars
<1>1. pc = "sync" /\ pc' \in {"adding", "publish"} /\ Live /\ Live'
  BY DEF Live
<1>2. TypeOK'
  <2>1. dirty' \in BOOLEAN /\ final' \in BOOLEAN /\ landed' \in BOOLEAN
    BY DEF IInv, TypeOK
  <2>2. Flushed' = Flushed
    BY DEF Flushed
  <2> QED BY <1>1, <2>1, <2>2 DEF IInv, TypeOK
<1>3. Sound(partial)' /\ Sound(prev)' /\ Sound(output)' /\ OutputWhole'
  BY DEF IInv, OutputWhole
<1>4. Spool'
  BY <1>1 DEF IInv, Spool, Live, Flushed
<1>5. Directory'
  <2>1. \A o : CellOf(o)' = CellOf(o)
    BY DEF CellOf, Flushed
  <2> QED BY <1>1, <2>1 DEF IInv, Directory
<1>6. Prefix'
  BY <1>1 DEF IInv, Prefix, Live
<1>7. Assembly'
  <2>1. Readable(partial)
    BY <1>1, Complete
  <2> QED BY <1>1, <2>1 DEF IInv, Assembly
<1> QED BY <1>2, <1>3, <1>4, <1>5, <1>6, <1>7 DEF IInv

-----------------------------------------------------------------------------
(* The invariant: the end of a run *)

\* The partial becomes the output.
LEMMA PublishStep == IInv /\ Publish => IInv'
<1> SUFFICES ASSUME IInv, Publish PROVE IInv'
  OBVIOUS
<1> USE DEF Publish, asmVars
<1>1. TypeOK'
  <2>1. dirty' \in BOOLEAN /\ final' \in BOOLEAN /\ landed' \in BOOLEAN
    BY DEF IInv, TypeOK
  <2>2. Flushed' = Flushed
    BY DEF Flushed
  <2> QED BY <2>1, <2>2 DEF IInv, TypeOK
<1>2. Sound(partial)' /\ Sound(prev)' /\ Sound(output)'
  BY DEF IInv, Sound, Parses
<1>3. OutputWhole'
  <2>1. /\ Readable(partial)
        /\ Len(partial.body) = partial.dataEnd + (IF Spills(partial.root) THEN 2 ELSE 1)
    BY Complete
  <2> QED BY <2>1 DEF OutputWhole
<1>4. Spool' /\ Directory' /\ Prefix' /\ Assembly'
  BY DEF Spool, Directory, Prefix, Assembly, Live
<1> QED BY <1>1, <1>2, <1>3, <1>4 DEF IInv

\* The older salvage goes, or stays.
LEMMA RemovePrevStep == IInv /\ RemovePrev => IInv'
<1> SUFFICES ASSUME IInv, RemovePrev PROVE IInv'
  OBVIOUS
<1> USE DEF RemovePrev, runVars, asmVars
<1>1. TypeOK'
  <2>1. dirty' \in BOOLEAN /\ final' \in BOOLEAN /\ landed' \in BOOLEAN
    BY DEF IInv, TypeOK
  <2>2. Flushed' = Flushed
    BY DEF Flushed
  <2> QED BY <2>1, <2>2 DEF IInv, TypeOK
<1>2. Sound(partial)' /\ Sound(prev)' /\ Sound(output)' /\ OutputWhole'
  <2>1. Sound(Absent)
    BY DEF Sound, Parses
  <2>2. prev' = prev \/ prev' = Absent
    OBVIOUS
  <2> QED BY <2>1, <2>2 DEF IInv, OutputWhole
<1>3. Spool' /\ Directory' /\ Prefix' /\ Assembly'
  BY DEF Spool, Directory, Prefix, Assembly, Live
<1> QED BY <1>1, <1>2, <1>3 DEF IInv

\* The process dies.
LEMMA KillStep == IInv /\ Kill => IInv'
<1> SUFFICES ASSUME IInv, Kill PROVE IInv'
  OBVIOUS
<1> USE DEF Kill, fileVars, asmVars
<1>1. TypeOK'
  <2>1. dirty' \in BOOLEAN /\ final' \in BOOLEAN /\ landed' \in BOOLEAN
    BY DEF IInv, TypeOK
  <2>2. /\ buf' \in Seq([kind : {"tile"}, of : Bodies]) /\ Flushed' \in Nat
    BY Types DEF IInv, Flushed
  <2>3. left' \in Files \cup {Absent}
    BY DEF IInv, TypeOK, Leave
  <2> QED BY <2>1, <2>2, <2>3 DEF IInv, TypeOK
<1>2. Sound(partial)' /\ Sound(prev)' /\ Sound(output)' /\ OutputWhole'
  BY DEF IInv, OutputWhole
<1>3. Spool' /\ Directory' /\ Prefix' /\ Assembly'
  BY DEF Spool, Directory, Prefix, Assembly, Live
<1> QED BY <1>1, <1>2, <1>3 DEF IInv

\* What Drop leaves where the partial was: nothing, the file with more of the
\* buffer written out under a prefix that does not parse, or, when nothing was
\* buffered, the file as it is.
LEMMA Dropped ==
  ASSUME IInv, Fail
  PROVE  \/ partial' = Absent /\ left' = left
         \/ /\ partial' \in Files /\ partial'.reserved /\ left' = partial'
            /\ \/ ~partial'.magic
               \/ /\ partial'.magic = partial.magic
                  /\ partial'.dataEnd = partial.dataEnd
                  /\ partial'.root = partial.root
                  /\ partial'.truth = partial.truth
                  /\ Len(partial'.body) = Len(partial.body)
                  /\ \A j \in 1..Len(partial.body) :
                       partial'.body[j] = partial.body[j]
<1>1. Live /\ partial \in Files /\ partial.reserved /\ Flushed <= Len(partial.body)
  BY DEF Fail, IInv, Spool, Live, TypeOK
<1>2. CASE ~landed
  BY <1>2 DEF Fail
<1>3. CASE landed
  <2>1. PICK k \in 0..Len(buf) :
          partial' = Put(partial, Flushed + 1, SubSeq(buf, 1, k))
    BY <1>3 DEF Fail
  <2> DEFINE cells == SubSeq(buf, 1, k)
  <2>2. /\ Flushed \in Nat /\ buf \in Seq(Cells) /\ Len(buf) \in Nat
    BY Types DEF IInv
  <2>3. cells \in Seq(Cells) /\ Len(cells) = k
    BY <2>2, SubSeqProperties
  <2>4. k \in Nat /\ k <= Len(buf)
    BY <2>2
  <2> PICK i \in Nat : i = Flushed + 1
    BY <2>2
  <2>5. partial' = Put(partial, i, cells)
    BY <2>1
  <2> HIDE DEF cells
  <2>6. 1 <= i /\ i <= Len(partial.body) + 1 /\ Len(partial.body) \in Nat
    BY <1>1, <2>2, FileFields, LenProperties
  <2>7. partial \in Files
    BY <1>1
  <2>8. /\ Put(partial, i, cells) \in Files
        /\ Put(partial, i, cells).reserved = partial.reserved
        /\ Put(partial, i, cells).magic = partial.magic
        /\ Put(partial, i, cells).dataEnd = partial.dataEnd
        /\ Put(partial, i, cells).root = partial.root
        /\ Put(partial, i, cells).truth = partial.truth
    BY <2>3, <2>6, <2>7, PutFacts
  <2>9. partial' # Absent /\ left' = partial'
    <3>1. partial' \in Files
      BY <2>5, <2>8
    <3>2. partial' # Absent
      BY <3>1, SentinelAssumption
    <3> QED BY <3>2 DEF Fail
  <2>10. CASE buf # <<>>
    <3>1. ~partial.magic
      BY <1>1, <2>10 DEF IInv, Prefix
    <3>2. ~partial'.magic
      BY <2>5, <2>8, <3>1
    <3>3. partial' \in Files /\ partial'.reserved
      BY <1>1, <2>5, <2>8
    <3> QED BY <2>9, <3>2, <3>3
  <2>11. CASE buf = <<>>
    <3>1. k = 0 /\ Len(cells) = 0
      BY <2>3, <2>4, <2>11
    <3>2. Len(Put(partial, i, cells).body) = Len(partial.body)
      <4>1. Len(Put(partial, i, cells).body) =
              IF i + Len(cells) - 1 > Len(partial.body) THEN i + Len(cells) - 1
                                                        ELSE Len(partial.body)
        BY <2>3, <2>6, <2>7, PutFacts
      <4> QED BY <2>6, <3>1, <4>1
    <3>3. ASSUME NEW j \in 1..Len(partial.body)
          PROVE  Put(partial, i, cells).body[j] = partial.body[j]
      <4>1. j \in 1..Len(Put(partial, i, cells).body)
        BY <3>2
      <4>2. ~(j \in i..(i + Len(cells) - 1))
        BY <2>6, <3>1
      <4>3. \A n \in 1..Len(Put(partial, i, cells).body) :
              Put(partial, i, cells).body[n] =
                IF n \in i..(i + Len(cells) - 1) THEN cells[n - i + 1]
                                                 ELSE partial.body[n]
        BY <2>3, <2>6, <2>7, PutFacts
      <4> QED BY <4>1, <4>2, <4>3
    <3>4. partial' \in Files /\ partial'.reserved
      BY <1>1, <2>5, <2>8
    <3> QED BY <2>5, <2>8, <2>9, <3>2, <3>3, <3>4
  <2> QED BY <2>10, <2>11
<1> QED BY <1>2, <1>3

\* Two files with the same prefix and the same cells are as good.
LEMMA SoundSame ==
  ASSUME NEW f, NEW g, Sound(f), f # Absent, Len(f.body) \in Nat,
         g.magic = f.magic, g.dataEnd = f.dataEnd, g.root = f.root,
         g.truth = f.truth, Len(g.body) = Len(f.body),
         \A j \in 1..Len(f.body) : g.body[j] = f.body[j],
         f.root \in Snapshots \cup {Absent, Torn}
  PROVE  Sound(g)
<1> SUFFICES ASSUME Parses(g) PROVE Resolves(g) /\ ClearPast(g)
  BY DEF Sound
<1>1. Parses(f)
  BY DEF Parses
<1>2. Resolves(f) /\ ClearPast(f)
  BY <1>1 DEF Sound
<1>3. ClearPast(g)
  BY <1>2 DEF ClearPast
<1>4. DOMAIN g.truth = {e[1] : e \in g.root.dir}
  BY <1>2 DEF Resolves
<1>5. ASSUME NEW e \in g.root.dir
      PROVE  /\ e[2] <= g.dataEnd /\ e[2] <= Len(g.body)
             /\ g.body[e[2]] = TileCell(g.truth[e[1]])
  <2>1. g.root \in Snapshots
    BY DEF Parses
  <2>2. e[2] \in Nat \ {0}
    BY <2>1 DEF Snapshots
  <2>3. /\ e[2] <= f.dataEnd /\ e[2] <= Len(f.body)
        /\ f.body[e[2]] = TileCell(f.truth[e[1]])
    BY <1>2 DEF Resolves
  <2>4. e[2] \in 1..Len(f.body)
    BY <2>2, <2>3
  <2> QED BY <2>3, <2>4
<1> QED BY <1>3, <1>4, <1>5 DEF Resolves

\* A run fails and is dropped.
LEMMA FailStep == IInv /\ Fail => IInv'
<1> SUFFICES ASSUME IInv, Fail PROVE IInv'
  OBVIOUS
<1>1. /\ pc' = "idle" /\ buf' = <<>>
      /\ UNCHANGED <<prev, output, entries, size, dirty, landed, added, cur,
                     snap, final, runs>>
  BY DEF Fail, asmVars
<1>2. TypeOK'
  <2>1. dirty' \in BOOLEAN /\ final' \in BOOLEAN /\ landed' \in BOOLEAN
    BY <1>1 DEF IInv, TypeOK
  <2>2. /\ buf' \in Seq([kind : {"tile"}, of : Bodies]) /\ Flushed' \in Nat
    BY <1>1, Types DEF IInv, Flushed
  <2>3. partial' \in Files \cup {Absent} /\ left' \in Files \cup {Absent}
    BY Dropped DEF IInv, TypeOK
  <2> QED BY <1>1, <2>1, <2>2, <2>3 DEF IInv, TypeOK
<1>3. Sound(partial)'
  <2>1. CASE partial' = Absent
    BY <2>1 DEF Sound, Parses
  <2>2. CASE partial' # Absent
    <3>1. CASE ~partial'.magic
      BY <3>1 DEF Sound, Parses
    <3>2. CASE partial'.magic
      <4>1. partial \in Files /\ Sound(partial)
        BY DEF Fail, IInv, Spool, Live, TypeOK
      <4>2. /\ partial # Absent /\ Len(partial.body) \in Nat
            /\ partial.root \in Snapshots \cup {Absent, Torn}
        BY <4>1, FileFields, LenProperties
      <4>3. /\ partial'.magic = partial.magic
            /\ partial'.dataEnd = partial.dataEnd
            /\ partial'.root = partial.root
            /\ partial'.truth = partial.truth
            /\ Len(partial'.body) = Len(partial.body)
            /\ \A j \in 1..Len(partial.body) :
                 partial'.body[j] = partial.body[j]
        BY <2>2, <3>2, Dropped
      <4> QED BY <4>1, <4>2, <4>3, SoundSame
    <3> QED BY <3>1, <3>2
  <2> QED BY <2>1, <2>2
<1>4. Sound(prev)' /\ Sound(output)' /\ OutputWhole'
  BY <1>1 DEF IInv, OutputWhole
<1>5. Spool' /\ Directory' /\ Prefix' /\ Assembly'
  BY <1>1 DEF Spool, Directory, Prefix, Assembly, Live
<1> QED BY <1>2, <1>3, <1>4, <1>5 DEF IInv

\* Nothing happens.
LEMMA StutterStep == IInv /\ UNCHANGED vars => IInv'
<1> SUFFICES ASSUME IInv, UNCHANGED vars PROVE IInv'
  OBVIOUS
<1> USE DEF vars, fileVars, runVars, asmVars
<1>1. TypeOK'
  BY DEF IInv, TypeOK, Flushed
<1>2. Sound(partial)' /\ Sound(prev)' /\ Sound(output)' /\ OutputWhole'
  BY DEF IInv, OutputWhole
<1>3. Spool' /\ Prefix' /\ Assembly'
  BY DEF IInv, Spool, Prefix, Live, Flushed, Assembly
<1>4. Directory'
  <2>1. \A o : CellOf(o)' = CellOf(o)
    BY DEF CellOf, Flushed
  <2> QED BY <2>1 DEF IInv, Directory, Live
<1> QED BY <1>1, <1>2, <1>3, <1>4 DEF IInv

\* Every step keeps the invariant.
LEMMA NextIInv == IInv /\ [Next]_vars => IInv'
<1> SUFFICES ASSUME IInv, [Next]_vars PROVE IInv'
  OBVIOUS
<1>1. ASSUME NEW t \in Tiles, NEW b \in Bodies,
             AddDuplicate(t, b) \/ BeginAppend(t, b)
      PROVE  IInv'
  BY <1>1, AddDuplicateStep, BeginAppendStep
<1>2. ASSUME NEW fin \in BOOLEAN, NEW deep \in BOOLEAN, Assemble(fin, deep)
      PROVE  IInv'
  BY <1>2, AssembleStep
<1>3. CASE Open \/ Create \/ Reserve
  BY <1>3, OpenStep, CreateStep, ReserveStep
<1>4. CASE AppendBuffered \/ Spill \/ Drain \/ AppendSpilled
  BY <1>4, AppendBufferedStep, SpillStep, DrainStep, AppendSpilledStep
<1>5. CASE TruncateTail \/ WriteMetadata \/ WriteLeaves
  BY <1>5, TruncateTailStep, WriteMetadataStep, WriteLeavesStep
<1>6. CASE WriteHeader \/ WriteRoot \/ Synced
  BY <1>6, WriteHeaderStep, WriteRootStep, SyncedStep
<1>7. CASE Publish \/ RemovePrev \/ Kill \/ Fail
  BY <1>7, PublishStep, RemovePrevStep, KillStep, FailStep
<1>8. CASE UNCHANGED vars
  BY <1>8, StutterStep
<1> QED BY <1>1, <1>2, <1>3, <1>4, <1>5, <1>6, <1>7, <1>8 DEF Next

\* The invariant holds of every behaviour.
LEMMA Invariance == Spec => []IInv
BY InitIInv, NextIInv, PTL DEF Spec

-----------------------------------------------------------------------------
(* Theorems *)

\* The variables keep their types: in particular what the buffer holds is part
\* of what current_offset counts.
THEOREM TypeCorrect == Spec => []TypeOK
<1>1. IInv => TypeOK
  BY DEF IInv
<1> QED BY <1>1, Invariance, PTL

\* A sound file that reads serves what it stands for.
LEMMA SoundServes ==
  ASSUME NEW f \in Files, Sound(f), Parses(f)
  PROVE  Served(f) = f.truth
<1>1. Resolves(f)
  BY DEF Sound
<1>2. f.root \in Snapshots /\ f.body \in Seq(Cells) /\ Len(f.body) \in Nat
  BY FileFields, LenProperties DEF Parses
<1>3. f.truth \in Maps
  BY FileFields
<1> DEFINE S == {e[1] : e \in f.root.dir}
<1>4. PICK T \in SUBSET Tiles : f.truth \in [T -> Bodies]
  BY <1>3 DEF Maps
<1>5. S = T
  BY <1>1, <1>4 DEF Resolves
<1>6. ASSUME NEW t \in S PROVE Served(f)[t] = f.truth[t]
  <2> DEFINE e == CHOOSE x \in f.root.dir : x[1] = t
             c == CellAt(f, e[2])
  <2>1. e \in f.root.dir /\ e[1] = t
    OBVIOUS
  <2>2. Served(f)[t] = IF c # Absent /\ c.kind = "tile" THEN c.of ELSE Absent
    BY DEF Served
  <2> HIDE DEF e
  <2>3. e[2] \in Nat \ {0}
    BY <1>2, <2>1 DEF Snapshots
  <2>4. e[2] <= Len(f.body) /\ f.body[e[2]] = TileCell(f.truth[t])
    BY <1>1, <2>1 DEF Resolves
  <2>5. e[2] \in 1..Len(f.body)
    BY <1>2, <2>3, <2>4
  <2>6. c = TileCell(f.truth[t])
    BY <2>4, <2>5 DEF CellAt
  <2>7. c \in Cells
    BY <1>2, <2>4, <2>5, <2>6, ElementOfSeq
  <2> HIDE DEF c
  <2>8. c # Absent
    BY <2>7, SentinelAssumption
  <2> QED BY <2>2, <2>6, <2>8 DEF TileCell
<1>7. Served(f) = [t \in S |-> Served(f)[t]]
  BY DEF Served
<1>8. f.truth = [t \in S |-> f.truth[t]]
  BY <1>4, <1>5
<1> HIDE DEF S
<1> QED BY <1>6, <1>7, <1>8

\* "Never valid-looking and wrong": whichever of the three paths a file is at,
\* and whenever its writer died, if it reads it serves what its writer meant.
THEOREM NeverServesWrong == Spec => []NeverWrong
<1>1. IInv => NeverWrong
  <2> SUFFICES ASSUME IInv, NEW f \in {partial, prev, output}, Readable(f)
               PROVE  Served(f) = f.truth
    BY DEF NeverWrong
  <2>1. Parses(f) /\ Sound(f)
    BY DEF Readable, IInv
  <2>2. f \in Files
    BY <2>1 DEF Parses, IInv, TypeOK
  <2> QED BY <2>1, <2>2, SoundServes
<1> QED BY <1>1, Invariance, PTL

\* invalidate_tail_prefix_before_append: no prefix that parses points at tile
\* bytes where its sections should be.
THEOREM SectionsClear == Spec => []NoTileBytesInSections
<1>1. IInv => NoTileBytesInSections
  <2> SUFFICES ASSUME IInv, NEW f \in {partial, prev}, Parses(f),
                      NEW i \in {1, 2}, CellAt(f, f.dataEnd + i) # Absent
               PROVE  CellAt(f, f.dataEnd + i).kind # "tile"
    BY DEF NoTileBytesInSections
  <2>1. f \in Files /\ ClearPast(f)
    BY DEF Parses, IInv, TypeOK, Sound
  <2>2. f.dataEnd \in Nat /\ f.dataEnd + i > f.dataEnd
    BY <2>1, FileFields
  <2>3. f.dataEnd + i \in 1..Len(f.body)
    BY DEF CellAt
  <2> QED BY <2>1, <2>2, <2>3 DEF CellAt, ClearPast
<1> QED BY <1>1, Invariance, PTL

\* A checkpoint leaves a readable archive until the next append, and finalize
\* has one before it renames.
THEOREM SalvageReads == Spec => []SalvageReadable
<1>1. IInv => SalvageReadable
  <2> SUFFICES ASSUME IInv PROVE SalvageReadable
    OBVIOUS
  <2>1. pc = "adding" /\ ~dirty => Readable(partial)
    BY DEF IInv, Assembly
  <2>2. ASSUME pc = "publish" PROVE Readable(partial) /\ Served(partial) = added
    <3>1. Readable(partial) /\ Parses(partial)
      BY <2>2, Complete DEF Readable
    <3>2. partial \in Files /\ Sound(partial) /\ partial.truth = added
      BY <2>2 DEF IInv, Spool, Live, Prefix
    <3> QED BY <3>1, <3>2, SoundServes
  <2> QED BY <2>1, <2>2 DEF SalvageReadable
<1> QED BY <1>1, Invariance, PTL

\* What is at the output path is whole, and has no byte too many.
THEOREM OutputIsWhole == Spec => []OutputWhole
<1>1. IInv => OutputWhole
  BY DEF IInv
<1> QED BY <1>1, Invariance, PTL

\* A dying run makes no unreadable partial readable.
THEOREM NoResurrection == Spec => DeathRevivesNothing
<1>1. ASSUME IInv, [Next]_vars, pc' = "idle", Readable(partial')
      PROVE  Readable(partial)
  <2>1. CASE partial' = partial
    BY <1>1, <2>1
  <2>2. CASE Fail
    <3>1. Parses(partial')
      BY <1>1 DEF Readable
    <3>2. /\ partial'.magic = partial.magic /\ partial'.dataEnd = partial.dataEnd
          /\ partial'.root = partial.root
          /\ Len(partial'.body) = Len(partial.body)
          /\ \A j \in 1..Len(partial.body) : partial'.body[j] = partial.body[j]
      BY <1>1, <2>2, <3>1, Dropped DEF Parses
    <3>3. partial \in Files
      BY <1>1, <2>2 DEF Fail, IInv, Spool, Live, TypeOK
    <3>4. Parses(partial)
      BY <3>1, <3>2, <3>3, FileFields DEF Parses
    <3>5. \A i : CellAt(partial', i) = CellAt(partial, i)
      BY <3>2 DEF CellAt
    <3> QED BY <1>1, <3>2, <3>4, <3>5 DEF Readable
  <2>3. Next \/ UNCHANGED vars
    BY <1>1
  <2>4. UNCHANGED vars => partial' = partial
    BY DEF vars, fileVars
  <2>5. RemovePrev \/ Kill => partial' = partial
    BY DEF RemovePrev, Kill, fileVars
  <2>6. Next => RemovePrev \/ Kill \/ Fail \/ partial' = partial
    <3>1. Open => pc' # "idle"
      BY DEF Open
    <3>2. Create \/ Reserve => pc' # "idle"
      BY DEF Create, Reserve
    <3>3. \A t \in Tiles, b \in Bodies :
            AddDuplicate(t, b) \/ BeginAppend(t, b) => pc' # "idle"
      BY DEF AddDuplicate, BeginAppend
    <3>4. AppendBuffered \/ Spill \/ Drain \/ AppendSpilled => pc' # "idle"
      BY DEF AppendBuffered, Spill, Drain, AppendSpilled, Record
    <3>5. \A fin, deep \in BOOLEAN : Assemble(fin, deep) => pc' # "idle"
      BY DEF Assemble
    <3>6. TruncateTail \/ WriteMetadata \/ WriteLeaves => pc' # "idle"
      BY DEF TruncateTail, WriteMetadata, WriteLeaves
    <3>7. WriteHeader \/ WriteRoot \/ Synced \/ Publish => pc' # "idle"
      BY DEF WriteHeader, WriteRoot, Synced, Publish
    <3> QED BY <1>1, <3>1, <3>2, <3>3, <3>4, <3>5, <3>6, <3>7 DEF Next
  <2> QED BY <2>1, <2>2, <2>3, <2>4, <2>5, <2>6
<1>2. IInv /\ [Next]_vars
        => [pc' = "idle" /\ Readable(partial') => Readable(partial)]_vars
  BY <1>1
<1> QED BY <1>2, Invariance, PTL DEF Spec, DeathRevivesNothing

-----------------------------------------------------------------------------
(* The salvage of a dead run *)

\* How the last dead run's partial is kept while the next one works: where it
\* is, or stepped aside, and never an empty file.
Leftover ==
  /\ left # Absent => NonEmpty(left)
  /\ pc = "idle" /\ left # Absent => left \in {partial, prev}
  /\ pc = "idle" /\ NonEmpty(partial) => left = partial
  /\ pc # "idle" /\ left # Absent => left = prev
  /\ pc = "create" => ~NonEmpty(partial)
  /\ pc = "tidy" => left = Absent /\ partial = Absent

\* A step between a run's steps touches neither.
LEMMA LeftoverKept ==
  ASSUME Leftover, pc # "idle", pc' \notin {"idle", "create", "tidy"},
         prev' = prev, left' = left
  PROVE  Leftover'
BY DEF Leftover

\* Every step keeps it, if stepping aside cannot fail.
LEMMA LeftoverStep ==
  ASSUME ~RenameMayFail, IInv, Leftover, [Next]_vars
  PROVE  Leftover'
<1>1. CASE Open
  <2> USE DEF Open
  <2>1. CASE NonEmpty(partial)
    <3>1. left = partial /\ prev' = partial /\ partial' = Absent /\ left' = left
      BY <1>1, <2>1 DEF Leftover
    <3> QED BY <1>1, <2>1, <3>1 DEF Leftover, NonEmpty
  <2>2. CASE ~NonEmpty(partial)
    <3>1. partial' = partial /\ prev' = prev /\ left' = left
      BY <1>1, <2>2
    <3>2. left # Absent => left = prev
      BY <1>1, <2>2 DEF Leftover
    <3> QED BY <1>1, <2>2, <3>1, <3>2 DEF Leftover
  <2> QED BY <2>1, <2>2
<1>2. CASE Create \/ Reserve
  BY <1>2, LeftoverKept DEF Create, Reserve
<1>3. ASSUME NEW t \in Tiles, NEW b \in Bodies,
             AddDuplicate(t, b) \/ BeginAppend(t, b)
      PROVE  Leftover'
  BY <1>3, LeftoverKept DEF AddDuplicate, BeginAppend, fileVars
<1>4. CASE AppendBuffered \/ Spill \/ Drain \/ AppendSpilled
  <2>1. /\ pc \in {"append", "spill", "flush"} /\ prev' = prev /\ left' = left
        /\ pc' \in {"adding", "spill", "flush"}
    BY <1>4 DEF AppendBuffered, Spill, Drain, AppendSpilled, Record, fileVars
  <2> QED BY <2>1, LeftoverKept
<1>5. ASSUME NEW fin \in BOOLEAN, NEW deep \in BOOLEAN, Assemble(fin, deep)
      PROVE  Leftover'
  BY <1>5, LeftoverKept DEF Assemble, fileVars
<1>6. CASE TruncateTail \/ WriteMetadata \/ WriteLeaves
  BY <1>6, LeftoverKept DEF TruncateTail, WriteMetadata, WriteLeaves
<1>7. CASE WriteHeader \/ WriteRoot \/ Synced
  BY <1>7, LeftoverKept DEF WriteHeader, WriteRoot, Synced, fileVars
<1>8. CASE Publish
  BY <1>8 DEF Publish, Leftover, NonEmpty
<1>9. CASE RemovePrev
  BY <1>9 DEF RemovePrev, Leftover, NonEmpty
<1>10. CASE Kill
  <2> USE DEF Kill, fileVars
  <2>1. partial' = partial /\ prev' = prev /\ pc' = "idle"
    BY <1>10
  <2>2. CASE pc \in {"create", "tidy"}
    BY <1>10, <2>1, <2>2 DEF Leftover, NonEmpty
  <2>3. CASE pc \notin {"create", "tidy"}
    BY <1>10, <2>1, <2>3 DEF Leftover, Leave, NonEmpty
  <2> QED BY <2>2, <2>3
<1>11. CASE Fail
  <2>1. prev' = prev /\ pc' = "idle" /\ pc # "idle"
    BY <1>11 DEF Fail
  <2>2. CASE partial' = Absent /\ left' = left
    BY <2>1, <2>2 DEF Leftover, NonEmpty
  <2>3. CASE partial' \in Files /\ partial'.reserved /\ left' = partial'
    BY <2>1, <2>3, SentinelAssumption DEF Leftover, NonEmpty
  <2> QED BY <1>11, <2>2, <2>3, Dropped
<1>12. CASE UNCHANGED vars
  BY <1>12 DEF vars, fileVars, Leftover, NonEmpty
<1> QED BY <1>1, <1>2, <1>3, <1>4, <1>5, <1>6, <1>7, <1>8, <1>9, <1>10, <1>11,
           <1>12 DEF Next

\* What a dead run left in <output>.partial is there, or at .partial.prev,
\* until a run publishes: if stepping it aside cannot fail.
THEOREM LeftoverIsKept ==
  ASSUME ~RenameMayFail
  PROVE  Spec => []LeftoverSurvives
<1>1. Init => Leftover
  BY DEF Init, Leftover, NonEmpty
<1>2. IInv /\ Leftover /\ [Next]_vars => Leftover'
  BY LeftoverStep
<1>3. Leftover => LeftoverSurvives
  BY DEF Leftover, LeftoverSurvives
<1> QED BY <1>1, <1>2, <1>3, Invariance, PTL DEF Spec

-----------------------------------------------------------------------------
(* The writer keeps its promise *)

\* The steps of the promise, in the writer's terms.
NowLost == Seen(partial') = Absent /\ output' = output /\ added' = added
NowHolds == Seen(partial') = added /\ output' = output /\ added' = added

\* From here on the file reads as no earlier one.
LEMMA LoseMaps == ASSUME NowLost PROVE Promise!Next
<1>1. Seen(partial)' = Absent /\ Seen(output)' = Seen(output) /\ added' = added
  BY DEF NowLost, Seen, Readable, Served, Parses, CellAt, Spills
<1> QED BY <1>1 DEF Promise!Next, Promise!Lose

\* From here on the file reads as the new one.
LEMMA CheckpointMaps == ASSUME NowHolds PROVE Promise!Next
<1>1. Seen(partial)' = added /\ Seen(output)' = Seen(output) /\ added' = added
  BY DEF NowHolds, Seen, Readable, Served, Parses, CellAt, Spills
<1> QED BY <1>1 DEF Promise!Next, Promise!Checkpoint

\* Files that read alike are seen alike.
LEMMA SameSeen ==
  ASSUME partial' = partial, output' = output
  PROVE  Seen(partial)' = Seen(partial) /\ Seen(output)' = Seen(output)
BY DEF Seen, Readable, Served, Parses, CellAt, Spills

\* What reads the same is a stutter.
LEMMA StaysMaps ==
  ASSUME partial' = partial, output' = output, added' = added
  PROVE  UNCHANGED Promise!vars
BY SameSeen DEF Promise!vars

\* A prefix that does not parse shows nothing.
LEMMA UnparsedUnseen == ASSUME NEW f, ~Parses(f) PROVE Seen(f) = Absent
BY DEF Seen, Readable

\* In the middle of an assembly the file reads only if its prefix stands for
\* exactly what the assembly will say.
LEMMA SeenInAssembly ==
  IInv /\ pc \in {"leaves", "head"} /\ Readable(partial) => Seen(partial) = added
<1> SUFFICES ASSUME IInv, pc \in {"leaves", "head"}, Readable(partial)
             PROVE  Seen(partial) = added
  OBVIOUS
<1>1. Parses(partial) /\ Sound(partial) /\ partial \in Files
  BY DEF Readable, IInv, Parses, TypeOK
<1>2. Live /\ buf = <<>>
  BY DEF Live, IInv, Prefix
<1>3. partial.dataEnd = size
  BY <1>1, <1>2 DEF Parses, IInv, Prefix
<1>4. /\ size \in Nat /\ Len(partial.body) \in Nat
      /\ \A e \in entries : /\ e[2] \in 1..size
                            /\ partial.body[e[2]] = TileCell(added[e[1]])
  BY <1>2, Drained
<1>5. /\ partial.body[size + 1] = MetaCell(snap) /\ snap.dir = entries
      /\ Len(partial.body) >= size + 1
  BY <1>4 DEF IInv, Assembly
<1>6. CellAt(partial, size + 1) = MetaCell(snap)
  BY <1>4, <1>5 DEF CellAt
<1>7. MetaCell(partial.root) = MetaCell(snap)
  BY <1>3, <1>6 DEF Readable
<1>8. partial.root.dir = entries
  BY <1>5, <1>7 DEF MetaCell
<1>9. partial.truth = added
  <2>1. /\ DOMAIN partial.truth = {e[1] : e \in entries}
        /\ \A e \in entries : partial.body[e[2]] = TileCell(partial.truth[e[1]])
    BY <1>1, <1>8 DEF Sound, Resolves
  <2>2. DOMAIN added = {e[1] : e \in entries}
    BY <1>2 DEF IInv, Directory
  <2>3. \A e \in entries : partial.truth[e[1]] = added[e[1]]
    <3>1. \A a, b : TileCell(a) = TileCell(b) => a = b
      BY DEF TileCell
    <3> QED BY <1>4, <2>1, <3>1
  <2>4. \A t \in DOMAIN added : partial.truth[t] = added[t]
    BY <2>2, <2>3
  <2>5. PICK T \in SUBSET Tiles : added \in [T -> Bodies]
    BY DEF IInv, TypeOK, Maps
  <2>6. PICK U \in SUBSET Tiles : partial.truth \in [U -> Bodies]
    BY <1>1, FileFields DEF Maps
  <2> QED BY <2>1, <2>2, <2>4, <2>5, <2>6
<1>10. Served(partial) = partial.truth
  BY <1>1, SoundServes
<1> QED BY <1>9, <1>10 DEF Seen

\* Init maps to the promise's.
LEMMA PromiseInit == Init => Promise!Init
BY DEF Init, Promise!Init, Seen, Readable, Parses, NoTiles, Promise!NoTiles

\* Opening a run starts the promise anew; the earlier salvage may leave.
LEMMA OpenMaps == ASSUME Open PROVE Promise!Next
<1>1. added' = Promise!NoTiles /\ output' = output
  BY DEF Open, NoTiles, Promise!NoTiles
<1>2. Seen(output)' = Seen(output)
  BY <1>1 DEF Seen, Readable, Served, Parses, CellAt, Spills
<1>3. Seen(partial)' \in {Seen(partial), Absent}
  <2>1. CASE partial' = partial
    BY <2>1 DEF Seen, Readable, Served, Parses, CellAt, Spills
  <2>2. CASE partial' = Absent
    BY <2>2 DEF Seen, Readable, Parses
  <2> QED BY <2>1, <2>2 DEF Open
<1> QED BY <1>1, <1>2, <1>3 DEF Promise!Next, Promise!Start

\* A tile given to the writer is a tile added.
LEMMA AddMaps ==
  ASSUME NEW t \in Tiles, NEW b \in Bodies, t \notin DOMAIN added,
         added' = [u \in DOMAIN added \cup {t} |-> IF u = t THEN b ELSE added[u]],
         Seen(partial)' = Seen(partial), output' = output
  PROVE  Promise!Next
<1>1. Seen(output)' = Seen(output)
  BY DEF Seen, Readable, Served, Parses, CellAt, Spills
<1>2. Promise!Add(t, b)
  BY <1>1 DEF Promise!Add
<1> QED BY <1>2 DEF Promise!Next

\* The end of an append is where a new body counts as added.
LEMMA RecordMaps ==
  ASSUME IInv, AppendBuffered \/ AppendSpilled
  PROVE  Promise!Next
<1>1. /\ pc \in {"append", "spill"} /\ Record
  BY DEF AppendBuffered, AppendSpilled
<1>2. /\ cur \in Tiles \X Bodies /\ cur[1] \notin DOMAIN added
      /\ partial \in Files /\ ~partial.magic
  BY <1>1 DEF IInv, Prefix, Spool, Live
<1>3. ~Parses(partial) /\ ~Parses(partial')
  <2>1. CASE partial' = partial
    BY <1>2, <2>1 DEF Parses
  <2>2. CASE partial' = Put(partial, size + 1, <<TileCell(cur[2])>>)
    <3>1. partial'.magic = partial.magic
      BY <1>2, <2>2 DEF Put, Files
    <3> QED BY <1>2, <3>1 DEF Parses
  <2> QED BY <2>1, <2>2 DEF AppendBuffered, AppendSpilled
<1>4. Seen(partial)' = Absent /\ Seen(partial) = Absent
  <2>1. ~Parses(partial)'
    BY <1>3 DEF Parses
  <2> QED BY <1>3, <2>1 DEF Seen, Readable
<1>5. /\ added' = [u \in DOMAIN added \cup {cur[1]} |->
                     IF u = cur[1] THEN cur[2] ELSE added[u]]
      /\ output' = output
  BY <1>1 DEF Record
<1>6. PICK t \in Tiles, b \in Bodies : t = cur[1] /\ b = cur[2]
  BY <1>2
<1>7. added' = [u \in DOMAIN added \cup {t} |-> IF u = t THEN b ELSE added[u]]
  BY <1>5, <1>6
<1> QED BY <1>2, <1>4, <1>5, <1>6, <1>7, AddMaps

\* The steps before a checkpoint that touch the file make it unreadable.
LEMMA UnreadableMaps ==
  ASSUME IInv, \/ Create \/ Reserve \/ Drain \/ TruncateTail \/ WriteHeader
  PROVE  Promise!Next
<1>1. output' = output /\ added' = added
  BY DEF Create, Reserve, Drain, TruncateTail, WriteHeader, runVars
<1>2. ~Readable(partial')
  <2>1. CASE Create
    BY <2>1 DEF Create, EmptyFile, Readable, Parses
  <2>2. CASE Reserve
    BY <2>2 DEF Reserve, IInv, Spool, EmptyFile, Readable, Parses
  <2>3. CASE Drain
    <3>1. partial \in Files /\ ~partial.magic
      BY <2>3 DEF Drain, IInv, Spool, Prefix, Live
    <3>2. partial'.magic = partial.magic
      BY <2>3, <3>1 DEF Drain, Put, Files
    <3> QED BY <3>1, <3>2 DEF Readable, Parses
  <2>4. CASE TruncateTail
    <3> SUFFICES ASSUME Readable(partial') PROVE FALSE
      OBVIOUS
    <3>1. Live /\ buf = <<>> /\ size' = size
      BY <2>4 DEF TruncateTail, Live, runVars
    <3>2. IInv' /\ Live'
      BY <2>4, TruncateTailStep DEF TruncateTail, Live
    <3>3. Len(partial'.body) = size /\ size \in Nat
      BY <2>4, <3>1, <3>2, Types DEF TruncateTail, IInv, Assembly
    <3>4. Parses(partial') /\ partial' \in Files
      BY <3>2 DEF Readable, IInv, Spool
    <3>5. partial'.dataEnd = size
      BY <2>4, <3>1, <3>2, <3>4 DEF Parses, IInv, Prefix, TruncateTail
    <3>6. CellAt(partial', size + 1) = Absent
      BY <3>3 DEF CellAt
    <3>7. MetaCell(partial'.root) \in Cells
      BY <3>4, FileFields DEF Parses, MetaCell, Cells
    <3> QED BY <3>5, <3>6, <3>7, SentinelAssumption DEF Readable
  <2>5. CASE WriteHeader
    <3>1. partial \in Files
      BY <2>5 DEF WriteHeader, IInv, Spool, Live
    <3>2. partial'.root = Torn
      BY <2>5, <3>1 DEF WriteHeader, Files
    <3> QED BY <3>2 DEF Readable, Parses
  <2> QED BY <2>1, <2>2, <2>3, <2>4, <2>5
<1> QED BY <1>1, <1>2, LoseMaps DEF NowLost, Seen

\* A section that lands under the old prefix completes the old archive only
\* when that archive is the one being written.
LEMMA SectionMaps ==
  ASSUME IInv, WriteMetadata \/ WriteLeaves
  PROVE  Promise!Next
<1>1. /\ output' = output /\ added' = added /\ pc' \in {"leaves", "head"}
  BY DEF WriteMetadata, WriteLeaves, runVars
<1>2. IInv'
  BY WriteMetadataStep, WriteLeavesStep
<1>3. CASE ~Readable(partial')
  BY <1>1, <1>3, LoseMaps DEF NowLost, Seen
<1>4. CASE Readable(partial')
  <2>1. (IInv /\ pc \in {"leaves", "head"} /\ Readable(partial)
           => Seen(partial) = added)'
    BY SeenInAssembly, PTL
  <2>2. Readable(partial)'
    BY <1>4 DEF Readable, Parses, CellAt, Spills
  <2>3. Seen(partial)' = added'
    BY <1>1, <1>2, <2>1, <2>2
  <2>4. Seen(partial') = added'
    BY <2>3 DEF Seen, Readable, Served, Parses, CellAt, Spills
  <2> QED BY <1>1, <2>4, CheckpointMaps DEF NowHolds
<1> QED BY <1>3, <1>4

\* The part of Complete that is needed of a state to come.
LEMMA CompleteReads == IInv /\ pc \in {"sync", "publish"} => Readable(partial)
BY Complete

\* The root directory's pages complete the checkpoint.
LEMMA RootMaps == ASSUME IInv, WriteRoot PROVE Promise!Next
<1>1. output' = output /\ added' = added /\ pc' = "sync"
  BY DEF WriteRoot, runVars
<1>2. IInv'
  BY WriteRootStep
<1>3. Readable(partial')
  <2>1. (IInv /\ pc \in {"sync", "publish"} => Readable(partial))'
    BY CompleteReads, PTL
  <2>2. Readable(partial)'
    BY <1>1, <1>2, <2>1
  <2> QED BY <2>2 DEF Readable, Parses, CellAt, Spills
<1>4. /\ partial' \in Files /\ Sound(partial') /\ partial'.truth = added
  BY <1>1, <1>2 DEF IInv, Spool, Live, Prefix
<1>5. Served(partial') = added
  BY <1>3, <1>4, SoundServes DEF Readable
<1> QED BY <1>1, <1>3, <1>5, CheckpointMaps DEF NowHolds, Seen

\* The rename publishes what the run was given.
LEMMA PublishMaps == ASSUME IInv, Publish PROVE Promise!Next
<1>1. Readable(partial) /\ Parses(partial)
  BY Complete DEF Publish, Readable
<1>2. /\ partial \in Files /\ Sound(partial) /\ partial.truth = added
  BY DEF IInv, Spool, Live, Prefix, Publish
<1>3. Seen(partial) = added
  BY <1>1, <1>2, SoundServes DEF Seen
<1>4. output' = partial /\ partial' = Absent /\ added' = added
  BY DEF Publish
<1>5. Seen(output)' = Seen(partial)
  BY <1>4 DEF Seen, Readable, Served, Parses, CellAt, Spills
<1>6. Seen(partial)' = Absent
  BY <1>4 DEF Seen, Readable, Parses
<1>7. Promise!Publish
  BY <1>3, <1>4, <1>5, <1>6 DEF Promise!Publish
<1> QED BY <1>7 DEF Promise!Next

\* A dying run may lose the salvage; it does not change what is in it.
LEMMA FailMaps == ASSUME IInv, Fail PROVE [Promise!Next]_(Promise!vars)
<1>1. output' = output /\ added' = added
  BY DEF Fail
<1>2. CASE ~Readable(partial')
  BY <1>1, <1>2, LoseMaps DEF NowLost, Seen
<1>3. CASE Readable(partial')
  <2>1. Parses(partial')
    BY <1>3 DEF Readable
  <2>2. /\ partial'.magic = partial.magic /\ partial'.dataEnd = partial.dataEnd
        /\ partial'.root = partial.root
        /\ Len(partial'.body) = Len(partial.body)
        /\ \A j \in 1..Len(partial.body) : partial'.body[j] = partial.body[j]
    BY <2>1, Dropped DEF Parses
  <2>3. partial \in Files
    BY DEF Fail, IInv, Spool, Live, TypeOK
  <2>4. Parses(partial)
    BY <2>1, <2>2, <2>3, FileFields DEF Parses
  <2>5. \A i : CellAt(partial', i) = CellAt(partial, i)
    BY <2>2 DEF CellAt
  <2>6. Readable(partial)
    BY <1>3, <2>2, <2>4, <2>5 DEF Readable
  <2>7. Served(partial') = Served(partial)
    BY <2>2, <2>5 DEF Served
  <2>8. Seen(partial') = Seen(partial)
    BY <1>3, <2>6, <2>7 DEF Seen
  <2>9. Seen(partial)' = Seen(partial) /\ Seen(output)' = Seen(output)
    BY <1>1, <2>8 DEF Seen, Readable, Served, Parses, CellAt, Spills
  <2> QED BY <1>1, <2>9 DEF Promise!vars
<1> QED BY <1>2, <1>3

\* Whoever looks at the two paths sees at the salvage path nothing or the tiles
\* of the last checkpoint, and at the output path what a run published.
THEOREM PromiseKept == Spec => KeepsPromise
<1>1. ASSUME IInv, Next PROVE [Promise!Next]_(Promise!vars)
  <2>1. CASE Open
    BY <2>1, OpenMaps
  <2>2. CASE Create \/ Reserve \/ Drain \/ TruncateTail \/ WriteHeader
    BY <1>1, <2>2, UnreadableMaps
  <2>3. ASSUME NEW t \in Tiles, NEW b \in Bodies, AddDuplicate(t, b)
        PROVE  Promise!Next
    <3>1. /\ t \notin DOMAIN added /\ partial' = partial /\ output' = output
          /\ added' = [u \in DOMAIN added \cup {t} |-> IF u = t THEN b ELSE added[u]]
      BY <2>3 DEF AddDuplicate, fileVars
    <3>2. Seen(partial)' = Seen(partial)
      BY <3>1, SameSeen
    <3> QED BY <3>1, <3>2, AddMaps
  <2>4. ASSUME NEW t \in Tiles, NEW b \in Bodies, BeginAppend(t, b)
        PROVE  Promise!Next
    <3>1. /\ output' = output /\ added' = added /\ pc = "adding"
          /\ partial' = IF dirty THEN partial ELSE [partial EXCEPT !.magic = FALSE]
      BY <2>4 DEF BeginAppend
    <3>2. partial \in Files /\ (dirty => ~partial.magic)
      BY <1>1, <3>1 DEF IInv, Spool, Prefix, Live
    <3>3. ~Parses(partial')
      BY <3>1, <3>2 DEF Parses, Files
    <3> QED BY <3>1, <3>3, LoseMaps, UnparsedUnseen DEF NowLost
  <2>5. CASE AppendBuffered \/ AppendSpilled
    BY <1>1, <2>5, RecordMaps
  <2>6. ASSUME NEW fin \in BOOLEAN, NEW deep \in BOOLEAN, Assemble(fin, deep)
        PROVE  UNCHANGED Promise!vars
    BY <2>6, StaysMaps DEF Assemble, fileVars, runVars
  <2>7. CASE Spill \/ Synced \/ RemovePrev \/ Kill
    <3>1. partial' = partial /\ output' = output /\ added' = added
      BY <2>7 DEF Spill, Synced, RemovePrev, Kill, fileVars, runVars
    <3> QED BY <3>1, StaysMaps
  <2>8. CASE WriteMetadata \/ WriteLeaves
    BY <1>1, <2>8, SectionMaps
  <2>9. CASE WriteRoot
    BY <1>1, <2>9, RootMaps
  <2>10. CASE Publish
    BY <1>1, <2>10, PublishMaps
  <2>11. CASE Fail
    BY <1>1, <2>11, FailMaps
  <2> QED BY <1>1, <2>1, <2>2, <2>3, <2>4, <2>5, <2>6, <2>7, <2>8, <2>9, <2>10,
             <2>11 DEF Next
<1>2. UNCHANGED vars => UNCHANGED Promise!vars
  BY StaysMaps DEF vars, fileVars, runVars
<1>3. IInv /\ [Next]_vars => [Promise!Next]_(Promise!vars)
  BY <1>1, <1>2
<1> QED BY <1>3, PromiseInit, Invariance, PTL DEF Spec, KeepsPromise, Promise!Spec

-----------------------------------------------------------------------------
(* Outputs that replace the file at their path *)

\* A run past `stat` that builds its output in a sibling.
Building == {"create", "write", "publish"}

\* The sibling of every run that has one holds what that run wrote.
Siblings ==
  \A r \in Runs : mine[r] # Nothing =>
    sibling[mine[r]] \in Contents /\ sibling[mine[r]].by = r

\* A run is about to publish a complete sibling.
ReadyToPublish ==
  \A r \in Runs : call[r] = "publish" => sibling[mine[r]].parts = Parts

\* A run without a sibling has none yet, or none any more.
Unborn ==
  \A r \in Runs : mine[r] # Nothing => call[r] \in {"write", "publish", "killed"}

\* What lstat, canonicalize and stat told a run stays true: nobody replaces a
\* link, makes one, or puts a device at a destination or takes one away.
Resolved ==
  \A r \in Runs :
    /\ target[r] = "away" => here = Link
    /\ call[r] = "resolve" => here = Link
    /\ call[r] \in Building \cup {"stat", "direct"} =>
         At(target[r]) = Reached /\ At(target[r]) # Link
    /\ call[r] \in Building => At(target[r]) # Device
    /\ call[r] = "direct" => At(target[r]) = Device

OutputInv ==
  /\ OutputTypeOK /\ DestinationWhole /\ NothingLeftBeside
  /\ Siblings /\ ReadyToPublish /\ Unborn /\ Resolved

USE PartsAssumption, EntriesAssumption

\* No run has begun.
LEMMA OutputInitial == OutputInit => OutputInv
  BY DEF OutputInit, OutputInv, OutputTypeOK, DestinationWhole, NothingLeftBeside, Siblings,
         ReadyToPublish, Unborn, Resolved, Contents, Whole, Building, At, Reached

-----------------------------------------------------------------------------
(* Each step of one run keeps the invariant, for all of them. *)

\* Steps that change no file but the run's own probe.
LEMMA Quiet ==
  ASSUME OutputInv, NEW r \in Runs,
         \/ CheckWritable(r) \/ Unchecked(r) \/ Probe(r) \/ Unprobe(r)
         \/ Lstat(r) \/ Stat(r) \/ Close(r) \/ Return(r) \/ Killed(r)
  PROVE  OutputInv'
  <1> USE DEF OutputInv, OutputTypeOK, DestinationWhole, NothingLeftBeside, Siblings,
        ReadyToPublish, Unborn, Resolved, Building, At, Reached, Goto,
        KeepsFiles, paths
  <1>1. CASE CheckWritable(r) BY <1>1 DEF CheckWritable
  <1>2. CASE Unchecked(r) BY <1>2 DEF Unchecked
  <1>3. CASE Probe(r) BY <1>3 DEF Probe
  <1>4. CASE Unprobe(r) BY <1>4 DEF Unprobe
  <1>5. CASE Lstat(r) BY <1>5 DEF Lstat
  <1>6. CASE Stat(r) BY <1>6 DEF Stat
  <1>7. CASE Close(r) BY <1>7 DEF Close
  <1>8. CASE Return(r) BY <1>8 DEF Return
  <1>9. CASE Killed(r) BY <1>9 DEF Killed, Alive
  <1>q. QED BY <1>1, <1>2, <1>3, <1>4, <1>5, <1>6, <1>7, <1>8, <1>9

\* canonicalize: the run takes the link's destination for its own.
LEMMA Resolving ==
  ASSUME OutputInv, NEW r \in Runs, Resolve(r)
  PROVE  OutputInv'
  BY DEF Resolve, OutputInv, OutputTypeOK, DestinationWhole, NothingLeftBeside, Siblings,
         ReadyToPublish, Unborn, Resolved, Building, At, Reached, Goto,
         KeepsFiles

\* A name nobody holds becomes the run's sibling.
LEMMA Creating ==
  ASSUME OutputInv, NEW r \in Runs, CreateSibling(r)
  PROVE  OutputInv'
  <1>1. PICK n \in Names :
          /\ sibling[n] = Nothing
          /\ sibling' = [sibling EXCEPT ![n] = [by |-> r, parts |-> 0]]
          /\ mine' = [mine EXCEPT ![r] = n]
    BY DEF CreateSibling
  <1>2. [by |-> r, parts |-> 0] \in Contents
    BY DEF Contents
  <1>3. \A s \in Runs : mine[s] # n
    BY <1>1, <1>2 DEF OutputInv, Siblings
  <1>q. QED
    BY <1>1, <1>2, <1>3 DEF CreateSibling, OutputInv, OutputTypeOK, DestinationWhole,
       NothingLeftBeside, Siblings, ReadyToPublish, Unborn, Resolved, Building,
       At, Reached, Goto, paths

\* One more write; no other run has this sibling.
LEMMA Writing ==
  ASSUME OutputInv, NEW r \in Runs, Write(r)
  PROVE  OutputInv'
  <1> DEFINE n == mine[r]
             new == [sibling[n] EXCEPT !.parts = @ + 1]
  <1>1. n \in Names /\ sibling[n] \in Contents /\ sibling[n].by = r
    BY DEF OutputInv, OutputTypeOK, Siblings, Write
  <1>2. new \in Contents /\ new.by = r
    BY <1>1 DEF Write, Contents
  <1>3. \A s \in Runs : s # r /\ mine[s] # Nothing => mine[s] # n
    BY <1>1 DEF OutputInv, Siblings
  <1>4. sibling' = [sibling EXCEPT ![n] = new]
    BY DEF Write
  <1>q. QED
    BY <1>1, <1>2, <1>3, <1>4 DEF Write, OutputInv, OutputTypeOK, DestinationWhole,
       NothingLeftBeside, Siblings, ReadyToPublish, Unborn, Resolved, Building,
       At, Reached, paths

\* The complete sibling becomes the destination.
LEMMA Publishing ==
  ASSUME OutputInv, NEW r \in Runs, Rename(r)
  PROVE  OutputInv'
  <1> DEFINE n == mine[r]
  <1>1. n \in Names /\ sibling[n] \in Contents /\ sibling[n].parts = Parts
    BY DEF OutputInv, OutputTypeOK, Siblings, ReadyToPublish, Rename
  <1>2. sibling[n] \in Whole
    BY <1>1 DEF Contents, Whole
  <1>3. \A s \in Runs : s # r /\ mine[s] # Nothing => mine[s] # n
    BY <1>1 DEF OutputInv, Siblings
  <1>4. sibling[n] \notin {Nothing, Link, Device, Dir}
    BY <1>1
  <1>q. QED
    BY <1>1, <1>2, <1>3, <1>4 DEF Rename, OutputInv, OutputTypeOK, DestinationWhole,
       NothingLeftBeside, Siblings, ReadyToPublish, Unborn, Resolved, Building,
       At, Reached, Goto

\* A failure takes the run's own sibling away, and no other.
LEMMA Failing ==
  ASSUME OutputInv, NEW r \in Runs, Fails(r)
  PROVE  OutputInv'
  <1>1. \A s \in Runs : s # r /\ mine[s] # Nothing => mine[s] # mine[r]
    BY DEF OutputInv, Siblings
  <1>q. QED
    BY <1>1 DEF Fails, OutputInv, OutputTypeOK, DestinationWhole, NothingLeftBeside,
       Siblings, ReadyToPublish, Unborn, Resolved, Building, At, Reached, Goto,
       paths

\* No call of a run breaks what it or another relies on.
LEMMA OutputStep == OutputInv /\ [OutputNext]_outputVars => OutputInv'
  <1> SUFFICES ASSUME OutputInv, [OutputNext]_outputVars
               PROVE  OutputInv'
    OBVIOUS
  <1>1. CASE UNCHANGED outputVars
    BY <1>1 DEF outputVars, OutputInv, OutputTypeOK, DestinationWhole, NothingLeftBeside,
       Siblings, ReadyToPublish, Unborn, Resolved, Building, At, Reached
  <1>2. CASE OutputNext
    BY <1>2, Quiet, Resolving, Creating, Writing, Publishing, Failing DEF OutputNext
  <1>q. QED BY <1>1, <1>2

\* The runs keep, at every step, what each of them relies on.
THEOREM OutputInductive == OutputSpec => []OutputInv
  BY OutputInitial, OutputStep, PTL DEF OutputSpec

-----------------------------------------------------------------------------
(* The theorems *)

\* Every variable keeps its type.
THEOREM OutputTyped == OutputSpec => []OutputTypeOK
  BY OutputInductive, PTL DEF OutputInv

\* Whatever is killed or fails, and in whatever order the runs publish, the
\* destination never holds a part of an output.
THEOREM NeverTorn == OutputSpec => []DestinationWhole
  BY OutputInductive, PTL DEF OutputInv

\* No run writes into another's sibling.
THEOREM SiblingsApart == OutputSpec => []OwnSibling
  <1>1. OutputInv => OwnSibling
    BY DEF OutputInv, Siblings, OwnSibling
  <1>q. QED BY <1>1, OutputInductive, PTL

\* A file beside the output is a live run's or a killed one's.
THEOREM OnlyTheKilledLeave == OutputSpec => []NothingLeftBeside
  BY OutputInductive, PTL DEF OutputInv

\* The output is published behind the link, never over it.
THEOREM LinkKept == OutputSpec => LinkStays
  <1>1. OutputInv /\ [OutputNext]_outputVars => [here = Link => here' = Link]_outputVars
    <2> SUFFICES ASSUME OutputInv, OutputNext, here = Link
                 PROVE  here' = Link
      BY DEF outputVars
    <2>1. PICK r \in Runs :
            \/ Rename(r)
            \/ UNCHANGED here
      BY DEF OutputNext, CheckWritable, Unchecked, Probe, Unprobe, Lstat, Resolve,
         Stat, CreateSibling, Write, Close, Return, Fails, Killed, KeepsFiles,
         paths
    <2>2. CASE Rename(r)
      BY <2>2 DEF Rename, OutputInv, OutputTypeOK, Resolved, Building, At
    <2>q. QED BY <2>1, <2>2
  <1>q. QED BY <1>1, OutputInductive, PTL DEF OutputSpec, LinkStays

-----------------------------------------------------------------------------
(* The output path is an atomic register. *)

Phase == [r \in Runs |-> IF call[r] = "renamed" THEN "replaced"
                         ELSE IF Alive(r) THEN "running" ELSE call[r]]

\* A call that neither publishes nor ends the run, nor touches what is read
\* at the path, is a stutter of the register.
LEMMA Stutters ==
  ASSUME OutputInv, NEW r \in Runs, Reached' = Reached, Alive(r),
         call[r] # "renamed",
         call' = [call EXCEPT ![r] = call'[r]],
         call'[r] \notin {"renamed", "done", "failed", "killed"}
  PROVE  Phase' = Phase
  BY DEF Phase, Alive, OutputInv, OutputTypeOK

\* What a run's phase becomes when it does move.
LEMMA Moves ==
  ASSUME OutputInv, NEW r \in Runs,
         NEW to \in {"done", "failed", "killed"}, call' = [call EXCEPT ![r] = to]
  PROVE  Phase' = [Phase EXCEPT ![r] = to]
  BY DEF Phase, Alive, OutputInv, OutputTypeOK

\* The initial states are initial states of the register.
LEMMA RegisterInit == OutputInit => Register!Init
  BY DEF OutputInit, Register!Init, Reached, Alive, Contents

\* Every step is a step of the register, or a stutter.
LEMMA RegisterStep == OutputInv /\ [OutputNext]_outputVars => [Register!Next]_<<Reached, Phase>>
  <1> SUFFICES ASSUME OutputInv, [OutputNext]_outputVars
               PROVE  [Register!Next]_<<Reached, Phase>>
    OBVIOUS
  <1>1. CASE UNCHANGED outputVars
    BY <1>1 DEF outputVars, Reached, Phase, Alive
  <1>2. CASE OutputNext
    <2>1. PICK r \in Runs :
            \/ CheckWritable(r) \/ Unchecked(r) \/ Probe(r) \/ Unprobe(r)
            \/ Lstat(r) \/ Resolve(r) \/ Stat(r) \/ CreateSibling(r)
            \/ Write(r) \/ Close(r) \/ Rename(r) \/ Return(r) \/ Fails(r)
            \/ Killed(r)
      BY <1>2 DEF OutputNext
    <2> DEFINE Quiets == {"probe", "unprobe", "lstat", "resolve", "stat",
                          "create", "write", "publish", "direct"}
    <2>2. CASE call' = [call EXCEPT ![r] = call'[r]] /\ call'[r] \in Quiets
               /\ Reached' = Reached /\ Alive(r) /\ call[r] # "renamed"
      BY <2>2, Stutters
    <2>3. CASE call' = [call EXCEPT ![r] = "failed"]
               /\ Reached' = Reached /\ Alive(r) /\ call[r] # "renamed"
      <3>1. Phase' = [Phase EXCEPT ![r] = "failed"] /\ Phase[r] = "running"
        BY <2>3, Moves DEF Phase, Alive
      <3>q. QED BY <2>3, <3>1 DEF Register!Next, Register!Fail, Phase
    <2>4. CASE Killed(r)
      <3>1. /\ Phase' = [Phase EXCEPT ![r] = "killed"]
            /\ Phase[r] \in {"running", "replaced"}
            /\ Reached' = Reached
        BY <2>4, Moves DEF Killed, Goto, KeepsFiles, Reached, Phase, Alive
      <3>q. QED BY <3>1 DEF Register!Next, Register!Killed, Phase
    <2>5. CASE Return(r)
      <3>1. /\ Phase' = [Phase EXCEPT ![r] = "done"]
            /\ \/ Phase[r] = "replaced"
               \/ Phase[r] = "running" /\ Reached = Device
            /\ Reached' = Reached
        BY <2>5, Moves
           DEF Return, Goto, KeepsFiles, Reached, Phase, Alive, OutputInv, Resolved,
               At
      <3>q. QED BY <3>1 DEF Register!Next, Register!Report, Phase
    <2>6. CASE Rename(r)
      <3>1. sibling[mine[r]] = [by |-> r, parts |-> Parts]
        BY <2>6 DEF Rename, OutputInv, OutputTypeOK, Siblings, ReadyToPublish, Contents
      <3>2. Phase' = [Phase EXCEPT ![r] = "replaced"] /\ Phase[r] = "running"
        BY <2>6 DEF Rename, Goto, Phase, Alive, OutputInv, OutputTypeOK
      <3>3. sibling[mine[r]] \in Contents
        BY <2>6 DEF Rename, OutputInv, OutputTypeOK, Siblings
      <3>4. Reached # Device /\ Reached' = [by |-> r, parts |-> Parts]
        BY <2>6, <3>1, <3>3
           DEF Rename, OutputInv, OutputTypeOK, Resolved, Building, At, Reached
      <3>q. QED
        BY <3>2, <3>4 DEF Register!Next, Register!Replace, Register!Output, Phase
    <2>7. CASE \/ CheckWritable(r) \/ Unchecked(r) \/ Lstat(r) \/ Resolve(r)
               \/ Stat(r) \/ Close(r)
      BY <2>7, <2>2, <2>3
         DEF CheckWritable, Unchecked, Lstat, Resolve, Stat, Close, Goto,
             KeepsFiles, Reached, Alive, OutputInv, OutputTypeOK
    <2>8. CASE Probe(r) \/ Unprobe(r) \/ CreateSibling(r) \/ Write(r)
      BY <2>8, <2>2
         DEF Probe, Unprobe, CreateSibling, Write, Goto, paths, Reached,
             Alive, OutputInv, OutputTypeOK
    <2>9. CASE Fails(r)
      BY <2>9, <2>3 DEF Fails, Goto, paths, Reached, Alive
    <2>q. QED BY <2>1, <2>4, <2>5, <2>6, <2>7, <2>8, <2>9
  <1>q. QED BY <1>1, <1>2

\* Readers of the output path see an atomic register: what is there changes
\* at once, to a whole output, by a run that does not then report a failure;
\* and a run that reports success replaced it (or wrote to a device).
THEOREM RegisterKept == OutputSpec => ActsAsRegister
  <1>1. [Register!Next]_<<Reached, Phase>> <=>
        [Register!Next]_<<Reached, [r \in Runs |->
           IF call[r] = "renamed" THEN "replaced"
           ELSE IF Alive(r) THEN "running" ELSE call[r]]>>
    BY DEF Phase
  <1>q. QED
    BY <1>1, RegisterInit, RegisterStep, OutputInductive, PTL
       DEF OutputSpec, ActsAsRegister, Register!Spec

-----------------------------------------------------------------------------
(* OrderedRead *)

-----------------------------------------------------------------------------
(* The sums, over the first of a sequence *)

\* Numbers that go up go up over any distance.
LEMMA Ascending ==
  ASSUME NEW m \in Nat, NEW b \in [0..m -> Nat],
         \A k \in 1..m : b[k - 1] <= b[k]
  PROVE  \A j, k \in 0..m : j <= k => b[j] <= b[k]
<1>1. SUFFICES ASSUME NEW j \in 0..m  PROVE \A k \in 0..m : j <= k => b[j] <= b[k]
  OBVIOUS
<1> DEFINE Bad == {k \in 0..m : j <= k /\ ~(b[j] <= b[k])}
<1>2. SUFFICES ASSUME Bad # {}  PROVE FALSE
  OBVIOUS
<1>3. PICK k \in Bad : \A i \in Bad : k <= i
  <2>1. Bad \in SUBSET Nat
    OBVIOUS
  <2> QED  BY <1>2, <2>1, Smallest
<1>4. k # j /\ k \in 0..m /\ j <= k
  OBVIOUS
<1>5. k - 1 \in 0..m /\ j <= k - 1 /\ k \in 1..m /\ k - 1 < k
  BY <1>4
<1>6. b[j] <= b[k - 1]
  BY <1>3, <1>5
<1>7. b[k - 1] <= b[k] /\ b[j] \in Nat /\ b[k - 1] \in Nat /\ b[k] \in Nat
  BY <1>5
<1> QED  BY <1>6, <1>7

-----------------------------------------------------------------------------
(* RunsTyped of row ids *)

RunOf(from, len) == [i \in 1..len |-> from + i - 1]

\* A run of row ids, as a sequence.
LEMMA RunsTyped ==
  ASSUME NEW from \in Nat, NEW len \in Nat
  PROVE  /\ Sequential!Run(from, len) = RunOf(from, len)
         /\ RunOf(from, len) \in Seq(Nat)
         /\ Len(RunOf(from, len)) = len
<1>1. \A i \in 1..len : from + i - 1 \in Nat
  OBVIOUS
<1>2. RunOf(from, len) \in [1..len -> Nat]
  BY <1>1 DEF RunOf
<1>3. RunOf(from, len) \in Seq(Nat)
  BY <1>2, SeqDef
<1>4. DOMAIN RunOf(from, len) = 1..len
  BY DEF RunOf
<1>5. Len(RunOf(from, len)) = len
  <2>1. Len(RunOf(from, len)) \in Nat /\ DOMAIN RunOf(from, len) = 1..Len(RunOf(from, len))
    BY <1>3, LenProperties
  <2> QED  BY <1>4, <2>1
<1> QED  BY <1>3, <1>5 DEF Sequential!Run, RunOf

\* A slice of a run is a run.
LEMMA PartOfRun ==
  ASSUME NEW from \in Nat, NEW len \in Nat, NEW m \in 1..(len + 1), NEW n \in 0..len,
         m <= n + 1
  PROVE  SubSeq(RunOf(from, len), m, n) = RunOf(from + m - 1, n - m + 1)
<1> DEFINE s == RunOf(from, len)
           t == RunOf(from + m - 1, n - m + 1)
<1>1. from + m - 1 \in Nat /\ n - m + 1 \in Nat
  OBVIOUS
<1>2. /\ t \in Seq(Nat) /\ Len(t) = n - m + 1
      /\ \A i \in 1..(n - m + 1) : t[i] = from + m - 1 + i - 1
  <2>1. \A i \in 1..(n - m + 1) : t[i] = from + m - 1 + i - 1
    BY DEF RunOf
  <2> HIDE DEF t
  <2> QED  BY <1>1, <2>1, RunsTyped DEF t
<1>3. \A i \in m..n : s[i] = from + i - 1 /\ s[i] \in Nat
  BY DEF RunOf
<1> HIDE DEF s, t
<1>4. /\ SubSeq(s, m, n) \in Seq(Nat)
      /\ Len(SubSeq(s, m, n)) = IF m <= n THEN n - m + 1 ELSE 0
      /\ \A i \in 1..(n - m + 1) : SubSeq(s, m, n)[i] = s[m + i - 1]
  BY <1>3, SubSeqProperties
<1>5. Len(SubSeq(s, m, n)) = Len(t)
  BY <1>2, <1>4
<1>6. ASSUME NEW i \in 1..Len(SubSeq(s, m, n))  PROVE SubSeq(s, m, n)[i] = t[i]
  <2>1. i \in 1..(n - m + 1) /\ m + i - 1 \in m..n
    BY <1>4
  <2>2. s[m + i - 1] = from + (m + i - 1) - 1
    BY <1>3, <2>1
  <2> QED  BY <1>2, <1>4, <2>1, <2>2
<1>7. SubSeq(s, m, n) = t
  BY <1>2, <1>4, <1>5, <1>6, SeqEqual
<1> QED  BY <1>7 DEF s, t

\* Two runs that follow each other are one.
LEMMA RunsJoin ==
  ASSUME NEW from \in Nat, NEW m \in Nat, NEW n \in Nat
  PROVE  RunOf(from, m) \o RunOf(from + m, n) = RunOf(from, m + n)
<1> DEFINE s == RunOf(from, m)
           t == RunOf(from + m, n)
           u == RunOf(from, m + n)
<1>1. /\ \A i \in 1..m : s[i] = from + i - 1
      /\ \A i \in 1..n : t[i] = from + m + i - 1
      /\ \A i \in 1..(m + n) : u[i] = from + i - 1
  BY DEF RunOf
<1>2. /\ s \in Seq(Nat) /\ Len(s) = m /\ t \in Seq(Nat) /\ Len(t) = n
      /\ u \in Seq(Nat) /\ Len(u) = m + n
  <2>1. from + m \in Nat /\ m + n \in Nat
    OBVIOUS
  <2> HIDE DEF s, t, u
  <2>2. s \in Seq(Nat) /\ Len(s) = m
    BY RunsTyped DEF s
  <2>3. t \in Seq(Nat) /\ Len(t) = n
    BY <2>1, RunsTyped DEF t
  <2>4. u \in Seq(Nat) /\ Len(u) = m + n
    BY <2>1, RunsTyped DEF u
  <2> QED  BY <2>2, <2>3, <2>4
<1> HIDE DEF s, t, u
<1>3. /\ s \o t \in Seq(Nat) /\ Len(s \o t) = m + n
      /\ \A i \in 1..(m + n) : (s \o t)[i] = IF i <= m THEN s[i] ELSE t[i - m]
  BY <1>2, ConcatProperties
<1>4. ASSUME NEW i \in 1..Len(s \o t)  PROVE (s \o t)[i] = u[i]
  BY <1>1, <1>3
<1>5. s \o t = u
  BY <1>2, <1>3, <1>4, SeqEqual
<1> QED  BY <1>5 DEF s, t, u

-----------------------------------------------------------------------------
(* The queue *)

Batches == [rows : Seq(Nat), bytes : Nat]

\* The batches of a queue, laid out: b[0] is the last row before them and b[i]
\* the last of the i-th, which is what it holds back to the one before.
Laid(q, b) ==
  /\ b \in [0..Len(q) -> Nat]
  /\ \A i \in 1..Len(q) : b[i - 1] < b[i] /\ q[i].rows = RunOf(b[i - 1] + 1, b[i] - b[i - 1])

\* Batches laid end to end each hold the rows between two bounds.
LEMMA LaidRises ==
  ASSUME NEW q \in Seq(Batches), NEW b, Laid(q, b)
  PROVE  /\ Len(q) \in Nat /\ DOMAIN q = 1..Len(q)
         /\ \A i \in 1..Len(q) : Len(q[i].rows) = b[i] - b[i - 1] /\ b[i - 1] \in Nat /\ b[i] \in Nat
         /\ \A j, k \in 0..Len(q) : j <= k => b[j] <= b[k]
         /\ \A j, k \in 0..Len(q) : j < k => b[j] < b[k]
<1>1. Len(q) \in Nat /\ DOMAIN q = 1..Len(q)
  BY LenProperties
<1>2. \A i \in 1..Len(q) : /\ i - 1 \in 0..Len(q) /\ i \in 0..Len(q)
                           /\ b[i - 1] \in Nat /\ b[i] \in Nat
  BY <1>1 DEF Laid
<1>3. ASSUME NEW i \in 1..Len(q)  PROVE Len(q[i].rows) = b[i] - b[i - 1]
  <2>1. b[i - 1] + 1 \in Nat /\ b[i] - b[i - 1] \in Nat
    BY <1>2 DEF Laid
  <2> QED  BY <2>1, RunsTyped DEF Laid
<1>4. \A j, k \in 0..Len(q) : j <= k => b[j] <= b[k]
  <2>1. \A k \in 1..Len(q) : b[k - 1] <= b[k]
    BY <1>2 DEF Laid
  <2> QED  BY <1>1, <2>1, Ascending DEF Laid
<1>5. ASSUME NEW j \in 0..Len(q), NEW k \in 0..Len(q), j < k  PROVE b[j] < b[k]
  <2>1. k \in 1..Len(q) /\ k - 1 \in 0..Len(q) /\ j <= k - 1
    BY <1>1, <1>5
  <2>2. b[j] <= b[k - 1] /\ b[k - 1] < b[k]
    BY <1>4, <2>1 DEF Laid
  <2>3. b[j] \in Nat /\ b[k - 1] \in Nat /\ b[k] \in Nat
    BY <1>2, <2>1 DEF Laid
  <2> QED  BY <2>2, <2>3
<1> QED  BY <1>1, <1>2, <1>3, <1>4, <1>5

\* The first k of them hold the rows up to bound k.
LEMMA LaidSums ==
  ASSUME NEW q \in Seq(Batches), NEW b, Laid(q, b), NEW k \in 0..Len(q)
  PROVE  SumFunctionOnSet([i \in DOMAIN q |-> Len(q[i].rows)], 1..k) = b[k] - b[0]
<1> DEFINE f == [i \in DOMAIN q |-> Len(q[i].rows)]
           S(j) == SumFunctionOnSet(f, 1..j)
           Bad == {j \in 0..Len(q) : S(j) # b[j] - b[0]}
<1>1. /\ Len(q) \in Nat /\ DOMAIN q = 1..Len(q)
      /\ \A i \in 1..Len(q) : Len(q[i].rows) = b[i] - b[i - 1] /\ b[i - 1] \in Nat /\ b[i] \in Nat
      /\ b[0] \in Nat
  <2>1. /\ Len(q) \in Nat /\ DOMAIN q = 1..Len(q)
        /\ \A i \in 1..Len(q) : Len(q[i].rows) = b[i] - b[i - 1] /\ b[i - 1] \in Nat /\ b[i] \in Nat
    BY LaidRises
  <2>2. 0 \in 0..Len(q)
    BY <2>1
  <2>3. b[0] \in Nat
    BY <2>2 DEF Laid
  <2> QED  BY <2>1, <2>3
<1>2. \A i \in 1..Len(q) : f[i] = b[i] - b[i - 1] /\ f[i] \in Nat
  BY <1>1 DEF Laid
<1> HIDE DEF f
<1>3. S(0) = 0 /\ \A j \in 1..Len(q) : S(j) = S(j - 1) + f[j]
  BY <1>1, <1>2, PrefixSums
<1> HIDE DEF S
<1>4. SUFFICES ASSUME Bad # {}  PROVE FALSE
  BY DEF S, f
<1>5. PICK j \in Bad : \A i \in Bad : j <= i
  <2>1. Bad \in SUBSET Nat
    BY <1>1
  <2> QED  BY <1>4, <2>1, Smallest
<1>6. j # 0
  BY <1>1, <1>3
<1>7. j \in 1..Len(q) /\ j - 1 \in 0..Len(q) /\ j - 1 < j
  BY <1>1, <1>6
<1>8. S(j - 1) = b[j - 1] - b[0]
  BY <1>5, <1>7
<1>9. S(j) = b[j] - b[0]
  BY <1>1, <1>2, <1>3, <1>7, <1>8
<1> QED  BY <1>9

\* What Min picks, once it is known.
LEMMA LeastOf ==
  ASSUME NEW S \in SUBSET Int, NEW m \in S, \A x \in S : m <= x
  PROVE  Min(S) = m
<1> DEFINE P(x) == x \in S /\ \A y \in S : x =< y
<1>1. P(m)
  OBVIOUS
<1>2. P(CHOOSE x \in S : \A y \in S : x =< y)
  BY <1>1
<1>3. \A x : P(x) => x = m
  OBVIOUS
<1> QED  BY <1>2, <1>3 DEF Min

\* What a queue holds, put end to end.
RowsOf(q) == FlattenSeq([i \in DOMAIN q |-> q[i].rows])

\* Their rows, joined, are one run.
LEMMA LaidRows ==
  ASSUME NEW q \in Seq(Batches), NEW b, Laid(q, b)
  PROVE  /\ RowsOf(q) = RunOf(b[0] + 1, b[Len(q)] - b[0])
         /\ Len(RowsOf(q)) = b[Len(q)] - b[0]
         /\ b[0] \in Nat /\ b[Len(q)] \in Nat /\ b[0] <= b[Len(q)]
<1> DEFINE n == Len(q)
           s == [i \in DOMAIN q |-> q[i].rows]
           Step(h) == [i \in 1..Len(s) |-> IF i = 1 THEN s[i] ELSE h[i - 1] \o s[i]]
           G == CHOOSE h : h = Step(h)
           H == [i \in 1..n |-> RunOf(b[0] + 1, b[i] - b[0])]
<1>1. /\ n \in Nat /\ DOMAIN q = 1..n
      /\ \A j, k \in 0..n : j <= k => b[j] <= b[k]
      /\ \A i \in 0..n : b[i] \in Nat
      /\ \A i \in 1..n : b[i - 1] < b[i]
  BY LaidRises DEF Laid
<1>2. /\ b[0] \in Nat /\ b[n] \in Nat /\ b[0] <= b[n]
      /\ \A i \in 1..n : b[0] <= b[i - 1] /\ b[i - 1] \in Nat /\ b[i] \in Nat
  BY <1>1
<1>3. s \in Seq(Seq(Nat)) /\ Len(s) = n
  <2>1. \A i \in 1..n : q[i].rows \in Seq(Nat)
    <3>1. \A i \in 1..n : q[i] \in Batches
      BY ElementOfSeq
    <3> QED  BY <3>1 DEF Batches
  <2>2. s \in [1..n -> Seq(Nat)]
    BY <1>1, <2>1
  <2>3. s \in Seq(Seq(Nat))
    BY <1>1, <2>2, SeqDef
  <2>4. DOMAIN s = 1..n
    BY <2>2
  <2>5. Len(s) \in Nat /\ DOMAIN s = 1..Len(s)
    BY <2>3, LenProperties
  <2> HIDE DEF s
  <2> QED  BY <1>1, <2>3, <2>4, <2>5
<1>4. \A i \in 1..n : s[i] = RunOf(b[i - 1] + 1, b[i] - b[i - 1])
  BY <1>1 DEF Laid
<1>5. FlattenSeq(s) = IF n = 0 THEN s ELSE G[n]
  BY <1>3 DEF FlattenSeq
<1>6. CASE n = 0
  <2>1. s = [i \in 1..0 |-> b[0] + 1 + i - 1]
    BY <1>1, <1>6
  <2>2. b[n] - b[0] = 0
    BY <1>2, <1>6
  <2>3. FlattenSeq(s) = RunOf(b[0] + 1, 0)
    BY <1>5, <1>6, <2>1 DEF RunOf
  <2>4. RowsOf(q) = RunOf(b[0] + 1, b[n] - b[0])
    BY <2>2, <2>3 DEF RowsOf
  <2>5. b[0] + 1 \in Nat /\ b[n] - b[0] \in Nat
    BY <1>2
  <2> QED  BY <1>2, <2>4, <2>5, RunsTyped
<1>7. CASE n # 0
  <2>1. H = Step(H)
    <3>1. ASSUME NEW i \in 1..n  PROVE H[i] = Step(H)[i]
      <4>1. CASE i = 1
        <5>1. H[1] = RunOf(b[0] + 1, b[1] - b[0])
          BY <4>1
        <5>2. s[1] = RunOf(b[0] + 1, b[1] - b[0])
          <6>1. 1 \in 1..n /\ 1 - 1 = 0
            BY <4>1
          <6>2. s[1] = RunOf(b[1 - 1] + 1, b[1] - b[1 - 1])
            BY <1>4, <6>1
          <6> QED  BY <6>1, <6>2
        <5>3. Step(H)[i] = s[i]
          BY <1>3, <4>1
        <5> QED  BY <4>1, <5>1, <5>2, <5>3
      <4>2. CASE i # 1
        <5>1. i - 1 \in 1..n /\ b[i - 1] \in Nat /\ b[i] \in Nat /\ b[0] \in Nat
              /\ b[0] <= b[i - 1] /\ b[i - 1] < b[i]
          BY <1>1, <1>2, <4>2
        <5>2. Step(H)[i] = H[i - 1] \o s[i]
          BY <1>3, <4>2
        <5>3. H[i - 1] = RunOf(b[0] + 1, b[i - 1] - b[0]) /\ H[i] = RunOf(b[0] + 1, b[i] - b[0])
          BY <5>1
        <5>4. s[i] = RunOf(b[i - 1] + 1, b[i] - b[i - 1])
          BY <1>4
        <5>5. /\ b[0] + 1 \in Nat /\ b[i - 1] - b[0] \in Nat /\ b[i] - b[i - 1] \in Nat
              /\ (b[0] + 1) + (b[i - 1] - b[0]) = b[i - 1] + 1
              /\ (b[i - 1] - b[0]) + (b[i] - b[i - 1]) = b[i] - b[0]
          BY <5>1
        <5> HIDE DEF H, Step, s
        <5>6. RunOf(b[0] + 1, b[i - 1] - b[0]) \o RunOf((b[0] + 1) + (b[i - 1] - b[0]), b[i] - b[i - 1])
                = RunOf(b[0] + 1, (b[i - 1] - b[0]) + (b[i] - b[i - 1]))
          BY <5>5, RunsJoin
        <5> QED  BY <5>2, <5>3, <5>4, <5>5, <5>6
      <4> QED  BY <4>1, <4>2
    <3>2. DOMAIN H = 1..n /\ DOMAIN Step(H) = 1..n
      BY <1>3
    <3>3. H = [i \in 1..n |-> H[i]] /\ Step(H) = [i \in 1..n |-> Step(H)[i]]
      BY <1>3
    <3> HIDE DEF H, Step
    <3> QED  BY <3>1, <3>3
  <2>2. G = Step(G)
    BY <2>1
  <2> HIDE DEF G
  <2> DEFINE Bad == {i \in 1..n : G[i] # H[i]}
  <2>3. ASSUME Bad # {}  PROVE FALSE
    <3>1. PICK i \in Bad : \A j \in Bad : i <= j
      <4>1. Bad \in SUBSET Nat
        OBVIOUS
      <4> HIDE DEF Bad
      <4> QED  BY <2>3, <4>1, Smallest
    <3>2. i \in 1..n /\ G[i] # H[i]
      OBVIOUS
    <3>3. G[i] = IF i = 1 THEN s[i] ELSE G[i - 1] \o s[i]
      BY <1>3, <2>2, <3>2
    <3>4. H[i] = IF i = 1 THEN s[i] ELSE H[i - 1] \o s[i]
      BY <1>3, <2>1, <3>2
    <3>5. i # 1
      BY <3>2, <3>3, <3>4
    <3>6. i - 1 \in 1..n /\ i - 1 \notin Bad
      BY <3>1, <3>2, <3>5, <1>1
    <3>7. G[i - 1] = H[i - 1]
      BY <3>6
    <3> HIDE DEF H, s
    <3> QED  BY <3>2, <3>3, <3>4, <3>5, <3>7
  <2>4. n \in 1..n
    BY <1>1, <1>7
  <2>5. G[n] = H[n]
    BY <2>3, <2>4
  <2>6. H[n] = RunOf(b[0] + 1, b[n] - b[0])
    BY <2>4
  <2>7. RowsOf(q) = RunOf(b[0] + 1, b[n] - b[0])
    BY <1>5, <1>7, <2>5, <2>6 DEF RowsOf
  <2>8. b[0] + 1 \in Nat /\ b[n] - b[0] \in Nat
    BY <1>2
  <2> HIDE DEF H, s, Step
  <2> QED  BY <1>2, <2>7, <2>8, RunsTyped
<1> QED  BY <1>6, <1>7

-----------------------------------------------------------------------------
SumOfRows(q, k) == SumFunctionOnSet([i \in DOMAIN q |-> Len(q[i].rows)], 1..k)

RestOf(q, n) ==
  LET gone == Max({k \in 0..Len(q) : SumOfRows(q, k) <= n})
      later == SubSeq(q, gone + 1, Len(q))
  IN  IF later = <<>> THEN <<>>
      ELSE [later EXCEPT ![1].rows = SubSeq(@, n - SumOfRows(q, gone) + 1, Len(@))]

\* What a batch pins: no more than a decoded batch, and just its rows unless
\* it is the slice at the front.
Sized(q) == \A i \in 1..Len(q) : /\ q[i].bytes <= B
                                 /\ i > 1 => q[i].bytes = Len(q[i].rows)

\* What Rest leaves of a queue is laid end to end from where the rows taken
\* end, and is sliced at its front only.
LEMMA RestLaid ==
  ASSUME NEW q \in Seq(Batches), NEW b, Laid(q, b), Sized(q),
         NEW n \in Nat, b[0] + n <= b[Len(q)]
  PROVE  /\ RestOf(q, n) \in Seq(Batches) /\ Sized(RestOf(q, n))
         /\ \E c : /\ Laid(RestOf(q, n), c)
                   /\ c[0] = b[0] + n /\ c[Len(RestOf(q, n))] = b[Len(q)]
<1> DEFINE m == Len(q)
           In == {k \in 0..m : SumOfRows(q, k) <= n}
           g == Max(In)
           later == SubSeq(q, g + 1, m)
           r == RestOf(q, n)
<1>1. /\ m \in Nat /\ DOMAIN q = 1..m
      /\ \A j, k \in 0..m : j <= k => b[j] <= b[k]
      /\ \A i \in 0..m : b[i] \in Nat
      /\ \A i \in 1..m : b[i - 1] < b[i] /\ q[i].rows = RunOf(b[i - 1] + 1, b[i] - b[i - 1])
  BY LaidRises DEF Laid
<1>2. \A k \in 0..m : SumOfRows(q, k) = b[k] - b[0]
  BY LaidSums DEF SumOfRows
<1>3. In = {k \in 0..m : b[k] <= b[0] + n}
  BY <1>1, <1>2
<1>4. 0 \in In /\ In \in SUBSET (0..m)
  BY <1>1, <1>3
<1>5. PICK h \in In : g = h /\ \A y \in In : y <= h
  <2>1. In \in SUBSET Int /\ In # {} /\ m \in Int /\ \A y \in In : y <= m
    BY <1>1, <1>4
  <2> HIDE DEF In
  <2> QED  BY <2>1, Greatest DEF g
<1>6. g = h
  BY <1>5
<1>7. h \in 0..m /\ b[h] <= b[0] + n /\ (h < m => b[0] + n < b[h + 1])
  <2>1. h \in 0..m /\ b[h] <= b[0] + n
    BY <1>3, <1>5
  <2>2. ASSUME h < m  PROVE b[0] + n < b[h + 1]
    <3>1. h + 1 \in 0..m /\ ~(h + 1 <= h)
      BY <1>1, <2>1, <2>2
    <3>2. h + 1 \notin In
      BY <1>5, <3>1
    <3>3. b[h + 1] \in Nat /\ b[0] \in Nat
      BY <1>1, <3>1
    <3> QED  BY <1>3, <3>1, <3>2, <3>3
  <2> QED  BY <2>1, <2>2
<1>8. r = IF later = <<>> THEN <<>>
          ELSE [later EXCEPT ![1].rows = SubSeq(@, n - SumOfRows(q, g) + 1, Len(@))]
  BY DEF RestOf
<1> HIDE DEF In, g, r
<1>9. CASE h = m
  <2>1. later = <<>>
    BY <1>1, <1>6, <1>9, SubSeqEmpty
  <2>2. r = <<>>
    BY <1>8, <2>1
  <2>3. b[m] = b[0] + n
    <3>1. b[0] \in Nat /\ b[m] \in Nat
      BY <1>1
    <3>2. b[m] <= b[0] + n
      BY <1>7, <1>9
    <3> QED  BY <3>1, <3>2
  <2> DEFINE c == [i \in 0..0 |-> b[m]]
  <2>4. r \in Seq(Batches) /\ Len(r) = 0 /\ Sized(r)
    BY <2>2, EmptySeq DEF Sized
  <2>5. Laid(r, c) /\ c[0] = b[0] + n /\ c[Len(r)] = b[m]
    <3>1. b[m] \in Nat
      BY <1>1
    <3>2. c \in [0..Len(r) -> Nat] /\ 1..Len(r) = {}
      BY <2>4, <3>1
    <3>3. c[0] = b[m]
      OBVIOUS
    <3> HIDE DEF c
    <3> QED  BY <2>3, <2>4, <3>2, <3>3 DEF Laid
  <2> QED  BY <2>4, <2>5 DEF r
<1>10. CASE h # m
  <2>1. h \in Nat /\ h < m /\ h + 1 \in 1..m /\ m - h \in Nat /\ m - h > 0
    <3>1. m \in Nat /\ h \in 0..m /\ h # m
      BY <1>1, <1>7, <1>10
    <3> QED  BY <3>1
  <2>2. /\ later \in Seq(Batches) /\ Len(later) = m - h
        /\ \A i \in 1..(m - h) : later[i] = q[h + i]
    <3>1. \A i \in (h + 1)..m : q[i] \in Batches
      BY <1>1, <2>1, ElementOfSeq
    <3>2. /\ SubSeq(q, h + 1, m) \in Seq(Batches)
          /\ Len(SubSeq(q, h + 1, m)) = IF h + 1 <= m THEN m - (h + 1) + 1 ELSE 0
          /\ \A i \in 1..(m - (h + 1) + 1) : SubSeq(q, h + 1, m)[i] = q[h + 1 + i - 1]
      BY <1>1, <2>1, <3>1, SubSeqProperties
    <3> QED  BY <1>1, <1>6, <2>1, <3>2
  <2>3. later # <<>>
    <3> HIDE DEF later
    <3>1. Len(later) # 0
      BY <2>1, <2>2
    <3> QED  BY <3>1, EmptySeq
  <2> DEFINE k == n - SumOfRows(q, g) + 1
             one == [later[1] EXCEPT !.rows = SubSeq(@, k, Len(@))]
  <2>4. r = [later EXCEPT ![1] = one]
    BY <1>8, <2>3
  <2>5. k = b[0] + n - b[h] + 1 /\ k \in 1..(b[h + 1] - b[h])
    <3>1. /\ b[0] \in Nat /\ b[h] \in Nat /\ b[h + 1] \in Nat
          /\ b[h] <= b[0] + n /\ b[0] + n < b[h + 1]
      BY <1>1, <1>7, <2>1
    <3>2. SumOfRows(q, g) = b[h] - b[0]
      BY <1>2, <1>6, <1>7
    <3> QED  BY <3>1, <3>2
  <2> HIDE DEF later, k
  <2>6. /\ one.rows = RunOf(b[0] + n + 1, b[h + 1] - (b[0] + n))
        /\ one.bytes = q[h + 1].bytes /\ one \in Batches
    <3> DEFINE len == b[h + 1] - b[h]
    <3>1. later[1] = q[h + 1] /\ q[h + 1] \in Batches
      BY <2>1, <2>2, ElementOfSeq
    <3>2. b[h] + 1 \in Nat /\ len \in Nat /\ q[h + 1].rows = RunOf(b[h] + 1, len)
      BY <1>1, <2>1
    <3>4. k \in 1..(len + 1) /\ len \in 0..len /\ k <= len + 1
      BY <2>5, <3>2
    <3> HIDE DEF len
    <3>0. PICK a \in Nat : a = b[h] + 1
      BY <3>2
    <3>3. Len(q[h + 1].rows) = len
      <4>1. Len(RunOf(a, len)) = len
        BY <3>2, RunsTyped
      <4> QED  BY <3>0, <3>2, <4>1
    <3>5. SubSeq(q[h + 1].rows, k, len) = RunOf((b[h] + 1) + k - 1, len - k + 1)
      <4>1. a \in Nat /\ len \in Nat /\ k \in 1..(len + 1) /\ len \in 0..len /\ k <= len + 1
        BY <3>2, <3>4
      <4>2. SubSeq(RunOf(a, len), k, len) = RunOf(a + k - 1, len - k + 1)
        BY ONLY <4>1, PartOfRun
      <4> QED  BY <3>0, <3>2, <4>2
    <3>6. (b[h] + 1) + k - 1 = b[0] + n + 1 /\ len - k + 1 = b[h + 1] - (b[0] + n)
      <4>1. b[0] \in Nat /\ b[h] \in Nat /\ b[h + 1] \in Nat
        BY <1>1, <1>7, <2>1
      <4>2. k = b[0] + n - b[h] + 1 /\ len = b[h + 1] - b[h]
        BY <2>5 DEF len
      <4>3. \A x, y, z \in Nat : /\ (y + 1) + (x + n - y + 1) - 1 = x + n + 1
                                 /\ (z - y) - (x + n - y + 1) + 1 = z - (x + n)
        OBVIOUS
      <4>4. /\ (b[h] + 1) + (b[0] + n - b[h] + 1) - 1 = b[0] + n + 1
            /\ (b[h + 1] - b[h]) - (b[0] + n - b[h] + 1) + 1 = b[h + 1] - (b[0] + n)
        BY <4>1, <4>3
      <4> QED  BY <4>2, <4>4
    <3>7. one.rows = SubSeq(q[h + 1].rows, k, len) /\ one.bytes = q[h + 1].bytes
      BY <3>1, <3>3 DEF Batches
    <3>8. one.rows \in Seq(Nat)
      <4>1. b[0] + n + 1 \in Nat /\ b[h + 1] - (b[0] + n) \in Nat
        <5>1. b[0] \in Nat /\ b[h + 1] \in Nat /\ b[0] + n < b[h + 1]
          BY <1>1, <1>7, <2>1
        <5> QED  BY <5>1
      <4>2. RunOf(b[0] + n + 1, b[h + 1] - (b[0] + n)) \in Seq(Nat)
        BY <4>1, RunsTyped
      <4> QED  BY <3>5, <3>6, <3>7, <4>2
    <3>9. one \in Batches
      BY <3>1, <3>8 DEF Batches
    <3> QED  BY <3>5, <3>6, <3>7, <3>9
  <2> HIDE DEF one
  <2>7. /\ r \in Seq(Batches) /\ Len(r) = m - h
        /\ \A j \in 1..(m - h) : r[j] = IF j = 1 THEN one ELSE later[j]
    <3>1. 1 \in 1..Len(later)
      BY <2>1, <2>2
    <3> QED  BY <2>2, <2>4, <2>6, <3>1, ExceptSeq
  <2>8. Sized(r)
    <3>1. ASSUME NEW i \in 1..(m - h)
          PROVE  r[i].bytes <= B /\ (i > 1 => r[i].bytes = Len(r[i].rows))
      <4>1. h + i \in 1..m /\ (i > 1 => h + i > 1)
        BY <1>1, <2>1
      <4>2. q[h + i].bytes <= B /\ (h + i > 1 => q[h + i].bytes = Len(q[h + i].rows))
        BY <4>1 DEF Sized
      <4> QED  BY <2>2, <2>6, <2>7, <4>1, <4>2
    <3> QED  BY <2>7, <3>1 DEF Sized
  <2> DEFINE c == [i \in 0..(m - h) |-> IF i = 0 THEN b[0] + n ELSE b[h + i]]
  <2>9. Laid(r, c) /\ c[0] = b[0] + n /\ c[Len(r)] = b[m]
    <3>1. \A i \in 0..(m - h) : h + i \in 0..m
      BY <1>1, <2>1
    <3>2. c \in [0..(m - h) -> Nat]
      BY <1>1, <3>1
    <3>3. c[0] = b[0] + n /\ \A i \in 1..(m - h) : c[i] = b[h + i]
      BY <2>1
    <3>4. c[m - h] = b[m]
      <4>1. m - h \in 1..(m - h) /\ h + (m - h) = m
        BY <1>1, <2>1
      <4> QED  BY <3>3, <4>1
    <3> HIDE DEF c
    <3>5. ASSUME NEW i \in 1..(m - h)
          PROVE  c[i - 1] < c[i] /\ r[i].rows = RunOf(c[i - 1] + 1, c[i] - c[i - 1])
      <4>1. CASE i = 1
        <5>1. c[i - 1] = b[0] + n /\ c[i] = b[h + 1]
          BY <3>3, <4>1
        <5>2. r[i].rows = RunOf(b[0] + n + 1, b[h + 1] - (b[0] + n))
          BY <2>6, <2>7, <4>1
        <5> QED  BY <1>7, <2>1, <5>1, <5>2
      <4>2. CASE i # 1
        <5>1. i - 1 \in 1..(m - h) /\ h + (i - 1) = (h + i) - 1 /\ h + i \in 1..m
          BY <1>1, <2>1, <4>2
        <5>2. c[i - 1] = b[(h + i) - 1] /\ c[i] = b[h + i]
          BY <3>3, <5>1
        <5>3. r[i] = q[h + i]
          BY <2>2, <2>7, <4>2
        <5> QED  BY <1>1, <5>1, <5>2, <5>3
      <4> QED  BY <4>1, <4>2
    <3> QED  BY <2>7, <3>2, <3>3, <3>4, <3>5 DEF Laid
  <2> QED  BY <2>7, <2>8, <2>9 DEF r
<1> QED  BY <1>9, <1>10

-----------------------------------------------------------------------------
(* Whose segment it is *)

\* Among n numbers in a row, no two leave the same remainder.
LEMMA Remainders ==
  ASSUME NEW n \in Nat \ {0}
  PROVE  /\ \A a \in 0..(n - 1) : a % n = a
         /\ \A a \in Nat : a % n \in 0..(n - 1) /\ (a + n) % n = a % n
         /\ \A a, c \in Nat : a <= c /\ c < a + n /\ a % n = c % n => a = c
<1>1. \A a \in Nat : a % n \in 0..(n - 1) /\ a \div n \in Nat /\ a = n * (a \div n) + (a % n)
  OBVIOUS
<1>2. ASSUME NEW k \in Nat, NEW l \in Nat, NEW r \in 0..(n - 1), NEW s \in 0..(n - 1),
             n * k + r = n * l + s
      PROVE  k = l /\ r = s
  <2>1. ASSUME k < l  PROVE FALSE
    <3>1. PICK d \in Nat : l = k + 1 + d
      <4>1. l - k - 1 \in Nat /\ l = k + 1 + (l - k - 1)
        BY <2>1
      <4> QED  BY <4>1
    <3>2. n * l = n * k + n + n * d
      BY <3>1
    <3>3. n * d \in Nat /\ n * k \in Nat
      OBVIOUS
    <3>4. PICK x \in Nat, y \in Nat : x = n * d /\ y = n * k
      BY <3>3
    <3> QED  BY <1>2, <3>2, <3>4
  <2>2. ASSUME l < k  PROVE FALSE
    <3>1. PICK d \in Nat : k = l + 1 + d
      <4>1. k - l - 1 \in Nat /\ k = l + 1 + (k - l - 1)
        BY <2>2
      <4> QED  BY <4>1
    <3>2. n * k = n * l + n + n * d
      BY <3>1
    <3>3. n * d \in Nat /\ n * l \in Nat
      OBVIOUS
    <3>4. PICK x \in Nat, y \in Nat : x = n * d /\ y = n * l
      BY <3>3
    <3> QED  BY <1>2, <3>2, <3>4
  <2>3. k = l
    BY <2>1, <2>2
  <2> QED  BY <1>2, <2>3
<1>3. ASSUME NEW a \in 0..(n - 1)  PROVE a % n = a
  <2>1. /\ a = n * (a \div n) + (a % n) /\ a = n * 0 + a
        /\ a \div n \in Nat /\ a % n \in 0..(n - 1)
    BY <1>1
  <2> QED  BY <1>2, <2>1
<1>4. ASSUME NEW a \in Nat  PROVE (a + n) % n = a % n
  <2>1. a + n \in Nat
    OBVIOUS
  <2>2. a + n = n * ((a + n) \div n) + ((a + n) % n) /\ (a + n) \div n \in Nat
        /\ (a + n) % n \in 0..(n - 1)
    BY <1>1, <2>1
  <2>3. a = n * (a \div n) + (a % n) /\ a \div n \in Nat /\ a % n \in 0..(n - 1)
    BY <1>1
  <2>4. n * (a \div n + 1) = n * (a \div n) + n
    BY <2>3
  <2>5. n * ((a + n) \div n) + ((a + n) % n) = n * (a \div n + 1) + (a % n)
    <3>1. PICK x \in Nat : x = n * (a \div n)
      BY <2>3
    <3> QED  BY <2>2, <2>3, <2>4, <3>1
  <2>6. a \div n + 1 \in Nat
    BY <2>3
  <2>7. PICK k \in Nat, l \in Nat, r \in 0..(n - 1), s \in 0..(n - 1) :
          /\ k = (a + n) \div n /\ l = a \div n + 1
          /\ r = (a + n) % n /\ s = a % n
    BY <2>2, <2>3, <2>6
  <2>8. n * k + r = n * l + s
    BY <2>5, <2>7
  <2>9. r = s
    BY ONLY <1>2, <2>8, k \in Nat, l \in Nat, r \in 0..(n - 1), s \in 0..(n - 1)
  <2> QED  BY <2>7, <2>9
<1>5. ASSUME NEW a \in Nat, NEW c \in Nat, a <= c, c < a + n, a % n = c % n
      PROVE  a = c
  <2>1. PICK k \in Nat, l \in Nat, r \in 0..(n - 1) :
          a = n * k + r /\ c = n * l + r
    <3>1. /\ a \div n \in Nat /\ c \div n \in Nat /\ a % n \in 0..(n - 1)
          /\ a = n * (a \div n) + (a % n) /\ c = n * (c \div n) + (a % n)
      BY <1>1, <1>5
    <3> QED  BY <3>1
  <2>2. k = l
    <3>1. ASSUME k < l  PROVE FALSE
      <4>1. PICK d \in Nat : l = k + 1 + d
        <5>1. l - k - 1 \in Nat /\ l = k + 1 + (l - k - 1)
          BY <3>1
        <5> QED  BY <5>1
      <4>2. n * l = n * k + n + n * d
        BY <4>1
      <4>3. PICK x \in Nat, y \in Nat : x = n * d /\ y = n * k
        OBVIOUS
      <4> QED  BY <1>5, <2>1, <4>2, <4>3
    <3>2. ASSUME l < k  PROVE FALSE
      <4>1. PICK d \in Nat : k = l + 1 + d
        <5>1. k - l - 1 \in Nat /\ k = l + 1 + (k - l - 1)
          BY <3>2
        <5> QED  BY <5>1
      <4>2. n * k = n * l + n + n * d
        BY <4>1
      <4>3. PICK x \in Nat, y \in Nat : x = n * d /\ y = n * l
        OBVIOUS
      <4> QED  BY <1>5, <2>1, <4>2, <4>3
    <3> QED  BY <3>1, <3>2
  <2> QED  BY <2>1, <2>2
<1> QED  BY <1>1, <1>3, <1>4, <1>5

\* Of n readers, the one of segment i, and what the merge reckons with.
ReaderIn(n, i) == ((i - 1) % n) + 1

\* Among n segments in a row, no two are one worker's.
LEMMA Readers ==
  ASSUME NEW n \in Nat \ {0}
  PROVE  /\ \A w \in 1..n : ReaderIn(n, w) = w
         /\ \A s \in Nat \ {0} : /\ ReaderIn(n, s) \in 1..n
                                 /\ ReaderIn(n, s + n) = ReaderIn(n, s)
         /\ \A s, t \in Nat \ {0} :
              s <= t /\ t < s + n /\ ReaderIn(n, s) = ReaderIn(n, t) => s = t
<1>1. ASSUME NEW w \in 1..n  PROVE ReaderIn(n, w) = w
  <2>1. w - 1 \in 0..(n - 1)
    OBVIOUS
  <2>2. (w - 1) % n = w - 1
    BY <2>1, Remainders
  <2> QED  BY <2>2 DEF ReaderIn
<1>2. ASSUME NEW s \in Nat \ {0}
      PROVE  ReaderIn(n, s) \in 1..n /\ ReaderIn(n, s + n) = ReaderIn(n, s)
  <2>1. s - 1 \in Nat /\ (s + n) - 1 = (s - 1) + n
    OBVIOUS
  <2>2. (s - 1) % n \in 0..(n - 1) /\ ((s - 1) + n) % n = (s - 1) % n
    BY <2>1, Remainders
  <2>3. ReaderIn(n, s + n) = ReaderIn(n, s)
    BY <2>1, <2>2 DEF ReaderIn
  <2> QED  BY <2>2, <2>3 DEF ReaderIn
<1>3. ASSUME NEW s \in Nat \ {0}, NEW t \in Nat \ {0},
             s <= t, t < s + n, ReaderIn(n, s) = ReaderIn(n, t)
      PROVE  s = t
  <2>1. s - 1 \in Nat /\ t - 1 \in Nat /\ s - 1 <= t - 1 /\ t - 1 < (s - 1) + n
    BY <1>3
  <2>2. (s - 1) % n \in 0..(n - 1) /\ (t - 1) % n \in 0..(n - 1)
    BY <2>1, Remainders
  <2>3. (s - 1) % n = (t - 1) % n
    BY <1>3, <2>2 DEF ReaderIn
  <2>4. s - 1 = t - 1
    BY <2>1, <2>3, Remainders
  <2> QED  BY <2>4
<1> QED  BY <1>1, <1>2, <1>3

-----------------------------------------------------------------------------
(* The plan *)

\* The first row of a plan's segment i.
FirstIn(sg, i) == 1 + SumFunctionOnSet([j \in DOMAIN sg |-> sg[j].rows], 1..(i - 1))

\* What a plan is.
LEMMA PlanTyped ==
  ASSUME NEW sg \in Sequential!Plans
  PROVE  /\ Len(sg) \in Nat \ {0, 1} /\ DOMAIN sg = 1..Len(sg)
         /\ \A i \in 1..Len(sg) : sg[i].part \in {1, 2} /\ sg[i].rows \in 0..MaxRows /\ sg[i].rows \in Nat
         /\ \A i \in 1..(Len(sg) - 1) : sg[i].part <= sg[i + 1].part
<1>1. MaxSegs \in Nat /\ MaxRows \in Nat
  BY ShapeAssumption
<1>2. PICK n \in 2..MaxSegs : sg \in [1..n -> [part : {1, 2}, rows : 0..MaxRows]]
  BY DEF Sequential!Plans
<1>3. n \in Nat /\ n # 0 /\ n # 1
  BY <1>1
<1>4. sg \in Seq([part : {1, 2}, rows : 0..MaxRows])
  <2> DEFINE S == [part : {1, 2}, rows : 0..MaxRows]
  <2>1. sg \in [1..n -> S]
    BY <1>2
  <2> HIDE DEF S
  <2>2. sg \in Seq(S)
    BY <1>3, <2>1, SeqDef
  <2> QED  BY <2>2 DEF S
<1>5. Len(sg) \in Nat /\ DOMAIN sg = 1..Len(sg)
  BY <1>4, LenProperties
<1>6. Len(sg) = n
  BY <1>2, <1>3, <1>5
<1>7. \A i \in 1..(Len(sg) - 1) : sg[i].part <= sg[i + 1].part
  BY DEF Sequential!Plans
<1>8. \A i \in 1..n : sg[i].part \in {1, 2} /\ sg[i].rows \in 0..MaxRows /\ sg[i].rows \in Nat
  BY <1>1, <1>2
<1>9. Len(sg) \in Nat \ {0, 1}
  BY <1>3, <1>6
<1> QED  BY <1>5, <1>6, <1>7, <1>8, <1>9

\* Each segment's rows begin where those of the one before end.
LEMMA Firsts ==
  ASSUME NEW sg \in Sequential!Plans
  PROVE  /\ FirstIn(sg, 1) = 1
         /\ \A i \in 1..Len(sg) : FirstIn(sg, i + 1) = FirstIn(sg, i) + sg[i].rows
         /\ \A i \in 1..(Len(sg) + 1) : FirstIn(sg, i) \in Nat \ {0}
         /\ \A i, j \in 1..(Len(sg) + 1) : i <= j => FirstIn(sg, i) <= FirstIn(sg, j)
<1> DEFINE n == Len(sg)
           f == [j \in DOMAIN sg |-> sg[j].rows]
<1>1. n \in Nat \ {0, 1} /\ DOMAIN sg = 1..n /\ \A i \in 1..n : sg[i].rows \in Nat
  BY PlanTyped
<1>2. \A i \in 1..n : f[i] = sg[i].rows /\ f[i] \in Nat
  BY <1>1
<1>3. \A i : FirstIn(sg, i) = 1 + SumFunctionOnSet(f, 1..(i - 1))
  BY DEF FirstIn
<1> HIDE DEF f, n
<1>4. /\ SumFunctionOnSet(f, 1..0) = 0
      /\ \A k \in 0..n : SumFunctionOnSet(f, 1..k) \in Nat
      /\ \A k \in 1..n : SumFunctionOnSet(f, 1..k) = SumFunctionOnSet(f, 1..(k - 1)) + f[k]
  BY <1>1, <1>2, PrefixSums
<1>5. FirstIn(sg, 1) = 1
  <2>1. FirstIn(sg, 1) = 1 + SumFunctionOnSet(f, 1..(1 - 1))
    BY <1>3
  <2>2. 1 - 1 = 0
    OBVIOUS
  <2> QED  BY <1>4, <2>1, <2>2
<1>6. ASSUME NEW i \in 1..(n + 1)  PROVE FirstIn(sg, i) \in Nat \ {0}
  <2>1. i - 1 \in 0..n
    BY <1>1
  <2>2. SumFunctionOnSet(f, 1..(i - 1)) \in Nat
    BY <1>4, <2>1
  <2> QED  BY <1>3, <2>2
<1>7. ASSUME NEW i \in 1..n  PROVE FirstIn(sg, i + 1) = FirstIn(sg, i) + sg[i].rows
  <2>1. (i + 1) - 1 = i /\ i - 1 \in 0..n /\ i \in 0..n
    BY <1>1
  <2>2. FirstIn(sg, i + 1) = 1 + SumFunctionOnSet(f, 1..i)
    BY <1>3, <2>1
  <2>3. /\ SumFunctionOnSet(f, 1..(i - 1)) \in Nat /\ SumFunctionOnSet(f, 1..i) \in Nat
        /\ SumFunctionOnSet(f, 1..i) = SumFunctionOnSet(f, 1..(i - 1)) + f[i]
    BY <1>4, <2>1
  <2> QED  BY <1>2, <1>3, <2>2, <2>3
<1>8. \A i, j \in 1..(n + 1) : i <= j => FirstIn(sg, i) <= FirstIn(sg, j)
  <2> DEFINE b == [k \in 0..n |-> FirstIn(sg, k + 1)]
  <2>1. \A k \in 0..n : k + 1 \in 1..(n + 1)
    BY <1>1
  <2>2. b \in [0..n -> Nat]
    BY <1>6, <2>1
  <2>3. \A k \in 1..n : b[k - 1] <= b[k]
    <3>1. ASSUME NEW k \in 1..n  PROVE b[k - 1] <= b[k]
      <4>1. k - 1 \in 0..n /\ k \in 0..n /\ (k - 1) + 1 = k /\ k \in 1..(n + 1)
        BY <1>1
      <4>2. b[k - 1] = FirstIn(sg, k) /\ b[k] = FirstIn(sg, k + 1)
        BY <4>1
      <4>3. FirstIn(sg, k + 1) = FirstIn(sg, k) + sg[k].rows /\ sg[k].rows \in Nat
            /\ FirstIn(sg, k) \in Nat
        BY <1>1, <1>6, <1>7, <4>1
      <4> QED  BY <4>2, <4>3
    <3> QED  BY <3>1
  <2>4. n \in Nat
    BY <1>1
  <2>5. \A k \in 0..n : b[k] = FirstIn(sg, k + 1)
    OBVIOUS
  <2> HIDE DEF b
  <2>6. \A j, k \in 0..n : j <= k => b[j] <= b[k]
    BY <2>2, <2>3, <2>4, Ascending
  <2>7. ASSUME NEW i \in 1..(n + 1), NEW j \in 1..(n + 1), i <= j
        PROVE  FirstIn(sg, i) <= FirstIn(sg, j)
    <3>1. i - 1 \in 0..n /\ j - 1 \in 0..n /\ i - 1 <= j - 1 /\ (i - 1) + 1 = i /\ (j - 1) + 1 = j
      BY <2>4, <2>7
    <3>2. b[i - 1] <= b[j - 1] /\ b[i - 1] = FirstIn(sg, i) /\ b[j - 1] = FirstIn(sg, j)
      <4>1. b[i - 1] <= b[j - 1]
        BY <2>6, <3>1
      <4>2. b[i - 1] = FirstIn(sg, (i - 1) + 1) /\ b[j - 1] = FirstIn(sg, (j - 1) + 1)
        BY <2>5, <3>1
      <4> QED  BY <3>1, <4>1, <4>2
    <3> QED  BY <3>2
  <2> QED  BY <2>7
<1> QED  BY <1>5, <1>6, <1>7, <1>8 DEF n

-----------------------------------------------------------------------------
(* The batches handed on *)

Handed == Nat \X Seq(Nat)

ReadOf(g) == SumFunctionOnSet([i \in DOMAIN g |-> Len(g[i][2])], DOMAIN g)

\* One more batch handed on adds its rows to what was read.
LEMMA ReadMore ==
  ASSUME NEW g \in Seq(Handed), NEW x \in Handed
  PROVE  /\ ReadOf(g) \in Nat
         /\ ReadOf(Append(g, x)) = ReadOf(g) + Len(x[2])
         /\ ReadOf(<<>>) = 0
<1> DEFINE n == Len(g)
           h == Append(g, x)
           f == [i \in DOMAIN g |-> Len(g[i][2])]
           k == [i \in DOMAIN h |-> Len(h[i][2])]
<1>1. /\ n \in Nat /\ DOMAIN g = 1..n /\ h \in Seq(Handed) /\ DOMAIN h = 1..(n + 1)
      /\ \A i \in 1..n : h[i] = g[i]
      /\ h[n + 1] = x
  BY LenProperties, AppendProperties
<1>2. \A i \in 1..n : f[i] \in Nat /\ k[i] = f[i]
  <2>1. ASSUME NEW i \in 1..n  PROVE Len(g[i][2]) \in Nat
    <3>1. g[i] \in Handed
      BY ElementOfSeq
    <3>2. g[i][2] \in Seq(Nat)
      BY <3>1 DEF Handed
    <3> QED  BY <3>2, LenProperties
  <2>2. \A i \in 1..n : i \in 1..(n + 1)
    BY <1>1
  <2> QED  BY <1>1, <2>1, <2>2
<1>3. k[n + 1] = Len(x[2]) /\ k[n + 1] \in Nat
  <2>1. x[2] \in Seq(Nat)
    BY DEF Handed
  <2>2. Len(x[2]) \in Nat
    BY <2>1, LenProperties
  <2>3. n + 1 \in 1..(n + 1)
    BY <1>1
  <2> QED  BY <1>1, <2>2, <2>3
<1>4. ReadOf(g) = SumFunctionOnSet(f, 1..n) /\ ReadOf(h) = SumFunctionOnSet(k, 1..(n + 1))
  BY <1>1 DEF ReadOf
<1> HIDE DEF f, k, n
<1>5. IsFiniteSet(1..n) /\ IsFiniteSet({})
  BY <1>1, FS_Interval, FS_EmptySet
<1>6. SumFunctionOnSet(k, 1..n) = SumFunctionOnSet(f, 1..n)
  BY <1>2, <1>5, SameSum
<1>7. n + 1 \in Nat /\ (n + 1) - 1 = n /\ n + 1 \in 1..(n + 1)
      /\ \A i \in 1..(n + 1) : i \in 1..n \/ i = n + 1
  BY <1>1
<1>8. \A i \in 1..(n + 1) : k[i] \in Nat
  BY <1>2, <1>3, <1>7
<1>9. SumFunctionOnSet(k, 1..(n + 1)) = SumFunctionOnSet(k, 1..((n + 1) - 1)) + k[n + 1]
  BY <1>7, <1>8, PrefixSums
<1>10. SumFunctionOnSet(f, 1..n) \in Nat
  <2>1. \A i \in 1..n : f[i] \in Nat
    BY <1>2
  <2>2. n \in 0..n /\ n \in Nat
    BY <1>1
  <2> QED  BY <2>1, <2>2, PrefixSums
<1>11. ReadOf(<<>>) = 0
  <2>1. DOMAIN <<>> = {}
    OBVIOUS
  <2> DEFINE e == [i \in DOMAIN <<>> |-> Len((<<>>)[i][2])]
  <2>2. Summable(e, e, {})
    BY DEF Summable
  <2> HIDE DEF e
  <2>3. SumFunctionOnSet(e, {}) = 0
    BY <1>5, <2>2, Summing
  <2> QED  BY <2>1, <2>3 DEF ReadOf, e
<1> QED  BY <1>3, <1>4, <1>6, <1>7, <1>9, <1>10, <1>11

-----------------------------------------------------------------------------
(* What may be joined *)

PinnedOf(q, bs) == SumFunctionOnSet([i \in DOMAIN q |-> q[i].bytes], bs)

BoundedOf(q, lim) ==
  IF q = <<>> THEN 0
  ELSE SumOfRows(q, Max({n \in DOMAIN q : n = 1 \/ PinnedOf(q, 1..n) <= lim}))

\* What may be joined is whole batches that pin the limit at most, or one, and
\* is all of them when all of them do not.
LEMMA BoundedIs ==
  ASSUME NEW q \in Seq(Batches), NEW b, Laid(q, b), NEW lim \in Nat, q # <<>>
  PROVE  \E h \in 1..Len(q) :
           /\ BoundedOf(q, lim) = b[h] - b[0]
           /\ b[h] - b[0] \in Nat \ {0} /\ b[h] <= b[Len(q)]
           /\ h = 1 \/ PinnedOf(q, 1..h) <= lim
           /\ PinnedOf(q, 1..Len(q)) <= lim => h = Len(q)
<1> DEFINE m == Len(q)
           In == {n \in DOMAIN q : n = 1 \/ PinnedOf(q, 1..n) <= lim}
<1>1. m \in Nat \ {0} /\ DOMAIN q = 1..m
  BY LaidRises, EmptySeq
<1>2. 1 \in In /\ In \in SUBSET (0..m) /\ In \in SUBSET Int
  BY <1>1
<1>3. PICK h \in In : Max(In) = h /\ \A y \in In : y <= h
  <2>1. In # {} /\ m \in Int /\ \A y \in In : y <= m
    BY <1>1, <1>2
  <2> HIDE DEF In
  <2> QED  BY <1>1, <1>2, <2>1, Greatest
<1>4. Max(In) = h
  BY <1>3
<1>5. h \in 1..m /\ (h = 1 \/ PinnedOf(q, 1..h) <= lim)
  BY <1>1
<1>6. BoundedOf(q, lim) = SumOfRows(q, h)
  BY <1>4 DEF BoundedOf
<1>7. SumOfRows(q, h) = b[h] - b[0]
  <2>1. h \in 0..m
    BY <1>1, <1>5
  <2> QED  BY <2>1, LaidSums DEF SumOfRows
<1>8. b[h] - b[0] \in Nat \ {0} /\ b[h] <= b[m]
  <2>1. 0 \in 0..m /\ h \in 0..m /\ m \in 0..m /\ 0 < h /\ h <= m
    BY <1>1, <1>5
  <2>2. b[0] < b[h] /\ b[h] <= b[m]
    BY <2>1, LaidRises
  <2>3. b[0] \in Nat /\ b[h] \in Nat
    BY <2>1 DEF Laid
  <2> QED  BY <2>2, <2>3
<1>9. ASSUME PinnedOf(q, 1..m) <= lim  PROVE h = m
  <2>1. m \in In
    BY <1>1, <1>9
  <2>2. m <= h
    BY <1>3, <2>1
  <2> QED  BY <1>1, <1>5, <2>2
<1> QED  BY <1>5, <1>6, <1>7, <1>8, <1>9

\* Below two batches' worth of rows, not even the slice at the front makes a
\* queue pin more than three batches.
LEMMA PinsFew ==
  ASSUME NEW q \in Seq(Batches), NEW b, Laid(q, b), Sized(q), B \in Nat,
         b[Len(q)] - b[0] < 2 * B
  PROVE  PinnedOf(q, 1..Len(q)) <= 3 * B
<1> DEFINE m == Len(q)
           f == [i \in DOMAIN q |-> q[i].bytes]
           S(k) == SumFunctionOnSet(f, 1..k)
           Bad == {k \in 1..m : ~(S(k) <= B + (b[k] - b[0]))}
<1>1. /\ m \in Nat /\ DOMAIN q = 1..m
      /\ \A i \in 1..m : Len(q[i].rows) = b[i] - b[i - 1] /\ b[i - 1] \in Nat /\ b[i] \in Nat
      /\ \A j, k \in 0..m : j <= k => b[j] <= b[k]
  BY LaidRises
<1>2. b[0] \in Nat /\ b[m] \in Nat
  BY <1>1 DEF Laid
<1>3. \A i \in 1..m : f[i] = q[i].bytes /\ f[i] \in Nat /\ f[i] <= B
                      /\ (i > 1 => f[i] = b[i] - b[i - 1])
  <2>1. ASSUME NEW i \in 1..m  PROVE q[i].bytes \in Nat
    <3>1. q[i] \in Batches
      BY ElementOfSeq
    <3> QED  BY <3>1 DEF Batches
  <2> QED  BY <1>1, <2>1 DEF Sized
<1>4. PinnedOf(q, 1..m) = S(m)
  BY DEF PinnedOf
<1> HIDE DEF f
<1>5. /\ S(0) = 0 /\ (\A k \in 0..m : S(k) \in Nat)
      /\ \A k \in 1..m : S(k) = S(k - 1) + f[k]
  BY <1>1, <1>3, PrefixSums
<1> HIDE DEF S
<1>6. Bad = {}
  <2>1. SUFFICES ASSUME Bad # {}  PROVE FALSE
    OBVIOUS
  <2>2. PICK k \in Bad : \A i \in Bad : k <= i
    <3>1. Bad \in SUBSET Nat
      BY <1>1
    <3> QED  BY <2>1, <3>1, Smallest
  <2>3. k \in 1..m /\ ~(S(k) <= B + (b[k] - b[0]))
    OBVIOUS
  <2>4. CASE k = 1
    <3>1. S(1) = S(0) + f[1] /\ f[1] <= B /\ f[1] \in Nat
      <4>1. 1 \in 1..m /\ 1 - 1 = 0
        BY <2>3, <2>4
      <4> QED  BY <1>3, <1>5, <4>1
    <3>2. b[0] <= b[1] /\ b[1] \in Nat
      BY <1>1, <2>3, <2>4
    <3> QED  BY <1>2, <1>5, <2>3, <2>4, <3>1, <3>2
  <2>5. CASE k # 1
    <3>1. k - 1 \in 1..m /\ ~(k <= k - 1) /\ k > 1 /\ k - 1 \in 0..m /\ k \in 0..m
      BY <1>1, <2>3, <2>5
    <3>2. S(k - 1) <= B + (b[k - 1] - b[0])
      BY <2>2, <3>1
    <3>3. S(k) = S(k - 1) + f[k] /\ f[k] = b[k] - b[k - 1] /\ S(k - 1) \in Nat /\ S(k) \in Nat
      BY <1>3, <1>5, <2>3, <3>1
    <3>4. b[k - 1] \in Nat /\ b[k] \in Nat
      BY <1>1, <2>3
    <3> QED  BY <1>2, <2>3, <3>2, <3>3, <3>4
  <2> QED  BY <2>4, <2>5
<1>7. S(m) <= 3 * B
  <2>1. CASE m = 0
    BY <1>5, <2>1
  <2>2. CASE m # 0
    <3>1. m \in 1..m /\ m \in 0..m
      BY <1>1, <2>2
    <3>2. S(m) <= B + (b[m] - b[0]) /\ S(m) \in Nat
      BY <1>5, <1>6, <3>1
    <3> QED  BY <1>2, <3>2
  <2> QED  BY <2>1, <2>2
<1> QED  BY <1>4, <1>7

-----------------------------------------------------------------------------
(* What a worker sends *)

WorkersFor(sg) == IF Workers < Len(sg) THEN Workers ELSE Len(sg)

Places == [seg : Nat \ {0}, at : Nat]

\* A reader's next batch at a place, and whether reading it fails.
Cut(sg, p) == IF sg[p.seg].rows - p.at < B THEN sg[p.seg].rows - p.at ELSE B
Broken(sg, ft, p) ==
  /\ ft.kind # "none" /\ ft.seg = p.seg
  /\ ft.at = 0 \/ ft.at < p.at + Cut(sg, p)

Messages == [kind : {"end", "err"}] \cup [kind : {"batch"}, rows : Seq(Nat), bytes : Nat]
BatchAt(sg, p) == [kind |-> "batch", rows |-> RunOf(FirstIn(sg, p.seg) + p.at, Cut(sg, p)),
                   bytes |-> Cut(sg, p)]

\* A worker at place p sends m and is at place r.
Sent(sg, ft, m, p, r) ==
  /\ p.seg <= Len(sg)
  /\ \/ /\ m = BatchAt(sg, p) /\ ~Broken(sg, ft, p) /\ Cut(sg, p) > 0
        /\ r = [seg |-> p.seg, at |-> p.at + Cut(sg, p)]
     \/ /\ m = [kind |-> "end"] /\ ~Broken(sg, ft, p) /\ Cut(sg, p) = 0
        /\ r = [seg |-> p.seg + WorkersFor(sg), at |-> 0]
     \/ m = [kind |-> "err"] /\ Broken(sg, ft, p) /\ ft.kind = "err" /\ r = p

\* The messages of a channel lead from place pl[0] to place pl[Len(ms)].
Linked(sg, ft, ms, pl) ==
  /\ pl \in [0..Len(ms) -> Places]
  /\ \A i \in 1..Len(ms) : Sent(sg, ft, ms[i], pl[i - 1], pl[i])

\* A message appended leads on from where the others led.
LEMMA SendLinks ==
  ASSUME NEW sg, NEW ft, NEW ms \in Seq(Messages), NEW pl, Linked(sg, ft, ms, pl),
         NEW m \in Messages, NEW r \in Places, Sent(sg, ft, m, pl[Len(ms)], r)
  PROVE  /\ Append(ms, m) \in Seq(Messages)
         /\ \E o : /\ Linked(sg, ft, Append(ms, m), o)
                   /\ o[0] = pl[0] /\ o[Len(Append(ms, m))] = r
<1> DEFINE n == Len(ms)
           o == [i \in 0..(n + 1) |-> IF i = n + 1 THEN r ELSE pl[i]]
<1>1. /\ n \in Nat /\ Append(ms, m) \in Seq(Messages) /\ Len(Append(ms, m)) = n + 1
      /\ \A i \in 1..n : Append(ms, m)[i] = ms[i]
      /\ Append(ms, m)[n + 1] = m
  BY LenProperties, AppendProperties
<1>2. \A i \in 0..(n + 1) : i # n + 1 => i \in 0..n
  BY <1>1
<1>3. o \in [0..(n + 1) -> Places]
  BY <1>2 DEF Linked
<1>4. /\ o[n + 1] = r /\ \A i \in 0..n : o[i] = pl[i]
      /\ o[0] = pl[0]
  BY <1>1
<1> HIDE DEF o
<1>5. ASSUME NEW i \in 1..(n + 1)  PROVE Sent(sg, ft, Append(ms, m)[i], o[i - 1], o[i])
  <2>1. CASE i = n + 1
    <3>1. i - 1 = n /\ n \in 0..n
      BY <1>1, <2>1
    <3> QED  BY <1>1, <1>4, <2>1, <3>1
  <2>2. CASE i # n + 1
    <3>1. i \in 1..n /\ i \in 0..n /\ i - 1 \in 0..n
      BY <1>1, <2>2
    <3>2. Sent(sg, ft, ms[i], pl[i - 1], pl[i])
      BY <3>1 DEF Linked
    <3> QED  BY <1>1, <1>4, <3>1, <3>2
  <2> QED  BY <2>1, <2>2
<1> QED  BY <1>1, <1>3, <1>4, <1>5 DEF Linked

\* Without its first message, a channel leads on from where that one led.
LEMMA ReceiptLinks ==
  ASSUME NEW sg, NEW ft, NEW ms \in Seq(Messages), NEW pl, Linked(sg, ft, ms, pl),
         ms # <<>>
  PROVE  /\ Head(ms) \in Messages /\ Head(ms) = ms[1]
         /\ pl[0] \in Places /\ pl[1] \in Places
         /\ Sent(sg, ft, Head(ms), pl[0], pl[1])
         /\ Tail(ms) \in Seq(Messages) /\ Len(Tail(ms)) = Len(ms) - 1
         /\ Len(ms) > 1 => Tail(ms)[Len(Tail(ms))] = ms[Len(ms)]
         /\ \E o : /\ Linked(sg, ft, Tail(ms), o)
                   /\ o[0] = pl[1] /\ o[Len(Tail(ms))] = pl[Len(ms)]
<1> DEFINE n == Len(ms) - 1
           o == [i \in 0..n |-> pl[i + 1]]
<1>1. /\ n \in Nat /\ Len(ms) = n + 1 /\ Head(ms) = ms[1] /\ Tail(ms) \in Seq(Messages)
      /\ Len(Tail(ms)) = n
      /\ \A i \in 1..n : Tail(ms)[i] = ms[i + 1]
  BY HeadTailProperties, EmptySeq
<1>2. Head(ms) \in Messages
  <2>1. 1 \in 1..Len(ms)
    BY <1>1
  <2> QED  BY <1>1, <2>1, ElementOfSeq
<1>3. /\ pl[0] \in Places /\ pl[1] \in Places /\ Sent(sg, ft, Head(ms), pl[0], pl[1])
      /\ \A i \in 0..n : pl[i + 1] \in Places
  <2>1. /\ 0 \in 0..Len(ms) /\ 1 \in 0..Len(ms) /\ 1 \in 1..Len(ms) /\ 1 - 1 = 0
        /\ \A i \in 0..n : i + 1 \in 0..Len(ms)
    BY <1>1
  <2>2. Sent(sg, ft, ms[1], pl[1 - 1], pl[1])
    BY <2>1 DEF Linked
  <2> QED  BY <1>1, <2>1, <2>2 DEF Linked
<1>4. o \in [0..n -> Places] /\ \A i \in 0..n : o[i] = pl[i + 1]
  BY <1>3
<1> HIDE DEF o
<1>5. ASSUME NEW i \in 1..n  PROVE Sent(sg, ft, Tail(ms)[i], o[i - 1], o[i])
  <2>1. i + 1 \in 1..Len(ms) /\ (i + 1) - 1 = i /\ i \in 0..n /\ i - 1 \in 0..n
        /\ (i - 1) + 1 = i
    BY <1>1
  <2>2. Sent(sg, ft, ms[i + 1], pl[(i + 1) - 1], pl[i + 1])
    BY <2>1 DEF Linked
  <2>3. o[i] = pl[i + 1] /\ o[i - 1] = pl[(i - 1) + 1]
    BY <1>4, <2>1
  <2> QED  BY <1>1, <2>1, <2>2, <2>3
<1>6. Linked(sg, ft, Tail(ms), o) /\ o[0] = pl[1] /\ o[Len(Tail(ms))] = pl[Len(ms)]
  <2>1. 0 \in 0..n /\ n \in 0..n /\ 0 + 1 = 1
    BY <1>1
  <2>2. o[0] = pl[0 + 1] /\ o[n] = pl[n + 1]
    BY <1>4, <2>1
  <2> QED  BY <1>1, <1>4, <1>5, <2>1, <2>2 DEF Linked
<1>7. Len(ms) > 1 => Tail(ms)[Len(Tail(ms))] = ms[Len(ms)]
  <2>1. ASSUME Len(ms) > 1  PROVE n \in 1..n
    BY <1>1, <2>1
  <2> QED  BY <1>1, <2>1
<1> QED  BY <1>1, <1>2, <1>3, <1>6, <1>7

-----------------------------------------------------------------------------
(* The parts *)

PartEndsIn(sg) == {FirstIn(sg, i + 1) - 1 : i \in {j \in DOMAIN sg :
                     j = Len(sg) \/ sg[j + 1].part # sg[j].part}}

\* Row r is past the ends of the parts that end before segment s.
PartsGone(sg, s, r) ==
  \A j \in 1..(Len(sg) - 1) :
    j < s /\ sg[j + 1].part # sg[j].part => FirstIn(sg, j + 1) - 1 <= r

\* Inside segment s, the part goes on at least to where the segment ends.
LEMMA PartGoesOn ==
  ASSUME NEW sg \in Sequential!Plans, NEW s \in 1..Len(sg),
         NEW r \in Nat, PartsGone(sg, s, r), r + 1 <= FirstIn(sg, Len(sg) + 1) - 1
  PROVE  LET e == Min({x \in PartEndsIn(sg) : x >= r + 1})
         IN  e \in Nat /\ FirstIn(sg, s + 1) - 1 <= e
<1> DEFINE n == Len(sg)
           E == {x \in PartEndsIn(sg) : x >= r + 1}
<1>1. /\ n \in Nat \ {0, 1} /\ DOMAIN sg = 1..n
      /\ \A i \in 1..(n + 1) : FirstIn(sg, i) \in Nat \ {0}
      /\ \A i, j \in 1..(n + 1) : i <= j => FirstIn(sg, i) <= FirstIn(sg, j)
  <2>1. n \in Nat \ {0, 1} /\ DOMAIN sg = 1..n
    BY PlanTyped
  <2> QED  BY <2>1, Firsts
<1>2. FirstIn(sg, n + 1) - 1 \in E
  <2>1. n \in DOMAIN sg
    BY <1>1
  <2> QED  BY <2>1 DEF PartEndsIn
<1>3. ASSUME NEW x \in E  PROVE x \in Nat /\ FirstIn(sg, s + 1) - 1 <= x
  <2>1. PICK i \in DOMAIN sg : /\ x = FirstIn(sg, i + 1) - 1
                               /\ i = n \/ sg[i + 1].part # sg[i].part
    BY DEF PartEndsIn
  <2>2. i \in 1..n /\ i + 1 \in 1..(n + 1) /\ s + 1 \in 1..(n + 1)
    BY <1>1, <2>1
  <2>3. FirstIn(sg, i + 1) \in Nat \ {0} /\ FirstIn(sg, s + 1) \in Nat
    BY <1>1, <2>2
  <2>4. s <= i
    <3>1. SUFFICES ASSUME i < s  PROVE FALSE
      BY <1>1, <2>2
    <3>2. i \in 1..(n - 1) /\ i # n
      BY <1>1, <2>2, <3>1
    <3>3. FirstIn(sg, i + 1) - 1 <= r
      BY <2>1, <3>1, <3>2 DEF PartsGone
    <3>4. x >= r + 1
      OBVIOUS
    <3> QED  BY <2>1, <2>3, <3>3, <3>4
  <2>5. FirstIn(sg, s + 1) <= FirstIn(sg, i + 1)
    BY <1>1, <2>2, <2>4
  <2> QED  BY <2>1, <2>3, <2>5
<1>4. E \in SUBSET Nat
  BY <1>3
<1>5. PICK m \in E : \A x \in E : m <= x
  <2> HIDE DEF E
  <2> QED  BY <1>2, <1>4, Smallest
<1>6. Min(E) = m
  <2>1. E \in SUBSET Int
    BY <1>4
  <2> HIDE DEF E
  <2> QED  BY <1>5, <2>1, LeastOf
<1> QED  BY <1>3, <1>6

\* Where a part ends with segment s, the rows left of it end there.
LEMMA PartStops ==
  ASSUME NEW sg \in Sequential!Plans, NEW s \in 1..Len(sg),
         NEW r \in Nat, PartsGone(sg, s, r), r + 1 <= FirstIn(sg, s + 1) - 1,
         s = Len(sg) \/ sg[s + 1].part # sg[s].part
  PROVE  Min({x \in PartEndsIn(sg) : x >= r + 1}) = FirstIn(sg, s + 1) - 1
<1> DEFINE n == Len(sg)
           E == {x \in PartEndsIn(sg) : x >= r + 1}
           e == FirstIn(sg, s + 1) - 1
<1>1. /\ n \in Nat \ {0, 1} /\ DOMAIN sg = 1..n
      /\ \A i \in 1..(n + 1) : FirstIn(sg, i) \in Nat \ {0}
      /\ \A i, j \in 1..(n + 1) : i <= j => FirstIn(sg, i) <= FirstIn(sg, j)
  <2>1. n \in Nat \ {0, 1} /\ DOMAIN sg = 1..n
    BY PlanTyped
  <2> QED  BY <2>1, Firsts
<1>2. s + 1 \in 1..(n + 1) /\ e \in Nat /\ s \in DOMAIN sg
  <2>0. s \in 1..n
    OBVIOUS
  <2>1. s + 1 \in 1..(n + 1) /\ s \in DOMAIN sg
    <3> HIDE DEF n
    <3> QED  BY <1>1, <2>0
  <2>2. FirstIn(sg, s + 1) \in Nat \ {0}
    BY <1>1, <2>1
  <2> QED  BY <2>1, <2>2
<1>3. e \in E
  BY <1>2 DEF PartEndsIn
<1>4. ASSUME NEW x \in E  PROVE x \in Nat /\ e <= x
  <2>1. PICK i \in DOMAIN sg : /\ x = FirstIn(sg, i + 1) - 1
                               /\ i = n \/ sg[i + 1].part # sg[i].part
    BY DEF PartEndsIn
  <2>2. i \in 1..n /\ i + 1 \in 1..(n + 1)
    <3>1. i \in 1..n
      BY <1>1
    <3> HIDE DEF n
    <3> QED  BY <1>1, <3>1
  <2>3. FirstIn(sg, i + 1) \in Nat \ {0} /\ FirstIn(sg, s + 1) \in Nat
    BY <1>1, <1>2, <2>2
  <2>4. s <= i
    <3> DEFINE k == Len(sg)
    <3>0. k \in Nat /\ i \in 1..k /\ s \in 1..k
      BY <1>1, <2>2
    <3> HIDE DEF k
    <3>1. SUFFICES ASSUME i < s  PROVE FALSE
      BY <3>0
    <3>2. i \in 1..(n - 1) /\ i # n
      <4>1. i \in 1..(k - 1) /\ i # k
        BY <3>0, <3>1
      <4> QED  BY <4>1 DEF k
    <3>3. FirstIn(sg, i + 1) - 1 <= r
      BY <2>1, <3>1, <3>2 DEF PartsGone
    <3>4. x >= r + 1
      OBVIOUS
    <3> QED  BY <2>1, <2>3, <3>3, <3>4
  <2>5. FirstIn(sg, s + 1) <= FirstIn(sg, i + 1)
    BY <1>1, <1>2, <2>2, <2>4
  <2> QED  BY <2>1, <2>3, <2>5
<1>5. E \in SUBSET Int
  BY <1>4
<1> HIDE DEF E, e
<1>6. Min(E) = e
  BY <1>3, <1>4, <1>5, LeastOf
<1> QED  BY <1>6 DEF E, e

\* The rows before a part are its first row's.
PartFirstIn(sg, i) == FirstIn(sg, Min({j \in DOMAIN sg : sg[j].part = sg[i].part}))

\* A part begins no later than past the ends of those before it.
LEMMA PartBegun ==
  ASSUME NEW sg \in Sequential!Plans, NEW s \in 1..Len(sg),
         NEW r \in Nat, PartsGone(sg, s, r)
  PROVE  PartFirstIn(sg, s) \in Nat /\ PartFirstIn(sg, s) <= r + 1
<1> DEFINE n == Len(sg)
           E == {j \in DOMAIN sg : sg[j].part = sg[s].part}
<1>1. /\ n \in Nat \ {0, 1} /\ DOMAIN sg = 1..n
      /\ FirstIn(sg, 1) = 1 /\ \A i \in 1..(n + 1) : FirstIn(sg, i) \in Nat \ {0}
  <2>1. n \in Nat \ {0, 1} /\ DOMAIN sg = 1..n
    BY PlanTyped
  <2> QED  BY <2>1, Firsts
<1>2. E \in SUBSET Nat /\ E \in SUBSET Int /\ s \in E
  BY <1>1
<1>3. PICK m \in E : \A x \in E : m <= x
  <2> HIDE DEF E
  <2> QED  BY <1>2, Smallest
<1>4. Min(E) = m
  <2> HIDE DEF E
  <2> QED  BY <1>2, <1>3, LeastOf
<1>5. m \in 1..n /\ m <= s /\ sg[m].part = sg[s].part
  BY <1>1, <1>2, <1>3
<1>6. PartFirstIn(sg, s) = FirstIn(sg, m)
  BY <1>4 DEF PartFirstIn
<1>7. CASE m = 1
  BY <1>1, <1>6, <1>7
<1>8. CASE m # 1
  <2>1. m - 1 \in 1..n /\ m - 1 < s /\ m - 1 \in 1..(n - 1) /\ (m - 1) + 1 = m
        /\ ~(m <= m - 1) /\ m \in 1..(n + 1)
    BY <1>1, <1>5, <1>8
  <2>2. m - 1 \notin E
    BY <1>3, <2>1
  <2>3. sg[(m - 1) + 1].part # sg[m - 1].part
    BY <1>1, <1>5, <2>1, <2>2
  <2>4. FirstIn(sg, (m - 1) + 1) - 1 <= r
    BY <2>1, <2>3 DEF PartsGone
  <2>5. FirstIn(sg, m) \in Nat
    BY <1>1, <2>1
  <2> QED  BY <1>6, <2>1, <2>4, <2>5
<1> QED  BY <1>7, <1>8

-----------------------------------------------------------------------------
(* The inductive invariant *)

\* The last row the merge has received.
Top == ReadOf(given) + Len(RowsOf(queue))

WorkerIds == 1..WorkersFor(segs)

ReadTyped ==
  /\ segs \in Sequential!Plans /\ fault \in Sequential!FaultsOf(segs)
  /\ limit \in Limits
  /\ up \in 0..WorkersFor(segs) /\ open \in BOOLEAN
  /\ work \in [WorkerIds -> [seg : Nat \ {0}, at : Nat, run : {"run", "end", "panic"}]]
  /\ chan \in [WorkerIds -> Seq(Messages)]
  /\ \A w \in WorkerIds :
       /\ work[w].seg <= Len(segs) + WorkersFor(segs)
       /\ work[w].seg <= Len(segs) => work[w].at <= segs[work[w].seg].rows
       /\ work[w].seg > Len(segs) => work[w].at = 0
       /\ Len(chan[w]) <= Depth
  /\ mpc \in {"spawn", "part", "recv", "join", "tail", "done"}
  /\ seq \in 1..(Len(segs) + 1) /\ part \in 0..2
  /\ answer \in Sequential!Answers
  /\ queue \in Seq(Batches) /\ given \in Seq(Handed)

\* The queue goes on where the batches handed on end.
Queued == Sized(queue) /\ \E b : Laid(queue, b) /\ b[0] = ReadOf(given)

\* Where the merge stands among the segments and the parts, and that it has
\* not got past the fault.
Merging ==
  mpc # "done" =>
    /\ open = TRUE /\ outcome = Pending /\ answer = "go"
    /\ mpc = "spawn" => up < WorkersFor(segs) /\ seq = 1 /\ given = <<>> /\ queue = <<>>
    /\ mpc # "spawn" => up = WorkersFor(segs)
    /\ IF mpc = "tail" THEN seq = Len(segs) + 1 ELSE seq <= Len(segs)
    /\ mpc \in {"spawn", "part", "tail"} => Top = FirstIn(segs, seq) - 1
    /\ mpc = "part" /\ seq > 1 => part = segs[seq - 1].part
    /\ mpc \in {"recv", "join"} => /\ part = segs[seq].part
                                   /\ FirstIn(segs, seq) - 1 <= Top
                                   /\ Top <= FirstIn(segs, seq + 1) - 1
    /\ Top - ReadOf(given) < (IF mpc = "join" THEN 2 * B ELSE B)
    /\ fault.kind # "none" =>
         /\ seq <= fault.seg
         /\ fault.seg = seq => Top - FirstIn(segs, seq) + 1 <= fault.at
    /\ PartsGone(segs, IF mpc \in {"recv", "join"} THEN seq ELSE seq - 1, ReadOf(given))

\* The merge's place among the segments of a worker: the next of them.
PlaceOf(s) == [seg |-> s,
               at |-> IF s = seq THEN Top - FirstIn(segs, seq) + 1 ELSE 0]

\* What is in a worker's channel leads from there to the worker's own place.
Stream(w) ==
  \E s \in seq..(seq + WorkersFor(segs) - 1) : \E pl :
    /\ ReaderIn(WorkersFor(segs), s) = w
    /\ Linked(segs, fault, chan[w], pl)
    /\ pl[0] = PlaceOf(s)
    /\ pl[Len(chan[w])] = [seg |-> work[w].seg, at |-> work[w].at]

Streams == mpc # "done" => \A w \in WorkerIds : Stream(w)

\* Why a worker has ended.
Ended ==
  \A w \in WorkerIds :
    /\ work[w].run = "end" => \/ ~open \/ work[w].seg > Len(segs)
                              \/ chan[w] # <<>> /\ chan[w][Len(chan[w])] = [kind |-> "err"]
    /\ work[w].run = "panic" => w <= up /\ fault.kind = "panic"

\* A read error comes when its part has been reached, and costs two batches.
ErrFits(sg, ft, r) ==
  /\ r + 1 >= PartFirstIn(sg, ft.seg)
  /\ FirstIn(sg, ft.seg) + ft.at - 1 - r <= 2 * (B - 1)

\* Why the merge has left.
Explained ==
  mpc = "done" =>
    /\ open = FALSE
    /\ \/ result = "ok" /\ \/ answer = "stop"
                           \/ /\ answer = "go" /\ fault.kind = "none"
                              /\ ReadOf(given) = FirstIn(segs, Len(segs) + 1) - 1
       \/ result = "consumerErr" /\ answer = "err"
       \/ result = "panic" /\ answer = "panic"
       \/ result = "spawnErr" /\ given = <<>>
       \/ /\ result = "readErr" /\ answer = "go" /\ fault.kind = "err"
          /\ ErrFits(segs, fault, ReadOf(given))
       \/ result = "internalErr" /\ \E w \in 1..up : work[w].run = "panic"

ReadIInv ==
  ReadTyped /\ Queued /\ Merging /\ Streams /\ Ended /\ Explained

-----------------------------------------------------------------------------
(* The same things by the names of the modules *)

\* The names of the modules are the operators' here.
LEMMA SameThings ==
  /\ \A i : Sequential!First(i) = FirstIn(segs, i)
  /\ Sequential!AllRows = FirstIn(segs, Len(segs) + 1) - 1
  /\ Sequential!Read = ReadOf(given)
  /\ Sequential!PartEnds = PartEndsIn(segs)
  /\ \A i : Sequential!PartFirst(i) = PartFirstIn(segs, i)
  /\ NWorkers = WorkersFor(segs)
  /\ \A i : ReaderOf(i) = ReaderIn(WorkersFor(segs), i)
  /\ Rows = RowsOf(queue)
  /\ RowOffset = ReadOf(given)
  /\ \A k : RowsIn(k) = SumOfRows(queue, k)
  /\ \A bs : Pinned(bs) = PinnedOf(queue, bs)
<1>0. /\ \A f, s : Sequential!SumFunctionOnSet(f, s) = SumFunctionOnSet(f, s)
      /\ \A s : Sequential!Min(s) = Min(s)
  BY DEF Sequential!SumFunctionOnSet, Sequential!FoldFunctionOnSet,
         Sequential!MapThenFoldSet, SumFunctionOnSet, FoldFunctionOnSet,
         MapThenFoldSet, Sequential!Min, Min
<1>1. \A i : Sequential!First(i) = FirstIn(segs, i)
  BY <1>0 DEF Sequential!First, FirstIn
<1>2. Sequential!AllRows = FirstIn(segs, Len(segs) + 1) - 1
  BY <1>1 DEF Sequential!AllRows
<1>3. Sequential!PartEnds = PartEndsIn(segs)
  BY <1>1 DEF Sequential!PartEnds, PartEndsIn
<1>4. \A i : Sequential!PartFirst(i) = PartFirstIn(segs, i)
  BY <1>0, <1>1 DEF Sequential!PartFirst, PartFirstIn
<1>5. NWorkers = WorkersFor(segs) /\ \A i : ReaderOf(i) = ReaderIn(WorkersFor(segs), i)
  BY DEF NWorkers, WorkersFor, ReaderOf, ReaderIn
<1>6. Sequential!Read = ReadOf(given) /\ RowOffset = ReadOf(given)
  BY <1>0 DEF Sequential!Read, ReadOf, RowOffset
<1>7. Rows = RowsOf(queue)
  BY DEF Rows, RowsOf
<1>8. (\A k : RowsIn(k) = SumOfRows(queue, k)) /\ \A bs : Pinned(bs) = PinnedOf(queue, bs)
  BY DEF RowsIn, SumOfRows, Pinned, PinnedOf
<1> QED  BY <1>1, <1>2, <1>3, <1>4, <1>5, <1>6, <1>7, <1>8

\* The two that cut the queue, too.
LEMMA Cuts ==
  BoundedRows = BoundedOf(queue, limit) /\ \A n : Rest(n) = RestOf(queue, n)
<1>1. (\A k : RowsIn(k) = SumOfRows(queue, k)) /\ \A bs : Pinned(bs) = PinnedOf(queue, bs)
  BY SameThings
<1>2. BoundedRows = BoundedOf(queue, limit)
  BY <1>1 DEF BoundedRows, BoundedOf
<1>3. \A n : Rest(n) = RestOf(queue, n)
  BY <1>1 DEF Rest, RestOf
<1> QED  BY <1>2, <1>3

\* There is a worker, and no more of them than segments.
LEMMA Counts ==
  ASSUME NEW sg \in Sequential!Plans
  PROVE  WorkersFor(sg) \in Nat \ {0} /\ WorkersFor(sg) <= Len(sg)
BY PlanTyped, ShapeAssumption DEF WorkersFor

\* What a fault is.
LEMMA FaultTyped ==
  ASSUME NEW sg \in Sequential!Plans, NEW ft \in Sequential!FaultsOf(sg)
  PROVE  /\ ft.kind \in {"none", "err", "panic"} /\ ft.seg \in 1..Len(sg) /\ ft.at \in Nat
         /\ ft.kind # "none" => ft.at = 0 \/ ft.at < sg[ft.seg].rows
<1>1. MaxRows \in Nat /\ DOMAIN sg = 1..Len(sg)
  BY PlanTyped, ShapeAssumption
<1>2. ft.kind \in {"none", "err", "panic"} /\ ft.seg \in DOMAIN sg /\ ft.at \in 0..MaxRows
  BY DEF Sequential!FaultsOf
<1>3. ft.kind # "none" => ft.at = 0 \/ ft.at < sg[ft.seg].rows
  BY DEF Sequential!FaultsOf
<1> QED  BY <1>1, <1>2, <1>3

\* Every worker begins at its own first segment, with an empty channel.
LEMMA ReadInitial ==
  ASSUME ReadInit
  PROVE  ReadIInv
<1> DEFINE n == WorkersFor(segs)
<1>1. segs \in Sequential!Plans /\ fault \in Sequential!FaultsOf(segs) /\ limit \in Limits
  BY DEF ReadInit
<1>2. n \in Nat \ {0} /\ n <= Len(segs) /\ Len(segs) \in Nat \ {0, 1}
      /\ \A i \in 1..Len(segs) : segs[i].rows \in Nat
  BY <1>1, Counts, PlanTyped
<1>3. n = NWorkers
  BY SameThings
<1> HIDE DEF n
<1>4. /\ up = 0 /\ open = TRUE /\ mpc = "spawn" /\ seq = 1 /\ part = 0
      /\ queue = <<>> /\ given = <<>> /\ answer = "go"
      /\ result = Pending /\ outcome = Pending
      /\ work = [w \in 1..n |-> [seg |-> w, at |-> 0, run |-> "run"]]
      /\ chan = [w \in 1..n |-> <<>>]
  BY <1>3 DEF ReadInit
<1>5. FirstIn(segs, 1) = 1
  BY <1>1, Firsts
<1>6. ReadOf(given) = 0
  <2>1. given \in Seq(Handed) /\ <<0, <<>>>> \in Handed
    BY <1>4, EmptySeq DEF Handed
  <2> QED  BY <1>4, <2>1, ReadMore
<1> DEFINE b == [i \in 0..0 |-> 0]
<1>7. Laid(queue, b) /\ b[0] = 0 /\ queue \in Seq(Batches) /\ Len(queue) = 0
  <2>1. queue \in Seq(Batches) /\ Len(queue) = 0
    BY <1>4, EmptySeq
  <2>2. b \in [0..0 -> Nat] /\ 1..0 = {} /\ b[0] = 0
    OBVIOUS
  <2> HIDE DEF b
  <2> QED  BY <2>1, <2>2 DEF Laid
<1> HIDE DEF b
<1>8. Len(RowsOf(queue)) = 0
  <2>1. Len(RowsOf(queue)) = b[0] - b[0]
    BY <1>7, LaidRows
  <2> QED  BY <1>7, <2>1
<1>9. Top = 0
  BY <1>6, <1>8 DEF Top
<1>10. ReadTyped
  <2>1. work \in [1..n -> [seg : Nat \ {0}, at : Nat, run : {"run", "end", "panic"}]]
    <3>1. \A w \in 1..n : w \in Nat \ {0}
      BY <1>2
    <3> QED  BY <1>4, <3>1
  <2>2. chan \in [1..n -> Seq(Messages)]
    BY <1>4, EmptySeq
  <2>3. ASSUME NEW w \in 1..n
        PROVE  /\ work[w].seg <= Len(segs) + n
               /\ work[w].seg <= Len(segs) => work[w].at <= segs[work[w].seg].rows
               /\ work[w].seg > Len(segs) => work[w].at = 0
               /\ Len(chan[w]) <= Depth
    <3>1. work[w].seg = w /\ work[w].at = 0 /\ chan[w] = <<>> /\ w \in 1..Len(segs)
      BY <1>2, <1>4
    <3>2. segs[w].rows \in Nat /\ Len(chan[w]) = 0 /\ Depth \in Nat
      BY <1>2, <3>1, EmptySeq, ShapeAssumption
    <3> QED  BY <1>2, <3>1, <3>2
  <2>4. given \in Seq(Handed)
    BY <1>4, EmptySeq
  <2>5. up \in 0..n /\ seq \in 1..(Len(segs) + 1) /\ answer \in Sequential!Answers
    BY <1>2, <1>4 DEF Sequential!Answers
  <2> QED  BY <1>1, <1>4, <1>7, <2>1, <2>2, <2>3, <2>4, <2>5 DEF ReadTyped, WorkerIds, n
<1>11. Queued
  <2>1. Sized(queue)
    BY <1>7 DEF Sized
  <2> QED  BY <1>6, <1>7, <2>1 DEF Queued
<1>12. Merging
  <2>1. B \in Nat \ {0}
    BY ShapeAssumption
  <2>2. fault.kind # "none" => 1 <= fault.seg /\ 0 - 1 + 1 <= fault.at
    BY <1>1, FaultTyped
  <2>3. PartsGone(segs, seq - 1, ReadOf(given))
    BY <1>4 DEF PartsGone
  <2>4. up < WorkersFor(segs)
    BY <1>2, <1>4 DEF n
  <2> QED  BY <1>2, <1>4, <1>5, <1>6, <1>9, <2>1, <2>2, <2>3, <2>4 DEF Merging
<1>13. ASSUME NEW w \in 1..n  PROVE Stream(w)
  <2> DEFINE pl == [i \in 0..0 |-> [seg |-> w, at |-> 0]]
  <2>1. w \in seq..(seq + n - 1) /\ ReaderIn(n, w) = w
    BY <1>2, <1>4, Readers
  <2>2. chan[w] = <<>> /\ Len(chan[w]) = 0 /\ work[w].seg = w /\ work[w].at = 0
    BY <1>4, EmptySeq
  <2>3. pl \in [0..0 -> Places] /\ pl[0] = [seg |-> w, at |-> 0] /\ 1..0 = {}
    BY <1>2 DEF Places
  <2>4. PlaceOf(w) = [seg |-> w, at |-> 0]
    BY <1>4, <1>5, <1>9 DEF PlaceOf
  <2> HIDE DEF pl
  <2>5. Linked(segs, fault, chan[w], pl)
    BY <2>2, <2>3 DEF Linked
  <2> QED  BY <2>1, <2>2, <2>3, <2>4, <2>5 DEF Stream, n
<1>14. Streams /\ Ended /\ Explained
  BY <1>4, <1>13 DEF Streams, Ended, Explained, WorkerIds, n
<1> QED  BY <1>10, <1>11, <1>12, <1>14 DEF ReadIInv

-----------------------------------------------------------------------------
(* The workers *)

\* A worker's step leaves what is said of the merge alone.
LEMMA MergeAlone ==
  ASSUME Stay
  PROVE  /\ Queued => Queued'
         /\ Merging => Merging'
         /\ Top' = Top /\ \A s : PlaceOf(s)' = PlaceOf(s)
<1>1. UNCHANGED <<segs, fault, limit, up, open, mpc, seq, part, queue, given, answer,
                  result, outcome>>
  BY DEF Stay, inputs, merge
<1>2. Top' = Top
  BY <1>1 DEF Top
<1>3. \A s : PlaceOf(s)' = PlaceOf(s)
  BY <1>1, <1>2 DEF PlaceOf
<1>4. Queued => Queued'
  BY <1>1 DEF Queued
<1>5. Merging => Merging'
  BY <1>1, <1>2 DEF Merging
<1> QED  BY <1>2, <1>3, <1>4, <1>5

\* What a step by worker w alone does to the rest.
LEMMA OthersAlone ==
  ASSUME ReadIInv, NEW w \in WorkerIds, Stay,
         NEW x \in [seg : Nat \ {0}, at : Nat, run : {"run", "end", "panic"}],
         NEW ms \in Seq(Messages),
         work' = [work EXCEPT ![w] = x], chan' = [chan EXCEPT ![w] = ms],
         work[w].run = "run",
         /\ x.seg <= Len(segs) + WorkersFor(segs)
         /\ x.seg <= Len(segs) => x.at <= segs[x.seg].rows
         /\ x.seg > Len(segs) => x.at = 0
         /\ Len(ms) <= Depth,
         mpc # "done" => Stream(w)',
         x.run = "end" => \/ ~open \/ x.seg > Len(segs)
                          \/ ms # <<>> /\ ms[Len(ms)] = [kind |-> "err"],
         x.run = "panic" => w <= up /\ fault.kind = "panic"
  PROVE  ReadIInv'
<1>1. UNCHANGED <<segs, fault, limit, up, open, mpc, seq, part, queue, given, answer,
                  result, outcome>>
  BY DEF Stay, inputs, merge
<1>2. WorkerIds' = WorkerIds /\ WorkersFor(segs') = WorkersFor(segs)
  BY <1>1 DEF WorkerIds
<1>3. /\ ReadTyped /\ Queued /\ Merging /\ Streams /\ Ended /\ Explained
      /\ work \in [WorkerIds -> [seg : Nat \ {0}, at : Nat, run : {"run", "end", "panic"}]]
      /\ chan \in [WorkerIds -> Seq(Messages)]
  BY DEF ReadIInv, ReadTyped
<1>4. /\ work'[w] = x /\ chan'[w] = ms
      /\ \A v \in WorkerIds : v # w => work'[v] = work[v] /\ chan'[v] = chan[v]
      /\ work' \in [WorkerIds -> [seg : Nat \ {0}, at : Nat, run : {"run", "end", "panic"}]]
      /\ chan' \in [WorkerIds -> Seq(Messages)]
  BY <1>3
<1>5. Top' = Top /\ (\A s : PlaceOf(s)' = PlaceOf(s)) /\ Queued' /\ Merging'
  BY <1>3, MergeAlone
<1>6. ReadTyped'
  <2>1. ASSUME NEW v \in WorkerIds
        PROVE  /\ work'[v].seg <= Len(segs) + WorkersFor(segs)
               /\ work'[v].seg <= Len(segs) => work'[v].at <= segs[work'[v].seg].rows
               /\ work'[v].seg > Len(segs) => work'[v].at = 0
               /\ Len(chan'[v]) <= Depth
    <3>1. CASE v = w
      BY <1>4, <3>1
    <3>2. CASE v # w
      BY <1>3, <1>4, <3>2 DEF ReadTyped
    <3> QED  BY <3>1, <3>2
  <2> QED  BY <1>1, <1>2, <1>3, <1>4, <2>1 DEF ReadTyped
<1>7. Streams'
  <2>1. SUFFICES ASSUME mpc # "done", NEW v \in WorkerIds  PROVE Stream(v)'
    BY <1>1, <1>2 DEF Streams
  <2>2. CASE v = w
    BY <2>1, <2>2
  <2>3. CASE v # w
    <3>1. Stream(v) /\ work'[v] = work[v] /\ chan'[v] = chan[v]
      BY <1>3, <1>4, <2>1, <2>3 DEF Streams
    <3> QED  BY <1>1, <1>5, <3>1 DEF Stream
  <2> QED  BY <2>2, <2>3
<1>8. Ended'
  <2>1. SUFFICES ASSUME NEW v \in WorkerIds
                 PROVE  /\ work'[v].run = "end" =>
                             \/ ~open \/ work'[v].seg > Len(segs)
                             \/ chan'[v] # <<>> /\ chan'[v][Len(chan'[v])] = [kind |-> "err"]
                        /\ work'[v].run = "panic" => v <= up /\ fault.kind = "panic"
    BY <1>1, <1>2 DEF Ended
  <2>2. CASE v = w
    BY <1>4, <2>2
  <2>3. CASE v # w
    BY <1>3, <1>4, <2>3 DEF Ended
  <2> QED  BY <2>2, <2>3
<1>9. Explained'
  <2>1. ASSUME NEW v \in 1..up, work[v].run = "panic"  PROVE work'[v].run = "panic"
    <3>1. v \in WorkerIds
      <4>1. up \in 0..WorkersFor(segs) /\ WorkersFor(segs) \in Nat
        BY <1>3, Counts DEF ReadTyped
      <4> QED  BY <4>1 DEF WorkerIds
    <3> QED  BY <1>4, <2>1, <3>1
  <2> QED  BY <1>1, <1>3, <2>1 DEF Explained
<1> QED  BY <1>5, <1>6, <1>7, <1>8, <1>9 DEF ReadIInv

\* A worker sends.
LEMMA SendKeeps ==
  ASSUME ReadIInv, NEW w \in WorkerIds, Stay, Working(w), open, Len(chan[w]) < Depth,
         NEW m \in Messages, NEW r \in Places, NEW e \in {"run", "end"},
         e = "end" => m = [kind |-> "err"],
         Sent(segs, fault, m, [seg |-> work[w].seg, at |-> work[w].at], r),
         /\ r.seg <= Len(segs) + WorkersFor(segs)
         /\ r.seg <= Len(segs) => r.at <= segs[r.seg].rows
         /\ r.seg > Len(segs) => r.at = 0,
         chan' = [chan EXCEPT ![w] = Append(@, m)],
         work' = [work EXCEPT ![w] = [seg |-> r.seg, at |-> r.at, run |-> e]],
         Depth \in Nat
  PROVE  ReadIInv'
<1> DEFINE x == [seg |-> r.seg, at |-> r.at, run |-> e]
           ms == Append(chan[w], m)
<1>1. UNCHANGED <<segs, fault, limit, up, open, mpc, seq, part, queue, given, answer,
                  result, outcome>>
  BY DEF Stay, inputs, merge
<1>2. chan[w] \in Seq(Messages) /\ work[w].run = "run" /\ chan \in [WorkerIds -> Seq(Messages)]
      /\ work \in [WorkerIds -> [seg : Nat \ {0}, at : Nat, run : {"run", "end", "panic"}]]
  BY DEF ReadIInv, ReadTyped, Working
<1>3. ms \in Seq(Messages) /\ Len(ms) = Len(chan[w]) + 1 /\ ms[Len(ms)] = m /\ ms # <<>>
      /\ Len(chan[w]) \in Nat
  BY <1>2, LenProperties, AppendProperties, EmptySeq
<1>4. Len(ms) <= Depth
  BY <1>3
<1>5. x \in [seg : Nat \ {0}, at : Nat, run : {"run", "end", "panic"}]
  BY DEF Places
<1>6. chan' = [chan EXCEPT ![w] = ms] /\ work' = [work EXCEPT ![w] = x]
      /\ chan'[w] = ms /\ work'[w] = x
  BY <1>2
<1>7. x.seg = r.seg /\ x.at = r.at /\ x.run = e /\ r = [seg |-> r.seg, at |-> r.at]
  BY DEF Places
<1> HIDE DEF x, ms
<1>8. ASSUME mpc # "done"  PROVE Stream(w)'
  <2>1. Stream(w) /\ Top' = Top /\ \A s : PlaceOf(s)' = PlaceOf(s)
    BY <1>8, MergeAlone DEF ReadIInv, Streams
  <2>2. PICK s \in seq..(seq + WorkersFor(segs) - 1) : \E pl :
          /\ ReaderIn(WorkersFor(segs), s) = w
          /\ Linked(segs, fault, chan[w], pl)
          /\ pl[0] = PlaceOf(s)
          /\ pl[Len(chan[w])] = [seg |-> work[w].seg, at |-> work[w].at]
    BY <2>1 DEF Stream
  <2>3. PICK pl : /\ ReaderIn(WorkersFor(segs), s) = w
                  /\ Linked(segs, fault, chan[w], pl)
                  /\ pl[0] = PlaceOf(s)
                  /\ pl[Len(chan[w])] = [seg |-> work[w].seg, at |-> work[w].at]
    BY <2>2
  <2>4. Sent(segs, fault, m, pl[Len(chan[w])], r)
    BY <2>3
  <2>5. PICK o : Linked(segs, fault, ms, o) /\ o[0] = pl[0] /\ o[Len(ms)] = r
    <3>1. \E o : /\ Linked(segs, fault, Append(chan[w], m), o)
                 /\ o[0] = pl[0] /\ o[Len(Append(chan[w], m))] = r
      <4>1. PICK c : c = chan[w]
        OBVIOUS
      <4>2. c \in Seq(Messages) /\ Linked(segs, fault, c, pl) /\ Sent(segs, fault, m, pl[Len(c)], r)
        BY <1>2, <2>3, <2>4, <4>1
      <4>3. \E o : /\ Linked(segs, fault, Append(c, m), o)
                   /\ o[0] = pl[0] /\ o[Len(Append(c, m))] = r
        BY ONLY <4>2, SendLinks, r \in Places, m \in Messages
      <4> QED  BY <4>1, <4>3
    <3> QED  BY <3>1 DEF ms
  <2>6. /\ ReaderIn(WorkersFor(segs'), s) = w /\ Linked(segs', fault', chan'[w], o)
        /\ o[0] = PlaceOf(s)' /\ o[Len(chan'[w])] = [seg |-> work'[w].seg, at |-> work'[w].at]
        /\ s \in seq'..(seq' + WorkersFor(segs') - 1)
    BY <1>1, <1>6, <1>7, <2>1, <2>3, <2>5
  <2> QED  BY <2>6 DEF Stream
<1>9. x.run = "end" => ms # <<>> /\ ms[Len(ms)] = [kind |-> "err"]
  BY <1>3, <1>7
<1>10. x.run # "panic"
  BY <1>7
<1>11. /\ x.seg <= Len(segs) + WorkersFor(segs)
       /\ x.seg <= Len(segs) => x.at <= segs[x.seg].rows
       /\ x.seg > Len(segs) => x.at = 0
       /\ Len(ms) <= Depth
  BY <1>4, <1>7
<1>12. work[w].run = "run" /\ ms \in Seq(Messages)
       /\ work' = [work EXCEPT ![w] = x] /\ chan' = [chan EXCEPT ![w] = ms]
  BY <1>2, <1>3, <1>6
<1>13. /\ mpc # "done" => Stream(w)'
       /\ x.run = "end" => \/ ~open \/ x.seg > Len(segs)
                           \/ ms # <<>> /\ ms[Len(ms)] = [kind |-> "err"]
       /\ x.run = "panic" => w <= up /\ fault.kind = "panic"
  BY <1>8, <1>9, <1>10
<1> HIDE DEF Stay
<1> QED  BY <1>5, <1>11, <1>12, <1>13, OthersAlone

Here(w) == [seg |-> work[w].seg, at |-> work[w].at]

\* What a worker reads next, by the place it stands at.
LEMMA AtPlace ==
  ASSUME ReadIInv, NEW w \in WorkerIds, work[w].seg <= Len(segs)
  PROVE  /\ NextLen(w) = Cut(segs, Here(w))
         /\ FailsNext(w) = Broken(segs, fault, Here(w))
         /\ Here(w) \in Places
         /\ NextLen(w) \in Nat /\ NextLen(w) <= B
         /\ work[w].at + NextLen(w) <= segs[work[w].seg].rows
         /\ NextLen(w) = 0 => work[w].at = segs[work[w].seg].rows
         /\ FirstIn(segs, work[w].seg) \in Nat
         /\ Len(segs) \in Nat /\ WorkersFor(segs) \in Nat \ {0} /\ B \in Nat \ {0} /\ Depth \in Nat
         /\ work[w].seg \in Nat \ {0} /\ work[w].at \in Nat
         /\ segs[work[w].seg].rows \in Nat
<1>1. /\ segs \in Sequential!Plans
      /\ work \in [WorkerIds -> [seg : Nat \ {0}, at : Nat, run : {"run", "end", "panic"}]]
      /\ work[w].at <= segs[work[w].seg].rows
  BY DEF ReadIInv, ReadTyped
<1>2. work[w].seg \in Nat \ {0} /\ work[w].at \in Nat /\ Here(w) \in Places
  BY <1>1 DEF Here, Places
<1>3. /\ Len(segs) \in Nat /\ (\A i \in 1..Len(segs) : segs[i].rows \in Nat)
      /\ WorkersFor(segs) \in Nat \ {0} /\ B \in Nat \ {0} /\ Depth \in Nat
      /\ \A i \in 1..(Len(segs) + 1) : FirstIn(segs, i) \in Nat \ {0}
  <2>1. Len(segs) \in Nat /\ (\A i \in 1..Len(segs) : segs[i].rows \in Nat)
    BY <1>1, PlanTyped
  <2>2. WorkersFor(segs) \in Nat \ {0}
    BY <1>1, Counts
  <2>3. \A i \in 1..(Len(segs) + 1) : FirstIn(segs, i) \in Nat \ {0}
    BY <1>1, Firsts
  <2> QED  BY <2>1, <2>2, <2>3, ShapeAssumption
<1>4. segs[work[w].seg].rows \in Nat /\ FirstIn(segs, work[w].seg) \in Nat
  <2>1. work[w].seg \in 1..Len(segs) /\ work[w].seg \in 1..(Len(segs) + 1)
    BY <1>2, <1>3
  <2> QED  BY <1>3, <2>1
<1>5. NextLen(w) = Cut(segs, Here(w))
  BY DEF NextLen, Cut, Here
<1>6. FailsNext(w) = Broken(segs, fault, Here(w))
  BY <1>5 DEF FailsNext, Broken, Here
<1>7. /\ NextLen(w) \in Nat /\ NextLen(w) <= B
      /\ work[w].at + NextLen(w) <= segs[work[w].seg].rows
      /\ NextLen(w) = 0 => work[w].at = segs[work[w].seg].rows
  BY <1>1, <1>2, <1>3, <1>4 DEF NextLen
<1> QED  BY <1>2, <1>3, <1>4, <1>5, <1>6, <1>7

\* A worker's record with some of it replaced.
LEMMA Replaced ==
  ASSUME NEW R, NEW x \in [seg : Nat \ {0}, at : Nat, run : R], NEW s, NEW a, NEW e
  PROVE  /\ [x EXCEPT !.run = e] = [seg |-> x.seg, at |-> x.at, run |-> e]
         /\ [x EXCEPT !.at = a] = [seg |-> x.seg, at |-> a, run |-> x.run]
<1>1. x = [seg |-> x.seg, at |-> x.at, run |-> x.run]
  OBVIOUS
<1>2. [x EXCEPT !.run = e] = [seg |-> x.seg, at |-> x.at, run |-> e]
  BY <1>1
<1>3. [x EXCEPT !.at = a] = [seg |-> x.seg, at |-> a, run |-> x.run]
  BY <1>1
<1> QED  BY <1>2, <1>3

\* No step of a worker breaks the invariant.
LEMMA WorkerKeeps ==
  ASSUME ReadIInv, NEW w \in WorkerIds, Worker(w)
  PROVE  ReadIInv'
<1> DEFINE p == Here(w)
           x == work[w]
<1>1. /\ segs \in Sequential!Plans /\ x.seg \in Nat \ {0} /\ x.at \in Nat
      /\ x \in [seg : Nat \ {0}, at : Nat, run : {"run", "end", "panic"}]
      /\ work \in [WorkerIds -> [seg : Nat \ {0}, at : Nat, run : {"run", "end", "panic"}]]
      /\ chan \in [WorkerIds -> Seq(Messages)] /\ chan[w] \in Seq(Messages)
      /\ x.seg <= Len(segs) + WorkersFor(segs)
      /\ x.seg <= Len(segs) => x.at <= segs[x.seg].rows
      /\ x.seg > Len(segs) => x.at = 0
      /\ Len(chan[w]) <= Depth
  BY DEF ReadIInv, ReadTyped
<1>2. CASE SendBatch(w)
  <2> DEFINE n == NextLen(w)
             r == [seg |-> x.seg, at |-> x.at + n]
             m == BatchAt(segs, p)
  <2>1. x.seg <= Len(segs) /\ ~FailsNext(w) /\ n > 0 /\ Working(w) /\ Stay
    BY <1>2 DEF SendBatch
  <2>2. /\ n = Cut(segs, p) /\ ~Broken(segs, fault, p) /\ n \in Nat
        /\ x.at + n <= segs[x.seg].rows /\ FirstIn(segs, x.seg) \in Nat
        /\ Len(segs) \in Nat /\ WorkersFor(segs) \in Nat /\ Depth \in Nat
    BY <2>1, AtPlace
  <2>3. p.seg = x.seg /\ p.at = x.at
    BY DEF Here
  <2>4. m = [kind |-> "batch", rows |-> RunOf(FirstIn(segs, x.seg) + x.at, n), bytes |-> n]
    BY <2>2, <2>3 DEF BatchAt
  <2>5. FirstIn(segs, x.seg) + x.at \in Nat
    BY <1>1, <2>2
  <2> HIDE DEF n
  <2>6. /\ RunOf(FirstIn(segs, x.seg) + x.at, n) \in Seq(Nat)
        /\ Sequential!Run(FirstIn(segs, x.seg) + x.at, n) = RunOf(FirstIn(segs, x.seg) + x.at, n)
    BY <2>2, <2>5, RunsTyped
  <2>7. m \in Messages
    BY <2>2, <2>4, <2>6 DEF Messages
  <2>8. open /\ Len(chan[w]) < Depth /\ chan' = [chan EXCEPT ![w] = Append(@, m)]
    <3>1. Sequential!First(x.seg) = FirstIn(segs, x.seg)
      BY SameThings
    <3>2. Send(w, [kind |-> "batch", rows |-> Sequential!Run(FirstIn(segs, x.seg) + x.at, n),
                   bytes |-> n])
      BY <1>2, <3>1 DEF SendBatch, n
    <3>3. Send(w, m)
      BY <2>4, <2>6, <3>2
    <3> QED  BY <3>3 DEF Send
  <2>9. work' = [work EXCEPT ![w] = [seg |-> r.seg, at |-> r.at, run |-> "run"]]
    <3>1. work' = [work EXCEPT ![w].at = @ + n]
      BY <1>2 DEF SendBatch, n
    <3>2. x.run = "run"
      BY <2>1 DEF Working
    <3>3. [x EXCEPT !.at = @ + n] = [seg |-> x.seg, at |-> x.at + n, run |-> "run"]
      BY <1>1, <3>2, Replaced
    <3> QED  BY <1>1, <3>1, <3>3
  <2>10. Sent(segs, fault, m, p, r)
    BY <2>1, <2>2, <2>3 DEF Sent
  <2>11. r \in Places /\ r.seg <= Len(segs) + WorkersFor(segs)
         /\ (r.seg <= Len(segs) => r.at <= segs[r.seg].rows)
         /\ (r.seg > Len(segs) => r.at = 0)
    BY <1>1, <2>1, <2>2 DEF Places
  <2> HIDE DEF m, r, x
  <2>12. Sent(segs, fault, m, [seg |-> work[w].seg, at |-> work[w].at], r)
    BY <2>10 DEF Here
  <2> QED  BY <2>1, <2>2, <2>7, <2>8, <2>9, <2>11, <2>12, SendKeeps
<1>3. CASE SendEnd(w)
  <2> DEFINE r == [seg |-> x.seg + WorkersFor(segs), at |-> 0]
             m == [kind |-> "end"]
  <2>1. x.seg <= Len(segs) /\ ~FailsNext(w) /\ NextLen(w) = 0 /\ Working(w) /\ Stay
    BY <1>3 DEF SendEnd
  <2>2. /\ Cut(segs, p) = 0 /\ ~Broken(segs, fault, p)
        /\ Len(segs) \in Nat /\ WorkersFor(segs) \in Nat \ {0} /\ Depth \in Nat
    BY <2>1, AtPlace
  <2>3. p.seg = x.seg /\ p.at = x.at
    BY DEF Here
  <2>4. m \in Messages
    BY DEF Messages
  <2>5. open /\ Len(chan[w]) < Depth /\ chan' = [chan EXCEPT ![w] = Append(@, m)]
    BY <1>3 DEF SendEnd, Send
  <2>6. work' = [work EXCEPT ![w] = [seg |-> r.seg, at |-> r.at, run |-> "run"]]
    <3>1. work' = [work EXCEPT ![w].seg = @ + WorkersFor(segs), ![w].at = 0]
      BY <1>3, SameThings DEF SendEnd
    <3>2. x.run = "run"
      BY <2>1 DEF Working
    <3>3. [x EXCEPT !.seg = @ + WorkersFor(segs), !.at = 0]
             = [seg |-> x.seg + WorkersFor(segs), at |-> 0, run |-> "run"]
      <4> DEFINE f == [x EXCEPT !.seg = @ + WorkersFor(segs), !.at = 0]
      <4>1. /\ f.seg = x.seg + WorkersFor(segs) /\ f.at = 0 /\ f.run = "run"
            /\ f = [i \in {"seg", "at", "run"} |-> f[i]]
        <5> HIDE DEF x
        <5> QED  BY <1>1, <3>2
      <4> HIDE DEF f
      <4>2. f = [seg |-> x.seg + WorkersFor(segs), at |-> 0, run |-> "run"]
        BY <4>1
      <4> QED  BY <4>2 DEF f
    <3> QED  BY <1>1, <3>1, <3>3
  <2>7. Sent(segs, fault, m, p, r)
    BY <2>1, <2>2, <2>3 DEF Sent
  <2>8. r \in Places /\ r.seg <= Len(segs) + WorkersFor(segs)
        /\ (r.seg <= Len(segs) => r.at <= segs[r.seg].rows)
        /\ (r.seg > Len(segs) => r.at = 0)
    <3>1. r.at = 0 /\ r.seg = x.seg + WorkersFor(segs)
      OBVIOUS
    <3>2. r.seg \in Nat \ {0} /\ r.seg <= Len(segs) + WorkersFor(segs)
      BY <1>1, <2>1, <2>2, <3>1
    <3>3. ASSUME r.seg <= Len(segs)  PROVE segs[r.seg].rows \in Nat
      BY <1>1, <3>2, <3>3, <2>2, PlanTyped
    <3> QED  BY <3>1, <3>2, <3>3 DEF Places
  <2> HIDE DEF m, r, x
  <2>9. Sent(segs, fault, m, [seg |-> work[w].seg, at |-> work[w].at], r)
    BY <2>7 DEF Here
  <2> QED  BY <2>1, <2>2, <2>4, <2>5, <2>6, <2>8, <2>9, SendKeeps
<1>4. CASE SendErr(w)
  <2> DEFINE m == [kind |-> "err"]
  <2>1. x.seg <= Len(segs) /\ FailsNext(w) /\ fault.kind = "err" /\ Working(w) /\ Stay
    BY <1>4 DEF SendErr
  <2>2. Broken(segs, fault, p) /\ Depth \in Nat /\ p \in Places
    BY <2>1, AtPlace
  <2>3. p.seg = x.seg /\ p.at = x.at
    BY DEF Here
  <2>4. m \in Messages
    BY DEF Messages
  <2>5. open /\ Len(chan[w]) < Depth /\ chan' = [chan EXCEPT ![w] = Append(@, m)]
    BY <1>4 DEF SendErr, Send
  <2>6. work' = [work EXCEPT ![w] = [seg |-> p.seg, at |-> p.at, run |-> "end"]]
    <3>1. work' = [work EXCEPT ![w].run = "end"]
      BY <1>4 DEF SendErr
    <3>2. [x EXCEPT !.run = "end"] = [seg |-> x.seg, at |-> x.at, run |-> "end"]
      BY <1>1, Replaced
    <3> QED  BY <1>1, <2>3, <3>1, <3>2
  <2>7. Sent(segs, fault, m, p, p)
    BY <2>1, <2>2, <2>3 DEF Sent
  <2>8. p.seg <= Len(segs) + WorkersFor(segs)
        /\ (p.seg <= Len(segs) => p.at <= segs[p.seg].rows)
        /\ (p.seg > Len(segs) => p.at = 0)
    BY <1>1, <2>3
  <2>9. Sent(segs, fault, m, [seg |-> work[w].seg, at |-> work[w].at], p)
    BY <2>7 DEF Here
  <2>10. m = [kind |-> "err"]
    OBVIOUS
  <2> HIDE DEF m, p, x
  <2> QED  BY <2>1, <2>2, <2>4, <2>5, <2>6, <2>8, <2>9, <2>10, SendKeeps
<1>5. ASSUME NEW e \in {"end", "panic"}, Working(w), Stay, chan' = chan,
             work' = [work EXCEPT ![w].run = e],
             e = "end" => ~open \/ x.seg > Len(segs),
             e = "panic" => fault.kind = "panic"
      PROVE  ReadIInv'
  <2> DEFINE y == [seg |-> x.seg, at |-> x.at, run |-> e]
  <2>1. x.run = "run" /\ w <= up
    BY <1>5 DEF Working
  <2>2. work' = [work EXCEPT ![w] = y] /\ work'[w] = y
    <3>1. [x EXCEPT !.run = e] = y
      BY <1>1, Replaced
    <3> QED  BY <1>1, <1>5, <3>1
  <2>3. chan' = [chan EXCEPT ![w] = chan[w]]
    BY <1>1, <1>5
  <2>4. /\ y \in [seg : Nat \ {0}, at : Nat, run : {"run", "end", "panic"}]
        /\ y.seg = x.seg /\ y.at = x.at /\ y.run = e
    BY <1>1
  <2>5. ASSUME mpc # "done"  PROVE Stream(w)'
    <3>1. UNCHANGED <<segs, fault, seq>> /\ \A s : PlaceOf(s)' = PlaceOf(s)
      BY <1>5, MergeAlone DEF Stay, inputs, merge
    <3>2. Stream(w) /\ work'[w].seg = work[w].seg /\ work'[w].at = work[w].at
      BY <2>2, <2>4, <2>5 DEF ReadIInv, Streams
    <3> QED  BY <1>5, <3>1, <3>2 DEF Stream
  <2>6. /\ y.seg <= Len(segs) + WorkersFor(segs)
        /\ y.seg <= Len(segs) => y.at <= segs[y.seg].rows
        /\ y.seg > Len(segs) => y.at = 0
        /\ Len(chan[w]) <= Depth
    BY <1>1, <2>4
  <2>7. /\ mpc # "done" => Stream(w)'
        /\ y.run = "end" => \/ ~open \/ y.seg > Len(segs)
                            \/ chan[w] # <<>> /\ chan[w][Len(chan[w])] = [kind |-> "err"]
        /\ y.run = "panic" => w <= up /\ fault.kind = "panic"
    BY <1>5, <2>1, <2>4, <2>5
  <2>8. chan[w] \in Seq(Messages) /\ work[w].run = "run" /\ Stay
    BY <1>1, <1>5, <2>1
  <2> HIDE DEF y, x, Stay
  <2> QED  BY <2>2, <2>3, <2>4, <2>6, <2>7, <2>8, OthersAlone
<1>6. CASE Panics(w)
  BY <1>5, <1>6 DEF Panics
<1>7. CASE WorkerEnds(w)
  BY <1>5, <1>7 DEF WorkerEnds
<1> QED  BY <1>2, <1>3, <1>4, <1>6, <1>7 DEF Worker

\* The queue's rows are those between what was handed on and the merge's place.
LEMMA Stands ==
  ASSUME ReadIInv
  PROVE  \E b : /\ Laid(queue, b) /\ b[0] = ReadOf(given) /\ b[Len(queue)] = Top
                /\ ReadOf(given) \in Nat /\ Top \in Nat /\ ReadOf(given) <= Top
                /\ RowsOf(queue) = RunOf(ReadOf(given) + 1, Top - ReadOf(given))
                /\ Len(RowsOf(queue)) = Top - ReadOf(given)
<1>1. PICK b : Laid(queue, b) /\ b[0] = ReadOf(given)
  BY DEF ReadIInv, Queued
<1>2. queue \in Seq(Batches)
  BY DEF ReadIInv, ReadTyped
<1>3. /\ RowsOf(queue) = RunOf(b[0] + 1, b[Len(queue)] - b[0])
      /\ Len(RowsOf(queue)) = b[Len(queue)] - b[0]
      /\ b[0] \in Nat /\ b[Len(queue)] \in Nat /\ b[0] <= b[Len(queue)]
  BY <1>1, <1>2, LaidRows
<1>4. Top = b[0] + (b[Len(queue)] - b[0])
  BY <1>1, <1>3 DEF Top
<1>5. Top = b[Len(queue)]
  BY <1>3, <1>4
<1> QED  BY <1>1, <1>3, <1>5

\* The merge leaves.
LEMMA Left ==
  ASSUME ReadIInv, NEW r, LeaveWith(r), UNCHANGED <<seq, part>>,
         queue' \in Seq(Batches), given' \in Seq(Handed), answer' \in Sequential!Answers,
         Queued',
         \/ r = "ok" /\ \/ answer' = "stop"
                        \/ /\ answer' = "go" /\ fault.kind = "none"
                           /\ ReadOf(given') = FirstIn(segs, Len(segs) + 1) - 1
         \/ r = "consumerErr" /\ answer' = "err"
         \/ r = "panic" /\ answer' = "panic"
         \/ r = "spawnErr" /\ given' = <<>>
         \/ /\ r = "readErr" /\ answer' = "go" /\ fault.kind = "err"
            /\ ErrFits(segs, fault, ReadOf(given'))
         \/ r = "internalErr" /\ \E w \in 1..up : work[w].run = "panic"
  PROVE  ReadIInv'
<1>1. /\ result' = r /\ mpc' = "done" /\ open' = FALSE
      /\ chan' = [w \in DOMAIN chan |-> <<>>]
      /\ UNCHANGED <<segs, fault, limit, up, work, outcome, seq, part>>
  BY DEF LeaveWith, inputs
<1>2. /\ ReadTyped /\ Ended /\ chan \in [WorkerIds -> Seq(Messages)]
  BY DEF ReadIInv, ReadTyped
<1>3. WorkerIds' = WorkerIds /\ WorkersFor(segs') = WorkersFor(segs)
  BY <1>1 DEF WorkerIds
<1>4. /\ chan' \in [WorkerIds -> Seq(Messages)]
      /\ \A w \in WorkerIds : Len(chan'[w]) <= Depth
  <2>1. DOMAIN chan = WorkerIds
    BY <1>2
  <2>2. \A w \in WorkerIds : chan'[w] = <<>>
    BY <1>1, <2>1
  <2>3. <<>> \in Seq(Messages) /\ Len(<<>>) = 0 /\ Depth \in Nat
    BY EmptySeq, ShapeAssumption
  <2> QED  BY <1>1, <2>1, <2>2, <2>3
<1>5. ReadTyped'
  BY <1>1, <1>2, <1>3, <1>4 DEF ReadTyped
<1>6. Merging' /\ Streams'
  BY <1>1 DEF Merging, Streams
<1>7. Ended'
  BY <1>1, <1>2, <1>3 DEF Ended
<1>8. Explained'
  BY <1>1 DEF Explained
<1> QED  BY <1>5, <1>6, <1>7, <1>8 DEF ReadIInv

\* The merge stays where it stands, as far as the workers can see.
LEMMA StreamsStay ==
  ASSUME ReadIInv, UNCHANGED <<segs, fault, seq, work, chan>>, Top' = Top, mpc # "done"
  PROVE  Streams'
<1>1. WorkerIds' = WorkerIds /\ \A s : PlaceOf(s)' = PlaceOf(s)
  BY DEF WorkerIds, PlaceOf
<1>2. \A w \in WorkerIds : Stream(w)
  BY DEF ReadIInv, Streams
<1>3. ASSUME NEW w \in WorkerIds  PROVE Stream(w)'
  BY <1>1, <1>2 DEF Stream
<1> QED  BY <1>1, <1>3 DEF Streams

\* The types, when the workers stay and the merge goes on.
LEMMA TypedStays ==
  ASSUME ReadTyped, UNCHANGED <<segs, fault, limit, open, work, chan>>,
         up' \in 0..WorkersFor(segs),
         mpc' \in {"spawn", "part", "recv", "join", "tail", "done"},
         seq' \in 1..(Len(segs) + 1), part' \in 0..2, answer' \in Sequential!Answers,
         queue' \in Seq(Batches), given' \in Seq(Handed)
  PROVE  ReadTyped'
BY DEF ReadTyped, WorkerIds

\* What the plan, the fault and the constants are, in any state.
LEMMA PlanAt ==
  ASSUME ReadIInv
  PROVE  /\ segs \in Sequential!Plans /\ fault \in Sequential!FaultsOf(segs)
         /\ WorkersFor(segs) \in Nat \ {0} /\ WorkersFor(segs) <= Len(segs)
         /\ Len(segs) \in Nat \ {0, 1} /\ DOMAIN segs = 1..Len(segs)
         /\ seq \in 1..(Len(segs) + 1)
         /\ \A i \in 1..Len(segs) : segs[i].part \in {1, 2} /\ segs[i].rows \in Nat
         /\ FirstIn(segs, 1) = 1
         /\ \A i \in 1..Len(segs) : FirstIn(segs, i + 1) = FirstIn(segs, i) + segs[i].rows
         /\ \A i \in 1..(Len(segs) + 1) : FirstIn(segs, i) \in Nat \ {0}
         /\ \A i, j \in 1..(Len(segs) + 1) : i <= j => FirstIn(segs, i) <= FirstIn(segs, j)
         /\ fault.kind \in {"none", "err", "panic"} /\ fault.seg \in 1..Len(segs)
         /\ fault.at \in Nat
         /\ fault.kind # "none" => fault.at = 0 \/ fault.at < segs[fault.seg].rows
         /\ B \in Nat \ {0} /\ Depth \in Nat \ {0} /\ limit \in Nat /\ Ample \in Nat /\ Ample >= 3 * B
<1>1. segs \in Sequential!Plans /\ fault \in Sequential!FaultsOf(segs) /\ limit \in Limits
      /\ seq \in 1..(Len(segs) + 1)
  BY DEF ReadIInv, ReadTyped
<1>2. WorkersFor(segs) \in Nat \ {0} /\ WorkersFor(segs) <= Len(segs)
  BY <1>1, Counts
<1>3. /\ Len(segs) \in Nat \ {0, 1} /\ DOMAIN segs = 1..Len(segs)
      /\ \A i \in 1..Len(segs) : segs[i].part \in {1, 2} /\ segs[i].rows \in Nat
  BY <1>1, PlanTyped
<1>4. /\ FirstIn(segs, 1) = 1
      /\ \A i \in 1..Len(segs) : FirstIn(segs, i + 1) = FirstIn(segs, i) + segs[i].rows
      /\ \A i \in 1..(Len(segs) + 1) : FirstIn(segs, i) \in Nat \ {0}
      /\ \A i, j \in 1..(Len(segs) + 1) : i <= j => FirstIn(segs, i) <= FirstIn(segs, j)
  BY <1>1, Firsts
<1>5. /\ fault.kind \in {"none", "err", "panic"} /\ fault.seg \in 1..Len(segs)
      /\ fault.at \in Nat
      /\ fault.kind # "none" => fault.at = 0 \/ fault.at < segs[fault.seg].rows
  BY <1>1, FaultTyped
<1>6. B \in Nat \ {0} /\ Depth \in Nat \ {0} /\ limit \in Nat /\ Ample \in Nat /\ Ample >= 3 * B
  BY <1>1, ShapeAssumption
<1> QED  BY <1>1, <1>2, <1>3, <1>4, <1>5, <1>6

-----------------------------------------------------------------------------
(* What is handed on *)

\* What Deliver hands on: the next rows, as many as a single reader's batch
\* where the limit does not bind, out of batches that pin the limit at most.
LEMMA Handing ==
  ASSUME ReadIInv, Wanted > 0
  PROVE  LET n == Take(Wanted)
             r == ReadOf(given)
         IN  /\ n \in Nat \ {0} /\ n <= B /\ r + n <= Top
             /\ mpc \in {"part", "tail", "join"}
             /\ mpc \in {"part", "tail"} => /\ seq > 1 /\ Top = FirstIn(segs, seq) - 1
                                            /\ mpc = "part" => segs[seq].part # segs[seq - 1].part
             /\ limit >= Ample => n = IF mpc = "join" THEN B ELSE Top - r
             /\ SubSeq(Rows, 1, n) = RunOf(r + 1, n)
             /\ SubSeq(Rows, 1, n) \in Seq(Nat) /\ Len(SubSeq(Rows, 1, n)) = n
             /\ \E h \in 1..Len(queue) :
                  /\ n <= SumOfRows(queue, h)
                  /\ h = 1 \/ PinnedOf(queue, 1..h) <= limit
<1> DEFINE n == Take(Wanted)
           r == ReadOf(given)
           l == Top - r
<1>1. PICK b : /\ Laid(queue, b) /\ b[0] = r /\ b[Len(queue)] = Top
               /\ r \in Nat /\ Top \in Nat /\ r <= Top
               /\ RowsOf(queue) = RunOf(r + 1, Top - r)
               /\ Len(RowsOf(queue)) = Top - r
  BY Stands
<1>2. /\ Rows = RowsOf(queue) /\ BoundedRows = BoundedOf(queue, limit)
      /\ queue \in Seq(Batches) /\ Sized(queue)
  BY SameThings, Cuts DEF ReadIInv, ReadTyped, Queued
<1>3. l \in Nat /\ Len(Rows) = l /\ Rows = RunOf(r + 1, l)
  BY <1>1, <1>2
<1>4. B \in Nat \ {0} /\ limit \in Nat /\ Ample \in Nat /\ Ample >= 3 * B
  BY PlanAt
<1>5. /\ mpc \in {"part", "tail", "join"}
      /\ Wanted \in Nat \ {0} /\ Wanted <= l
      /\ mpc \in {"part", "tail"} => Wanted = l
      /\ mpc = "part" => segs[seq].part # part
      /\ mpc = "join" => /\ l >= B \/ BoundedRows < l
                         /\ Wanted = IF l < B THEN l ELSE B
  BY <1>3, <1>4 DEF Wanted
<1>6. mpc # "done" /\ Merging
  BY <1>5 DEF ReadIInv
<1>7. l < (IF mpc = "join" THEN 2 * B ELSE B)
  BY <1>6 DEF Merging
<1>8. queue # <<>>
  <2>1. SUFFICES ASSUME queue = <<>>  PROVE FALSE
    OBVIOUS
  <2>2. b[Len(queue)] = b[0]
    BY <2>1, EmptySeq
  <2> QED  BY <1>1, <1>5, <2>2
<1> HIDE DEF l
<1>9. PICK h \in 1..Len(queue) :
        /\ BoundedRows = b[h] - b[0]
        /\ b[h] - b[0] \in Nat \ {0} /\ b[h] <= b[Len(queue)]
        /\ h = 1 \/ PinnedOf(queue, 1..h) <= limit
        /\ PinnedOf(queue, 1..Len(queue)) <= limit => h = Len(queue)
  BY <1>1, <1>2, <1>4, <1>8, BoundedIs
<1>10. SumOfRows(queue, h) = BoundedRows
  <2>1. h \in 0..Len(queue)
    OBVIOUS
  <2>2. SumOfRows(queue, h) = b[h] - b[0]
    BY <1>1, <1>2, <2>1, LaidSums DEF SumOfRows
  <2> QED  BY <1>9, <2>2
<1>11. n \in Nat \ {0} /\ n <= Wanted /\ n <= BoundedRows /\ (n = Wanted \/ n = BoundedRows)
  BY <1>5, <1>9 DEF Take
<1> HIDE DEF n
<1>12. n <= B /\ n <= l
  <2>0. l \in Nat /\ l = Len(Rows)
    BY <1>3 DEF l
  <2>1. Wanted <= B
    <3>1. CASE mpc = "join"
      BY <1>4, <1>5, <2>0, <3>1
    <3>2. CASE mpc # "join"
      BY <1>4, <1>5, <1>7, <2>0, <3>2
    <3> QED  BY <3>1, <3>2
  <2>2. Wanted <= l
    BY <1>5
  <2> QED  BY <1>4, <1>5, <1>11, <2>0, <2>1, <2>2
<1>13. r + n <= Top
  BY <1>1, <1>11, <1>12 DEF l
<1>14. SubSeq(Rows, 1, n) = RunOf(r + 1, n)
  <2>1. r + 1 \in Nat /\ 1 \in 1..(l + 1) /\ n \in 0..l /\ 1 <= n + 1
        /\ (r + 1) + 1 - 1 = r + 1 /\ n - 1 + 1 = n
    BY <1>1, <1>3, <1>11, <1>12
  <2>2. SubSeq(RunOf(r + 1, l), 1, n) = RunOf((r + 1) + 1 - 1, n - 1 + 1)
    <3>1. PICK a \in Nat : a = r + 1
      BY <2>1
    <3>2. a \in Nat /\ l \in Nat /\ 1 \in 1..(l + 1) /\ n \in 0..l /\ 1 <= n + 1
      BY <1>3, <2>1
    <3>3. SubSeq(RunOf(a, l), 1, n) = RunOf(a + 1 - 1, n - 1 + 1)
      BY ONLY <3>2, PartOfRun
    <3> QED  BY <3>1, <3>3
  <2> QED  BY <1>3, <2>1, <2>2
<1>15. SubSeq(Rows, 1, n) \in Seq(Nat) /\ Len(SubSeq(Rows, 1, n)) = n
  <2>1. r + 1 \in Nat /\ n \in Nat
    BY <1>1, <1>11
  <2>2. RunOf(r + 1, n) \in Seq(Nat) /\ Len(RunOf(r + 1, n)) = n
    BY <2>1, RunsTyped
  <2> QED  BY <1>14, <2>2
<1>16. mpc \in {"part", "tail"} =>
          /\ seq > 1 /\ Top = FirstIn(segs, seq) - 1
          /\ mpc = "part" => segs[seq].part # segs[seq - 1].part
  <2>1. SUFFICES ASSUME mpc \in {"part", "tail"}
                 PROVE  /\ seq > 1 /\ Top = FirstIn(segs, seq) - 1
                        /\ mpc = "part" => segs[seq].part # segs[seq - 1].part
    OBVIOUS
  <2>2. Top = FirstIn(segs, seq) - 1 /\ (mpc = "part" /\ seq > 1 => part = segs[seq - 1].part)
    BY <1>6, <2>1 DEF Merging
  <2>3. seq # 1
    <3>1. SUFFICES ASSUME seq = 1  PROVE FALSE
      OBVIOUS
    <3>2. Top = 0
      BY <2>2, <3>1, PlanAt
    <3> QED  BY <1>1, <1>11, <1>13, <3>2
  <2>4. seq > 1
    BY <2>3, PlanAt
  <2> QED  BY <1>5, <2>2, <2>4
<1>17. limit >= Ample => n = IF mpc = "join" THEN B ELSE l
  <2>1. SUFFICES ASSUME limit >= Ample  PROVE n = IF mpc = "join" THEN B ELSE l
    OBVIOUS
  <2>2. b[Len(queue)] - b[0] < 2 * B
    BY <1>1, <1>4, <1>7 DEF l
  <2>3. PinnedOf(queue, 1..Len(queue)) <= 3 * B
    BY <1>1, <1>2, <1>4, <2>2, PinsFew
  <2>4. PinnedOf(queue, 1..Len(queue)) <= limit
    <3>1. PinnedOf(queue, 1..Len(queue)) \in Nat
      <4> DEFINE f == [i \in DOMAIN queue |-> queue[i].bytes]
      <4>1. Len(queue) \in Nat /\ DOMAIN queue = 1..Len(queue)
        BY <1>2, LenProperties
      <4>2. \A i \in 1..Len(queue) : f[i] \in Nat
        <5>1. ASSUME NEW i \in 1..Len(queue)  PROVE queue[i] \in Batches
          BY <1>2, ElementOfSeq
        <5> QED  BY <4>1, <5>1 DEF Batches
      <4>3. Len(queue) \in 0..Len(queue)
        BY <4>1
      <4> HIDE DEF f
      <4>4. SumFunctionOnSet(f, 1..Len(queue)) \in Nat
        BY <4>1, <4>2, <4>3, PrefixSums
      <4> QED  BY <4>4 DEF PinnedOf, f
    <3> QED  BY <1>4, <2>1, <2>3, <3>1
  <2>5. BoundedRows = l
    BY <1>1, <1>9, <2>4 DEF l
  <2> QED  BY <1>3, <1>4, <1>5, <1>11, <2>5
<1> QED  BY <1>1, <1>5, <1>9, <1>10, <1>11, <1>12, <1>13, <1>14, <1>15, <1>16, <1>17 DEF n, l

\* Deliver keeps the invariant, whatever on_batch answers.
LEMMA DeliverKeeps ==
  ASSUME ReadIInv, Deliver
  PROVE  ReadIInv'
<1> DEFINE n == Take(Wanted)
           r == ReadOf(given)
           x == <<r, SubSeq(Rows, 1, n)>>
<1>1. /\ n \in Nat \ {0} /\ n <= B /\ r + n <= Top
      /\ mpc \in {"part", "tail", "join"}
      /\ SubSeq(Rows, 1, n) \in Seq(Nat) /\ Len(SubSeq(Rows, 1, n)) = n
  BY Handing DEF Deliver
<1>2. PICK b : /\ Laid(queue, b) /\ b[0] = r /\ b[Len(queue)] = Top
               /\ r \in Nat /\ Top \in Nat /\ r <= Top
  BY Stands
<1>3. /\ given' = Append(given, x) /\ queue' = RestOf(queue, n)
      /\ answer' \in Sequential!Answers /\ UNCHANGED <<seq, part>>
  BY SameThings, Cuts DEF Deliver
<1>4. queue \in Seq(Batches) /\ Sized(queue) /\ given \in Seq(Handed) /\ Merging /\ ReadTyped
  BY DEF ReadIInv, ReadTyped, Queued
<1>5. x \in Handed /\ x[2] = SubSeq(Rows, 1, n)
  BY <1>1, <1>2 DEF Handed
<1> HIDE DEF x, n, r
<1>6. given' \in Seq(Handed) /\ ReadOf(given') = r + n
  <2>1. Append(given, x) \in Seq(Handed)
    BY <1>4, <1>5, AppendProperties
  <2>2. ReadOf(Append(given, x)) = ReadOf(given) + Len(x[2])
    BY <1>4, <1>5, ReadMore
  <2> QED  BY <1>1, <1>3, <1>5, <2>1, <2>2 DEF r
<1>7. /\ queue' \in Seq(Batches) /\ Sized(queue')
      /\ \E c : Laid(queue', c) /\ c[0] = r + n /\ c[Len(queue')] = Top
  <2>1. b[0] + n <= b[Len(queue)] /\ n \in Nat
    BY <1>1, <1>2
  <2>2. /\ RestOf(queue, n) \in Seq(Batches) /\ Sized(RestOf(queue, n))
        /\ \E c : /\ Laid(RestOf(queue, n), c)
                  /\ c[0] = b[0] + n /\ c[Len(RestOf(queue, n))] = b[Len(queue)]
    BY <1>2, <1>4, <2>1, RestLaid
  <2> QED  BY <1>2, <1>3, <2>2
<1>8. Queued'
  BY <1>6, <1>7 DEF Queued
<1>9. Top' = Top
  <2>1. PICK c : Laid(queue', c) /\ c[0] = r + n /\ c[Len(queue')] = Top
    BY <1>7
  <2>2. Len(RowsOf(queue')) = c[Len(queue')] - c[0]
    BY <1>7, <2>1, LaidRows
  <2>3. Top' = ReadOf(given') + Len(RowsOf(queue'))
    BY DEF Top
  <2>4. Top' = (r + n) + (Top - (r + n))
    BY <1>6, <2>1, <2>2, <2>3
  <2> QED  BY <1>1, <1>2, <2>4
<1>10. CASE answer' = "go"
  <2>1. mpc' = mpc /\ UNCHANGED <<segs, fault, limit, up, work, open, result, outcome, chan>>
    BY <1>10 DEF Deliver, Go, inputs
  <2>2. ReadTyped'
    BY <1>3, <1>4, <1>6, <1>7, <2>1, TypedStays DEF ReadTyped
  <2>3. PartsGone(segs, IF mpc \in {"recv", "join"} THEN seq ELSE seq - 1, ReadOf(given'))
    <3>1. PICK s : s = IF mpc \in {"recv", "join"} THEN seq ELSE seq - 1
      OBVIOUS
    <3>2. PartsGone(segs, s, r)
      BY <1>1, <1>4, <3>1 DEF Merging, r
    <3>3. ASSUME NEW j \in 1..(Len(segs) - 1), FirstIn(segs, j + 1) - 1 <= r
          PROVE  FirstIn(segs, j + 1) - 1 <= r + n
      <4>1. j + 1 \in 1..(Len(segs) + 1)
        BY PlanAt
      <4>2. FirstIn(segs, j + 1) \in Nat
        BY <4>1, PlanAt
      <4> QED  BY <1>1, <1>2, <3>3, <4>2
    <3>4. PartsGone(segs, s, r + n)
      BY <3>2, <3>3 DEF PartsGone
    <3> QED  BY <1>6, <3>1, <3>4
  <2>4. Merging'
    <3>1. mpc # "done" /\ mpc # "spawn"
      BY <1>1
    <3>2. Top - (r + n) < (IF mpc = "join" THEN 2 * B ELSE B)
      <4>1. Top - r < (IF mpc = "join" THEN 2 * B ELSE B)
        BY <1>4, <3>1 DEF Merging, r
      <4>2. PICK k \in Nat : k = (IF mpc = "join" THEN 2 * B ELSE B)
        BY PlanAt
      <4> QED  BY <1>1, <1>2, <4>1, <4>2
    <3>3. /\ open = TRUE /\ outcome = Pending
          /\ mpc # "spawn" => up = WorkersFor(segs)
          /\ IF mpc = "tail" THEN seq = Len(segs) + 1 ELSE seq <= Len(segs)
          /\ mpc \in {"spawn", "part", "tail"} => Top = FirstIn(segs, seq) - 1
          /\ mpc = "part" /\ seq > 1 => part = segs[seq - 1].part
          /\ mpc \in {"recv", "join"} => /\ part = segs[seq].part
                                         /\ FirstIn(segs, seq) - 1 <= Top
                                         /\ Top <= FirstIn(segs, seq + 1) - 1
          /\ fault.kind # "none" =>
               /\ seq <= fault.seg
               /\ fault.seg = seq => Top - FirstIn(segs, seq) + 1 <= fault.at
      BY <1>4, <3>1 DEF Merging
    <3> HIDE DEF Top
    <3> QED  BY <1>3, <1>6, <1>9, <1>10, <2>1, <2>3, <3>1, <3>2, <3>3 DEF Merging
  <2>5. Streams'
    BY <1>1, <1>3, <1>9, <2>1, StreamsStay
  <2>6. Ended' /\ Explained'
    <3>1. WorkerIds' = WorkerIds /\ mpc # "done" /\ Ended
      BY <1>1, <2>1 DEF WorkerIds, ReadIInv
    <3> QED  BY <2>1, <3>1 DEF Ended, Explained
  <2> QED  BY <1>8, <2>2, <2>4, <2>5, <2>6 DEF ReadIInv
<1>11. CASE answer' = "stop"
  <2>1. LeaveWith("ok")
    BY <1>11 DEF Deliver
  <2> QED  BY <1>3, <1>6, <1>7, <1>8, <1>11, <2>1, Left
<1>12. CASE answer' = "err"
  <2>1. LeaveWith("consumerErr")
    BY <1>12 DEF Deliver
  <2> QED  BY <1>3, <1>6, <1>7, <1>8, <1>12, <2>1, Left
<1>13. CASE answer' = "panic"
  <2>1. LeaveWith("panic")
    BY <1>13 DEF Deliver
  <2> QED  BY <1>3, <1>6, <1>7, <1>8, <1>13, <2>1, Left
<1> QED  BY <1>3, <1>10, <1>11, <1>12, <1>13 DEF Sequential!Answers

\* The merge leaves with what it has handed on as it is.
LEMMA LeftAlone ==
  ASSUME ReadIInv, NEW r, LeaveWith(r), UNCHANGED <<seq, part, queue, given, answer>>,
         \/ r = "ok" /\ answer = "go" /\ fault.kind = "none"
            /\ ReadOf(given) = FirstIn(segs, Len(segs) + 1) - 1
         \/ r = "spawnErr" /\ given = <<>>
         \/ /\ r = "readErr" /\ answer = "go" /\ fault.kind = "err"
            /\ ErrFits(segs, fault, ReadOf(given))
         \/ r = "internalErr" /\ \E w \in 1..up : work[w].run = "panic"
  PROVE  ReadIInv'
<1>1. queue' \in Seq(Batches) /\ given' \in Seq(Handed) /\ answer' \in Sequential!Answers
  BY DEF ReadIInv, ReadTyped
<1>2. Queued'
  BY DEF ReadIInv, Queued
<1> QED  BY <1>1, <1>2, Left

\* One more worker is up.
LEMMA SpawnKeeps ==
  ASSUME ReadIInv, Spawn
  PROVE  ReadIInv'
<1>1. /\ mpc = "spawn" /\ up' = up + 1
      /\ mpc' = IF up' = WorkersFor(segs) THEN "part" ELSE "spawn"
      /\ UNCHANGED <<segs, fault, limit, work, chan, open, seq, part, queue, given, answer,
                     result, outcome>>
  BY SameThings DEF Spawn, inputs, readers, merge
<1>2. /\ ReadTyped /\ Merging /\ Queued /\ Ended
      /\ up < WorkersFor(segs) /\ up \in 0..WorkersFor(segs) /\ WorkersFor(segs) \in Nat
  BY <1>1, PlanAt DEF ReadIInv, ReadTyped, Merging
<1>3. up' \in 0..WorkersFor(segs) /\ (mpc' = "spawn" => up' < WorkersFor(segs))
      /\ (mpc' # "spawn" => up' = WorkersFor(segs)) /\ mpc' \in {"spawn", "part"}
  BY <1>1, <1>2
<1>4. ReadTyped'
  <2>1. /\ seq' \in 1..(Len(segs) + 1) /\ part' \in 0..2 /\ answer' \in Sequential!Answers
        /\ queue' \in Seq(Batches) /\ given' \in Seq(Handed)
    BY <1>1, <1>2 DEF ReadTyped
  <2> QED  BY <1>1, <1>2, <1>3, <2>1, TypedStays
<1>5. Top' = Top /\ Queued'
  BY <1>1, <1>2 DEF Top, Queued
<1>6. Streams'
  BY <1>1, <1>5, StreamsStay
<1>7. Merging'
  <2>1. /\ open = TRUE /\ outcome = Pending /\ answer = "go"
        /\ seq = 1 /\ given = <<>> /\ queue = <<>>
        /\ seq <= Len(segs) /\ Top = FirstIn(segs, seq) - 1
        /\ Top - ReadOf(given) < B
        /\ fault.kind # "none" =>
             /\ seq <= fault.seg
             /\ fault.seg = seq => Top - FirstIn(segs, seq) + 1 <= fault.at
        /\ PartsGone(segs, seq - 1, ReadOf(given))
    BY <1>1, <1>2 DEF Merging
  <2> HIDE DEF Top
  <2>2. mpc' # "tail" /\ mpc' # "recv" /\ mpc' # "join" /\ ~(seq > 1)
    BY <1>3, <2>1
  <2> QED  BY <1>1, <1>3, <1>5, <2>1, <2>2 DEF Merging
<1>8. Ended'
  <2>1. ASSUME NEW w \in WorkerIds, work[w].run = "panic"  PROVE w <= up + 1
    <3>1. w <= up /\ w \in Nat
      BY <1>2, <2>1 DEF Ended, WorkerIds
    <3> QED  BY <1>2, <3>1
  <2>2. WorkerIds' = WorkerIds
    BY <1>1 DEF WorkerIds
  <2> QED  BY <1>1, <1>2, <2>1, <2>2 DEF Ended
<1>9. Explained'
  BY <1>3 DEF Explained
<1> QED  BY <1>4, <1>5, <1>6, <1>7, <1>8, <1>9 DEF ReadIInv

\* A worker that cannot be spawned ends the read before anything is handed on.
LEMMA SpawnFailsKeeps ==
  ASSUME ReadIInv, SpawnFails
  PROVE  ReadIInv'
<1>1. mpc = "spawn" /\ LeaveWith("spawnErr") /\ UNCHANGED <<seq, part, queue, given, answer>>
  BY DEF SpawnFails, merge
<1>2. given = <<>>
  BY <1>1 DEF ReadIInv, Merging
<1> QED  BY <1>1, <1>2, LeftAlone

\* Where nothing is wanted, nothing is left of a part that has ended, and less
\* than a batch otherwise.
LEMMA NoneWanted ==
  ASSUME ReadIInv, Wanted = 0
  PROVE  /\ mpc = "tail" => ReadOf(given) = Top
         /\ mpc = "part" => segs[seq].part = part \/ ReadOf(given) = Top
         /\ mpc = "join" => Top - ReadOf(given) < B
<1>1. /\ ReadOf(given) \in Nat /\ Top \in Nat /\ Len(Rows) = Top - ReadOf(given)
      /\ B \in Nat \ {0}
  BY Stands, SameThings, PlanAt
<1>2. CASE mpc = "tail"
  <2>1. Len(Rows) = 0
    BY <1>2 DEF Wanted
  <2> QED  BY <1>1, <1>2, <2>1
<1>3. CASE mpc = "part"
  <2>1. segs[seq].part = part \/ Len(Rows) = 0
    BY <1>3 DEF Wanted
  <2> QED  BY <1>1, <1>3, <2>1
<1>4. CASE mpc = "join"
  <2>1. ~(Len(Rows) >= B)
    <3>1. SUFFICES ASSUME Len(Rows) >= B  PROVE FALSE
      OBVIOUS
    <3>2. Wanted = IF Len(Rows) < B THEN Len(Rows) ELSE B
      BY <1>4, <3>1 DEF Wanted
    <3> QED  BY <1>1, <3>1, <3>2
  <2> QED  BY <1>1, <1>4, <2>1
<1> QED  BY <1>2, <1>3, <1>4

\* The merge begins a segment with nothing left of another part.
LEMMA BeginKeeps ==
  ASSUME ReadIInv, BeginSegment
  PROVE  ReadIInv'
<1>1. /\ mpc = "part" /\ Wanted = 0 /\ part' = segs[seq].part /\ mpc' = "recv"
      /\ UNCHANGED <<segs, fault, limit, up, work, chan, open, seq, queue, given, answer,
                     result, outcome>>
  BY DEF BeginSegment, Go, inputs
<1>2. ReadTyped /\ Merging /\ Queued /\ Ended
  BY DEF ReadIInv
<1>3. /\ seq \in 1..Len(segs) /\ Top = FirstIn(segs, seq) - 1
      /\ seq > 1 => part = segs[seq - 1].part
      /\ open = TRUE /\ outcome = Pending /\ answer = "go" /\ up = WorkersFor(segs)
      /\ Top - ReadOf(given) < B
      /\ fault.kind # "none" =>
           /\ seq <= fault.seg
           /\ fault.seg = seq => Top - FirstIn(segs, seq) + 1 <= fault.at
      /\ PartsGone(segs, seq - 1, ReadOf(given))
  <2>1. seq <= Len(segs) /\ seq \in 1..(Len(segs) + 1) /\ Len(segs) \in Nat
    BY <1>1, <1>2, PlanAt DEF Merging
  <2>2. seq \in 1..Len(segs)
    BY <2>1
  <2> QED  BY <1>1, <1>2, <2>2 DEF Merging
<1>4. segs[seq].part \in {1, 2} /\ segs[seq].rows \in Nat
      /\ FirstIn(segs, seq + 1) = FirstIn(segs, seq) + segs[seq].rows
      /\ FirstIn(segs, seq) \in Nat
  <2>1. seq \in 1..(Len(segs) + 1)
    BY PlanAt
  <2> QED  BY <1>3, <2>1, PlanAt
<1>5. ReadTyped'
  <2>1. /\ seq' \in 1..(Len(segs) + 1) /\ part' \in 0..2 /\ answer' \in Sequential!Answers
        /\ queue' \in Seq(Batches) /\ given' \in Seq(Handed) /\ up' \in 0..WorkersFor(segs)
    BY <1>1, <1>2, <1>4 DEF ReadTyped
  <2> QED  BY <1>1, <1>2, <2>1, TypedStays
<1>6. Top' = Top /\ Queued'
  BY <1>1, <1>2 DEF Top, Queued
<1>7. Streams'
  BY <1>1, <1>6, StreamsStay
<1>8. PartsGone(segs, seq, ReadOf(given))
  <2>1. SUFFICES ASSUME NEW j \in 1..(Len(segs) - 1), j < seq, segs[j + 1].part # segs[j].part
                 PROVE  FirstIn(segs, j + 1) - 1 <= ReadOf(given)
    BY DEF PartsGone
  <2>2. CASE j < seq - 1
    BY <1>3, <2>1, <2>2 DEF PartsGone
  <2>3. CASE ~(j < seq - 1)
    <3>1. j + 1 = seq /\ j = seq - 1 /\ seq > 1
      BY <1>3, <2>1, <2>3
    <3>2. segs[seq].part # part
      BY <1>3, <2>1, <3>1
    <3>3. ReadOf(given) = Top
      BY <1>1, <3>2, NoneWanted
    <3> QED  BY <1>3, <1>4, <3>1, <3>3
  <2> QED  BY <2>2, <2>3
<1>9. Merging'
  <2> HIDE DEF Top
  <2>1. FirstIn(segs, seq) - 1 <= Top /\ Top <= FirstIn(segs, seq + 1) - 1
    BY <1>3, <1>4
  <2>2. seq <= Len(segs)
    BY <1>3
  <2> QED  BY <1>1, <1>3, <1>6, <1>8, <2>1, <2>2 DEF Merging
<1>10. Ended' /\ Explained'
  <2>1. WorkerIds' = WorkerIds
    BY <1>1 DEF WorkerIds
  <2> QED  BY <1>1, <1>2, <2>1 DEF Ended, Explained
<1> QED  BY <1>5, <1>6, <1>7, <1>9, <1>10 DEF ReadIInv

\* A batch that was queued leaves less than a batch's worth.
LEMMA JoinedKeeps ==
  ASSUME ReadIInv, Joined
  PROVE  ReadIInv'
<1>1. /\ mpc = "join" /\ Wanted = 0 /\ mpc' = "recv"
      /\ UNCHANGED <<segs, fault, limit, up, work, chan, open, seq, part, queue, given, answer,
                     result, outcome>>
  BY DEF Joined, Go, inputs, merge
<1>2. ReadTyped /\ Merging /\ Queued /\ Ended
  BY DEF ReadIInv
<1>3. ReadTyped'
  <2>1. /\ seq' \in 1..(Len(segs) + 1) /\ part' \in 0..2 /\ answer' \in Sequential!Answers
        /\ queue' \in Seq(Batches) /\ given' \in Seq(Handed) /\ up' \in 0..WorkersFor(segs)
    BY <1>1, <1>2 DEF ReadTyped
  <2> QED  BY <1>1, <1>2, <2>1, TypedStays
<1>4. Top' = Top /\ Queued'
  BY <1>1, <1>2 DEF Top, Queued
<1>5. Streams'
  BY <1>1, <1>4, StreamsStay
<1>6. Merging'
  <2>1. Top - ReadOf(given) < B
    BY <1>1, NoneWanted
  <2>2. /\ open = TRUE /\ outcome = Pending /\ answer = "go" /\ up = WorkersFor(segs)
        /\ seq <= Len(segs) /\ part = segs[seq].part
        /\ FirstIn(segs, seq) - 1 <= Top /\ Top <= FirstIn(segs, seq + 1) - 1
        /\ fault.kind # "none" =>
             /\ seq <= fault.seg
             /\ fault.seg = seq => Top - FirstIn(segs, seq) + 1 <= fault.at
        /\ PartsGone(segs, seq, ReadOf(given))
    BY <1>1, <1>2 DEF Merging
  <2> HIDE DEF Top
  <2> QED  BY <1>1, <1>4, <2>1, <2>2 DEF Merging
<1>7. Ended' /\ Explained'
  <2>1. WorkerIds' = WorkerIds
    BY <1>1 DEF WorkerIds
  <2> QED  BY <1>1, <1>2, <2>1 DEF Ended, Explained
<1> QED  BY <1>3, <1>4, <1>5, <1>6, <1>7 DEF ReadIInv

\* The channel that the merge takes from leads on from where it stands.
LEMMA Facing ==
  ASSUME ReadIInv, mpc = "recv"
  PROVE  LET w == ReaderIn(WorkersFor(segs), seq)
             p == [seg |-> seq, at |-> Top - FirstIn(segs, seq) + 1]
         IN  /\ w = ReaderOf(seq) /\ w \in WorkerIds /\ w \in 1..up
             /\ seq \in 1..Len(segs)
             /\ chan \in [WorkerIds -> Seq(Messages)] /\ chan[w] \in Seq(Messages)
             /\ p = PlaceOf(seq)
             /\ \E pl : /\ Linked(segs, fault, chan[w], pl) /\ pl[0] = p
                        /\ pl[Len(chan[w])] = [seg |-> work[w].seg, at |-> work[w].at]
<1> DEFINE n == WorkersFor(segs)
           w == ReaderIn(n, seq)
<1>1. Streams /\ Merging /\ ReadTyped /\ mpc # "done"
  BY DEF ReadIInv
<1>2. /\ n \in Nat \ {0} /\ seq \in 1..(Len(segs) + 1) /\ Len(segs) \in Nat
      /\ seq <= Len(segs) /\ up = n
  BY <1>1, PlanAt DEF Merging
<1>3. seq \in 1..Len(segs) /\ seq \in Nat \ {0}
  BY <1>2
<1>4. w \in 1..n /\ w = ReaderOf(seq)
  <2> HIDE DEF n
  <2>1. ReaderIn(n, seq) \in 1..n
    BY <1>2, <1>3, Readers
  <2> QED  BY <2>1, SameThings DEF n
<1>5. chan \in [WorkerIds -> Seq(Messages)] /\ w \in WorkerIds /\ chan[w] \in Seq(Messages)
      /\ w \in 1..up
  BY <1>1, <1>2, <1>4 DEF ReadTyped, WorkerIds
<1>6. Stream(w)
  BY <1>1, <1>5 DEF Streams
<1>7. PICK s \in seq..(seq + n - 1) : \E pl :
        /\ ReaderIn(n, s) = w /\ Linked(segs, fault, chan[w], pl) /\ pl[0] = PlaceOf(s)
        /\ pl[Len(chan[w])] = [seg |-> work[w].seg, at |-> work[w].at]
  BY <1>6 DEF Stream
<1>8. s = seq
  <2>1. ReaderIn(n, s) = ReaderIn(n, seq)
    BY <1>7
  <2> HIDE DEF n, w
  <2>2. s \in Nat \ {0} /\ seq <= s /\ s < seq + n
    BY <1>2, <1>3
  <2> QED  BY <1>2, <1>3, <2>1, <2>2, Readers
<1>9. PlaceOf(seq) = [seg |-> seq, at |-> Top - FirstIn(segs, seq) + 1]
  BY DEF PlaceOf
<1> QED  BY <1>3, <1>4, <1>5, <1>7, <1>8, <1>9

\* A message has been taken from w's channel. The merge's next place in it has
\* moved on to segment s, from where its messages lead on; nothing else moved.
MovedOn(w) ==
  \E s \in seq'..(seq' + WorkersFor(segs) - 1) : \E o :
    /\ ReaderIn(WorkersFor(segs), s) = w
    /\ Linked(segs, fault, Tail(chan[w]), o)
    /\ o[0] = PlaceOf(s)'
    /\ o[Len(Tail(chan[w]))] = [seg |-> work[w].seg, at |-> work[w].at]

OthersStand(w) ==
  \A v \in WorkerIds : \A t \in seq..(seq + WorkersFor(segs) - 1) :
    v # w /\ ReaderIn(WorkersFor(segs), t) = v =>
      t \in seq'..(seq' + WorkersFor(segs) - 1) /\ PlaceOf(t)' = PlaceOf(t)

\* A message taken: its channel leads on from the merge's new place, the others
\* from where they did.
LEMMA TakenStreams ==
  ASSUME ReadIInv, mpc = "recv", NEW w \in WorkerIds,
         UNCHANGED <<segs, fault, work>>, chan' = [chan EXCEPT ![w] = Tail(@)],
         MovedOn(w), OthersStand(w)
  PROVE  Streams'
<1>1. WorkerIds' = WorkerIds /\ WorkersFor(segs') = WorkersFor(segs)
  BY DEF WorkerIds
<1>2. /\ chan \in [WorkerIds -> Seq(Messages)]
      /\ chan'[w] = Tail(chan[w]) /\ \A v \in WorkerIds : v # w => chan'[v] = chan[v]
  BY DEF ReadIInv, ReadTyped
<1>3. Stream(w)'
  BY <1>1, <1>2 DEF Stream, MovedOn
<1>4. ASSUME NEW v \in WorkerIds, v # w  PROVE Stream(v)'
  <2>1. Stream(v) /\ chan'[v] = chan[v]
    BY <1>2, <1>4 DEF ReadIInv, Streams
  <2>2. PICK t \in seq..(seq + WorkersFor(segs) - 1) : \E pl :
          /\ ReaderIn(WorkersFor(segs), t) = v /\ Linked(segs, fault, chan[v], pl)
          /\ pl[0] = PlaceOf(t)
          /\ pl[Len(chan[v])] = [seg |-> work[v].seg, at |-> work[v].at]
    BY <2>1 DEF Stream
  <2>3. t \in seq'..(seq' + WorkersFor(segs) - 1) /\ PlaceOf(t)' = PlaceOf(t)
    BY <1>4, <2>2 DEF OthersStand
  <2> QED  BY <1>1, <2>1, <2>2, <2>3 DEF Stream
<1> QED  BY <1>1, <1>3, <1>4 DEF Streams

\* The same of why its worker has ended: the error that it sent comes last.
LEMMA TakenEnded ==
  ASSUME ReadIInv,
         NEW w \in WorkerIds, chan[w] # <<>>, Head(chan[w]).kind # "err",
         UNCHANGED <<segs, fault, work, open, up>>,
         chan' = [chan EXCEPT ![w] = Tail(@)]
  PROVE  /\ Ended'
         /\ chan' \in [WorkerIds -> Seq(Messages)]
         /\ \A v \in WorkerIds : Len(chan'[v]) <= Depth
<1>1. WorkerIds' = WorkerIds
  BY DEF WorkerIds
<1>2. /\ Ended /\ chan \in [WorkerIds -> Seq(Messages)]
      /\ \A v \in WorkerIds : Len(chan[v]) <= Depth
      /\ Depth \in Nat
  BY PlanAt DEF ReadIInv, ReadTyped
<1>3. chan'[w] = Tail(chan[w]) /\ \A v \in WorkerIds : v # w => chan'[v] = chan[v]
  BY <1>2
<1>4. PICK ms \in Seq(Messages) : ms = chan[w]
  BY <1>2
<1>5. /\ Tail(ms) \in Seq(Messages) /\ Len(Tail(ms)) = Len(ms) - 1 /\ Len(ms) \in Nat \ {0}
      /\ \A i \in 1..Len(Tail(ms)) : Tail(ms)[i] = ms[i + 1]
      /\ Head(ms) = ms[1]
  BY <1>4, HeadTailProperties, EmptySeq
<1>6. ASSUME ms[Len(ms)] = [kind |-> "err"]
      PROVE  Tail(ms) # <<>> /\ Tail(ms)[Len(Tail(ms))] = [kind |-> "err"]
  <2>1. Len(ms) # 1
    BY <1>4, <1>5, <1>6
  <2>2. Len(Tail(ms)) \in 1..Len(Tail(ms)) /\ Len(Tail(ms)) + 1 = Len(ms)
    BY <1>5, <2>1
  <2>3. Tail(ms)[Len(Tail(ms))] = ms[Len(ms)]
    BY <1>5, <2>2
  <2>4. Tail(ms) # <<>>
    <3>1. SUFFICES ASSUME Tail(ms) = <<>>  PROVE FALSE
      OBVIOUS
    <3>2. Len(Tail(ms)) = 0
      BY ONLY <3>1, EmptySeq
    <3>3. 0 \in 1..0
      BY ONLY <2>2, <3>2
    <3> QED  BY ONLY <3>3
  <2> QED  BY <1>6, <2>3, <2>4
<1>7. Ended'
  <2>1. SUFFICES ASSUME NEW v \in WorkerIds
                 PROVE  /\ work[v].run = "end" =>
                             \/ ~open \/ work[v].seg > Len(segs)
                             \/ chan'[v] # <<>> /\ chan'[v][Len(chan'[v])] = [kind |-> "err"]
                        /\ work[v].run = "panic" => v <= up /\ fault.kind = "panic"
    BY <1>1 DEF Ended
  <2>2. CASE v = w
    BY <1>2, <1>3, <1>4, <1>6, <2>2 DEF Ended
  <2>3. CASE v # w
    BY <1>2, <1>3, <2>3 DEF Ended
  <2> QED  BY <2>2, <2>3
<1>8. chan' \in [WorkerIds -> Seq(Messages)]
  BY <1>2, <1>4, <1>5
<1>9. ASSUME NEW v \in WorkerIds  PROVE Len(chan'[v]) <= Depth
  <2>1. CASE v = w
    <3>1. Len(ms) <= Depth
      BY <1>2, <1>4
    <3> QED  BY <1>2, <1>3, <1>4, <1>5, <2>1, <3>1
  <2>2. CASE v # w
    BY <1>2, <1>3, <2>2
  <2> QED  BY <2>1, <2>2
<1> QED  BY <1>7, <1>8, <1>9

\* The types, when a message was taken.
LEMMA TakenTyped ==
  ASSUME ReadTyped, UNCHANGED <<segs, fault, limit, open, work, up, part, answer, given>>,
         chan' \in [WorkerIds -> Seq(Messages)], \A v \in WorkerIds : Len(chan'[v]) <= Depth,
         mpc' \in {"spawn", "part", "recv", "join", "tail", "done"},
         seq' \in 1..(Len(segs) + 1), queue' \in Seq(Batches)
  PROVE  ReadTyped'
BY DEF ReadTyped, WorkerIds

\* The error that the merge meets is the plan's fault, at the row it stands at.
LEMMA RecvErrKeeps ==
  ASSUME ReadIInv, RecvErr
  PROVE  ReadIInv'
<1> DEFINE w == ReaderIn(WorkersFor(segs), seq)
           p == [seg |-> seq, at |-> Top - FirstIn(segs, seq) + 1]
           r == ReadOf(given)
<1>1. mpc = "recv" /\ LeaveWith("readErr") /\ UNCHANGED <<seq, part, queue, given, answer>>
  BY DEF RecvErr, merge
<1>2. /\ w = ReaderOf(seq) /\ seq \in 1..Len(segs) /\ chan[w] \in Seq(Messages)
      /\ \E pl : Linked(segs, fault, chan[w], pl) /\ pl[0] = p
  BY <1>1, Facing
<1>3. PICK pl : Linked(segs, fault, chan[w], pl) /\ pl[0] = p
  BY <1>2
<1>4. chan[w] # <<>> /\ Head(chan[w]).kind = "err"
  BY <1>2 DEF RecvErr, Msgs
<1>5. Sent(segs, fault, Head(chan[w]), p, pl[1])
  <2>1. PICK c : c = chan[w]
    OBVIOUS
  <2>2. c \in Seq(Messages) /\ c # <<>> /\ Linked(segs, fault, c, pl)
    BY <1>2, <1>3, <1>4, <2>1
  <2>3. Sent(segs, fault, Head(c), pl[0], pl[1])
    BY <2>2, ReceiptLinks
  <2> QED  BY <1>3, <2>1, <2>3
<1>6. Broken(segs, fault, p) /\ fault.kind = "err"
  BY <1>4, <1>5 DEF Sent, BatchAt
<1>7. /\ Merging /\ mpc # "done" /\ fault.seg = seq
      /\ answer = "go" /\ Top - r < B /\ PartsGone(segs, seq, r)
      /\ FirstIn(segs, seq) - 1 <= Top
      /\ Top - FirstIn(segs, seq) + 1 <= fault.at
      /\ fault.at = 0 \/ fault.at < p.at + Cut(segs, p)
  BY <1>1, <1>6 DEF ReadIInv, Merging, Broken
<1>8. /\ r \in Nat /\ Top \in Nat /\ r <= Top /\ B \in Nat \ {0} /\ fault.at \in Nat
      /\ segs \in Sequential!Plans /\ FirstIn(segs, seq) \in Nat \ {0}
      /\ segs[seq].rows \in Nat
  <2>1. seq \in 1..(Len(segs) + 1)
    BY PlanAt
  <2>2. r \in Nat /\ Top \in Nat /\ r <= Top
    BY Stands
  <2> QED  BY <1>2, <2>1, <2>2, PlanAt
<1> HIDE DEF r, w
<1>9. fault.at - (Top - FirstIn(segs, seq) + 1) <= B - 1
  <2>1. Cut(segs, p) <= B
    <3>1. PICK k \in Int : k = segs[p.seg].rows - p.at
      <4>1. segs[p.seg].rows \in Nat /\ p.at \in Int
        BY <1>8
      <4> QED  BY <4>1
    <3> HIDE DEF p
    <3>2. Cut(segs, p) = IF k < B THEN k ELSE B
      BY <3>1 DEF Cut
    <3> QED  BY <1>8, <3>2
  <2>2. CASE fault.at = 0
    BY <1>7, <1>8, <2>2
  <2>3. CASE fault.at # 0
    <3>1. fault.at < p.at + Cut(segs, p) /\ p.at = Top - FirstIn(segs, seq) + 1
      BY <1>7, <2>3
    <3>2. Cut(segs, p) \in Int
      <4>1. segs[p.seg].rows \in Nat /\ p.at \in Int
        BY <1>8
      <4> HIDE DEF p
      <4> QED  BY <1>8, <4>1 DEF Cut
    <3> HIDE DEF p
    <3> QED  BY <1>8, <2>1, <3>1, <3>2
  <2> QED  BY <2>2, <2>3
<1>10. FirstIn(segs, seq) + fault.at - 1 - r <= 2 * (B - 1)
  BY <1>7, <1>8, <1>9
<1>11. PartFirstIn(segs, seq) \in Nat /\ PartFirstIn(segs, seq) <= r + 1
  BY <1>2, <1>7, <1>8, PartBegun
<1>12. ErrFits(segs, fault, r)
  BY <1>7, <1>8, <1>10, <1>11 DEF ErrFits
<1> HIDE DEF p
<1> QED  BY <1>1, <1>6, <1>7, <1>12, LeftAlone DEF r

\* A worker that is gone with an empty channel has panicked.
LEMMA RecvDisconnectedKeeps ==
  ASSUME ReadIInv, RecvDisconnected
  PROVE  ReadIInv'
<1> DEFINE w == ReaderIn(WorkersFor(segs), seq)
           p == [seg |-> seq, at |-> Top - FirstIn(segs, seq) + 1]
<1>1. mpc = "recv" /\ LeaveWith("internalErr") /\ UNCHANGED <<seq, part, queue, given, answer>>
  BY DEF RecvDisconnected, merge
<1>2. /\ w = ReaderOf(seq) /\ w \in WorkerIds /\ w \in 1..up /\ seq \in 1..Len(segs)
      /\ \E pl : /\ pl[0] = p
                 /\ pl[Len(chan[w])] = [seg |-> work[w].seg, at |-> work[w].at]
  BY <1>1, Facing
<1>3. chan[w] = <<>> /\ work[w].run # "run"
  BY <1>2 DEF RecvDisconnected, Msgs
<1>4. work[w].seg = seq
  <2>1. Len(chan[w]) = 0
    BY <1>3, EmptySeq
  <2> QED  BY <1>2, <2>1
<1>5. ~(work[w].seg > Len(segs)) /\ open
  BY <1>1, <1>2, <1>4, PlanAt DEF ReadIInv, Merging
<1>6. work[w].run = "panic"
  <2>1. work[w].run \in {"run", "end", "panic"}
    BY <1>2 DEF ReadIInv, ReadTyped
  <2> QED  BY <1>2, <1>3, <1>5, <2>1 DEF ReadIInv, Ended
<1> HIDE DEF w, p
<1> QED  BY <1>1, <1>2, <1>6, LeftAlone

\* With every segment through and nothing left, everything was handed on.
LEMMA TailDoneKeeps ==
  ASSUME ReadIInv, TailDone
  PROVE  ReadIInv'
<1>1. mpc = "tail" /\ Wanted = 0 /\ LeaveWith("ok") /\ UNCHANGED <<seq, part, queue, given, answer>>
  BY DEF TailDone, merge
<1>2. /\ answer = "go" /\ seq = Len(segs) + 1 /\ Top = FirstIn(segs, seq) - 1
      /\ fault.kind # "none" => seq <= fault.seg
  BY <1>1 DEF ReadIInv, Merging
<1>3. ReadOf(given) = FirstIn(segs, Len(segs) + 1) - 1
  BY <1>1, <1>2, NoneWanted
<1>4. fault.kind = "none"
  <2>1. fault.seg \in 1..Len(segs) /\ Len(segs) \in Nat
    BY PlanAt
  <2> QED  BY <1>2, <2>1
<1> QED  BY <1>1, <1>2, <1>3, <1>4, LeftAlone

\* The scope's join changes nothing but the outcome.
LEMMA JoinKeeps ==
  ASSUME ReadIInv, Join
  PROVE  ReadIInv'
<1>1. /\ mpc = "done"
      /\ UNCHANGED <<segs, fault, limit, up, work, chan, open, mpc, seq, part, queue, given,
                     answer, result>>
  BY DEF Join, inputs, readers, merge
<1>2. WorkerIds' = WorkerIds
  BY <1>1 DEF WorkerIds
<1>3. ReadTyped'
  BY <1>1, <1>2 DEF ReadIInv, ReadTyped
<1>4. Queued' /\ Merging' /\ Streams' /\ Ended' /\ Explained'
  BY <1>1, <1>2 DEF ReadIInv, Queued, Merging, Streams, Ended, Explained
<1> QED  BY <1>3, <1>4 DEF ReadIInv

\* The batch received holds the rows that follow the queue's.
LEMMA RecvBatchKeeps ==
  ASSUME ReadIInv, RecvBatch
  PROVE  ReadIInv'
<1> DEFINE n == WorkersFor(segs)
           w == ReaderIn(n, seq)
           a == Top - FirstIn(segs, seq) + 1
           p == [seg |-> seq, at |-> a]
           r == ReadOf(given)
<1>1. mpc = "recv" /\ mpc' = "join"
      /\ UNCHANGED <<segs, fault, limit, up, work, open, result, outcome, seq, part, given, answer>>
  BY DEF RecvBatch, Go, inputs
<1>2. /\ w = ReaderOf(seq) /\ w \in WorkerIds /\ seq \in 1..Len(segs)
      /\ chan \in [WorkerIds -> Seq(Messages)] /\ chan[w] \in Seq(Messages)
      /\ \E pl : /\ Linked(segs, fault, chan[w], pl) /\ pl[0] = p
                 /\ pl[Len(chan[w])] = [seg |-> work[w].seg, at |-> work[w].at]
  BY <1>1, Facing
<1>3. PICK pl : /\ Linked(segs, fault, chan[w], pl) /\ pl[0] = p
                /\ pl[Len(chan[w])] = [seg |-> work[w].seg, at |-> work[w].at]
  BY <1>2
<1>4. PICK ms \in Seq(Messages) : ms = chan[w]
  BY <1>2
<1>5. /\ ms # <<>> /\ Head(ms).kind = "batch"
      /\ queue' = Append(queue, [rows |-> Head(ms).rows, bytes |-> Head(ms).bytes])
      /\ chan' = [chan EXCEPT ![w] = Tail(@)]
  BY <1>2, <1>4 DEF RecvBatch, Msgs, Next1
<1>6. /\ Head(ms) \in Messages
      /\ Sent(segs, fault, Head(ms), p, pl[1])
      /\ \E o : /\ Linked(segs, fault, Tail(ms), o)
                /\ o[0] = pl[1] /\ o[Len(Tail(ms))] = pl[Len(ms)]
  <2>1. Linked(segs, fault, ms, pl)
    BY <1>3, <1>4
  <2>2. /\ Head(ms) \in Messages /\ Sent(segs, fault, Head(ms), pl[0], pl[1])
        /\ \E o : /\ Linked(segs, fault, Tail(ms), o)
                  /\ o[0] = pl[1] /\ o[Len(Tail(ms))] = pl[Len(ms)]
    BY <1>5, <2>1, ReceiptLinks
  <2> QED  BY <1>3, <2>2
<1> DEFINE k == Cut(segs, p)
<1>7. /\ Head(ms) = BatchAt(segs, p) /\ ~Broken(segs, fault, p) /\ k > 0
      /\ pl[1] = [seg |-> seq, at |-> a + k]
  BY <1>5, <1>6 DEF Sent
<1>8. /\ Merging /\ ReadTyped /\ mpc # "done"
      /\ open = TRUE /\ outcome = Pending /\ answer = "go" /\ up = n
      /\ seq <= Len(segs) /\ part = segs[seq].part
      /\ FirstIn(segs, seq) - 1 <= Top /\ Top <= FirstIn(segs, seq + 1) - 1
      /\ Top - r < B
      /\ fault.kind # "none" =>
           /\ seq <= fault.seg
           /\ fault.seg = seq => a <= fault.at
      /\ PartsGone(segs, seq, r)
  BY <1>1 DEF ReadIInv, Merging
<1>9. /\ r \in Nat /\ Top \in Nat /\ r <= Top /\ B \in Nat \ {0} /\ fault.at \in Nat
      /\ FirstIn(segs, seq) \in Nat \ {0} /\ FirstIn(segs, seq + 1) = FirstIn(segs, seq) + segs[seq].rows
      /\ segs[seq].rows \in Nat /\ n \in Nat \ {0}
  <2>1. seq \in 1..(Len(segs) + 1)
    BY PlanAt
  <2>2. r \in Nat /\ Top \in Nat /\ r <= Top
    BY Stands
  <2> QED  BY <1>2, <2>1, <2>2, PlanAt
<1>10. a \in Nat /\ a <= segs[seq].rows
  <2>1. PICK f \in Nat : f = FirstIn(segs, seq)
    BY <1>9
  <2>2. PICK rs \in Nat : rs = segs[seq].rows
    BY <1>9
  <2>3. PICK t \in Nat : t = Top
    BY <1>9
  <2>4. f - 1 <= t /\ t <= (f + rs) - 1 /\ a = t - f + 1
    BY <1>8, <1>9, <2>1, <2>2, <2>3
  <2>5. a \in Nat /\ a <= rs
    BY ONLY <2>4, f \in Nat, rs \in Nat, t \in Nat
  <2> QED  BY <2>2, <2>5
<1> HIDE DEF a
<1>11. k = IF segs[seq].rows - a < B THEN segs[seq].rows - a ELSE B
  BY DEF Cut
<1> HIDE DEF k
<1>12. k \in Nat \ {0} /\ k <= B /\ a + k <= segs[seq].rows
  <2>1. PICK rs \in Nat : rs = segs[seq].rows
    BY <1>9
  <2>2. k > 0 /\ a \in Nat /\ B \in Nat /\ a <= rs /\ k = IF rs - a < B THEN rs - a ELSE B
    BY <1>7, <1>9, <1>10, <1>11, <2>1
  <2>3. k \in Nat \ {0} /\ k <= B /\ a + k <= rs
    BY ONLY <2>2, rs \in Nat
  <2> QED  BY <2>1, <2>3
<1>13. FirstIn(segs, seq) + a = Top + 1
  BY <1>9 DEF a
<1>14. Head(ms).rows = RunOf(Top + 1, k) /\ Head(ms).bytes = k
  BY <1>7, <1>13 DEF BatchAt, k
<1> DEFINE x == [rows |-> RunOf(Top + 1, k), bytes |-> k]
<1>15. queue' = Append(queue, x)
  BY <1>5, <1>14
<1>16. Top + 1 \in Nat /\ k \in Nat
  BY <1>9, <1>12
<1>17. x \in Batches /\ x.rows = RunOf(Top + 1, k) /\ x.bytes = k /\ Len(x.rows) = k
  <2>1. RunOf(Top + 1, k) \in Seq(Nat) /\ Len(RunOf(Top + 1, k)) = k
    BY <1>16, RunsTyped
  <2> QED  BY <1>16, <2>1 DEF Batches
<1> HIDE DEF x
<1>18. PICK b : Laid(queue, b) /\ b[0] = r /\ b[Len(queue)] = Top
  BY Stands
<1> DEFINE m == Len(queue)
           c == [i \in 0..(m + 1) |-> IF i = m + 1 THEN Top + k ELSE b[i]]
<1>19. /\ queue \in Seq(Batches) /\ Sized(queue) /\ m \in Nat
       /\ queue' \in Seq(Batches) /\ Len(queue') = m + 1
       /\ \A i \in 1..m : queue'[i] = queue[i]
       /\ queue'[m + 1] = x
  <2>1. queue \in Seq(Batches) /\ Sized(queue)
    BY DEF ReadIInv, ReadTyped, Queued
  <2> QED  BY <1>15, <1>17, <2>1, LenProperties, AppendProperties
<1>20. Sized(queue')
  <2>1. ASSUME NEW i \in 1..(m + 1)
        PROVE  queue'[i].bytes <= B /\ (i > 1 => queue'[i].bytes = Len(queue'[i].rows))
    <3>1. CASE i = m + 1
      BY <1>12, <1>17, <1>19, <3>1
    <3>2. CASE i # m + 1
      <4>1. i \in 1..m
        BY <1>19, <3>2
      <4> QED  BY <1>19, <4>1 DEF Sized
    <3> QED  BY <3>1, <3>2
  <2> QED  BY <1>19, <2>1 DEF Sized
<1>21. Laid(queue', c) /\ c[0] = r /\ c[Len(queue')] = Top + k
  <2> HIDE DEF m
  <2>1. b \in [0..m -> Nat]
    BY <1>18 DEF Laid, m
  <2>2. c \in [0..(m + 1) -> Nat]
    <3>1. \A i \in 0..(m + 1) : i # m + 1 => i \in 0..m
      BY <1>19
    <3>2. Top + k \in Nat
      BY <1>9, <1>16
    <3> QED  BY <2>1, <3>1, <3>2
  <2>3. c[m + 1] = Top + k /\ (\A i \in 0..m : c[i] = b[i]) /\ c[0] = r
    BY <1>18, <1>19
  <2> HIDE DEF c
  <2>4. ASSUME NEW i \in 1..(m + 1)
        PROVE  c[i - 1] < c[i] /\ queue'[i].rows = RunOf(c[i - 1] + 1, c[i] - c[i - 1])
    <3>1. CASE i = m + 1
      <4>1. i - 1 = m /\ m \in 0..m
        BY <1>19, <3>1
      <4>2. c[i - 1] = Top /\ c[i] = Top + k
        BY <1>18, <2>3, <3>1, <4>1 DEF m
      <4>3. Top < Top + k /\ (Top + k) - Top = k
        BY <1>9, <1>12
      <4> QED  BY <1>17, <1>19, <3>1, <4>2, <4>3
    <3>2. CASE i # m + 1
      <4>1. i \in 1..m /\ i \in 0..m /\ i - 1 \in 0..m
        BY <1>19, <3>2
      <4>2. b[i - 1] < b[i] /\ queue[i].rows = RunOf(b[i - 1] + 1, b[i] - b[i - 1])
        BY <1>18, <4>1 DEF Laid, m
      <4> QED  BY <1>19, <2>3, <4>1, <4>2
    <3> QED  BY <3>1, <3>2
  <2> QED  BY <1>19, <2>2, <2>3, <2>4 DEF Laid
<1>22. Queued'
  BY <1>1, <1>20, <1>21 DEF Queued
<1>23. Top' = Top + k
  <2>1. Len(RowsOf(queue')) = c[Len(queue')] - c[0]
    <3> HIDE DEF c, m
    <3> QED  BY <1>19, <1>21, LaidRows
  <2>2. Top' = r + ((Top + k) - r)
    BY <1>1, <1>21, <2>1 DEF Top
  <2> QED  BY <1>9, <1>16, <2>2
<1> HIDE DEF c, m, p, Top
<1>24. /\ Ended' /\ chan' \in [WorkerIds -> Seq(Messages)]
       /\ \A v \in WorkerIds : Len(chan'[v]) <= Depth
  <2>1. chan[w] # <<>> /\ Head(chan[w]).kind # "err"
    BY <1>4, <1>5
  <2> HIDE DEF w
  <2> QED  BY <1>1, <1>2, <1>5, <2>1, TakenEnded
<1>25. ReadTyped'
  <2>1. seq' \in 1..(Len(segs) + 1)
    BY <1>1, PlanAt
  <2> QED  BY <1>1, <1>8, <1>19, <1>24, <2>1, TakenTyped
<1>26. PlaceOf(seq)' = pl[1] /\ \A t : t # seq => PlaceOf(t)' = PlaceOf(t)
  <2>1. Top' - FirstIn(segs', seq') + 1 = a + k
    BY <1>1, <1>9, <1>16, <1>23 DEF a
  <2> QED  BY <1>1, <1>7, <2>1 DEF PlaceOf
<1>27. Streams'
  <2>1. PICK o : /\ Linked(segs, fault, Tail(ms), o)
                 /\ o[0] = pl[1] /\ o[Len(Tail(ms))] = pl[Len(ms)]
    BY <1>6
  <2>2. PICK v \in WorkerIds : v = w
    BY <1>2
  <2>3. seq \in seq'..(seq' + WorkersFor(segs) - 1)
    <3>1. PICK j \in Nat \ {0} : j = WorkersFor(segs)
      BY <1>9
    <3>2. PICK i \in Nat : i = seq
      BY <1>2
    <3>3. i \in i..(i + j - 1)
      BY ONLY i \in Nat, j \in Nat \ {0}
    <3> QED  BY <1>1, <3>1, <3>2, <3>3
  <2>4. MovedOn(v)
    <3>1. Tail(chan[v]) = Tail(ms) /\ pl[Len(ms)] = [seg |-> work[v].seg, at |-> work[v].at]
      BY <1>3, <1>4, <2>2
    <3>2. ReaderIn(WorkersFor(segs), seq) = v
      BY <2>2
    <3>3. PICK i \in Nat : i = seq
      BY <1>2
    <3>4. /\ PlaceOf(i)' = pl[1] /\ i \in seq'..(seq' + WorkersFor(segs) - 1)
          /\ ReaderIn(WorkersFor(segs), i) = v
      BY <1>1, <1>26, <2>3, <3>2, <3>3
    <3> QED  BY <2>1, <3>1, <3>4 DEF MovedOn
  <2>5. OthersStand(v)
    <3>1. SUFFICES ASSUME NEW u \in WorkerIds, NEW t \in seq..(seq + WorkersFor(segs) - 1),
                          u # v, ReaderIn(WorkersFor(segs), t) = u
                   PROVE  t \in seq'..(seq' + WorkersFor(segs) - 1) /\ PlaceOf(t)' = PlaceOf(t)
      BY DEF OthersStand
    <3>2. t # seq
      BY <2>2, <3>1
    <3> QED  BY <1>1, <1>26, <3>1, <3>2
  <2>6. UNCHANGED <<segs, fault, work>> /\ mpc = "recv" /\ chan' = [chan EXCEPT ![v] = Tail(@)]
    BY <1>1, <1>5, <2>2
  <2> QED  BY <2>4, <2>5, <2>6, TakenStreams
<1>28. Merging'
  <2>1. (Top + k) - r < 2 * B
    BY <1>8, <1>9, <1>12
  <2>2. FirstIn(segs, seq) - 1 <= Top + k /\ Top + k <= FirstIn(segs, seq + 1) - 1
    <3>1. PICK f \in Nat : f = FirstIn(segs, seq)
      BY <1>9
    <3>2. PICK g \in Nat : g = FirstIn(segs, seq + 1)
      BY <1>9
    <3>3. PICK rs \in Nat : rs = segs[seq].rows
      BY <1>9
    <3>4. PICK t \in Nat : t = Top
      BY <1>9
    <3>5. /\ f - 1 <= t /\ f + a = t + 1 /\ g = f + rs /\ a + k <= rs
          /\ k \in Nat /\ a \in Nat
      BY <1>8, <1>9, <1>10, <1>12, <1>13, <3>1, <3>2, <3>3, <3>4
    <3>6. f - 1 <= t + k /\ t + k <= g - 1
      BY ONLY <3>5, f \in Nat, g \in Nat, rs \in Nat, t \in Nat
    <3> QED  BY <3>1, <3>2, <3>4, <3>6
  <2>3. fault.kind # "none" /\ fault.seg = seq => ((Top + k) - FirstIn(segs, seq)) + 1 <= fault.at
    <3>1. SUFFICES ASSUME fault.kind # "none", fault.seg = seq
                   PROVE  ((Top + k) - FirstIn(segs, seq)) + 1 <= fault.at
      OBVIOUS
    <3>2. ~(fault.at < a + k)
      BY <1>7, <3>1 DEF Broken, p, k
    <3>3. PICK f \in Nat : f = FirstIn(segs, seq)
      BY <1>9
    <3>4. PICK t \in Nat : t = Top
      BY <1>9
    <3>5. PICK g \in Nat : g = fault.at
      BY <1>9
    <3>6. f + a = t + 1 /\ ~(g < a + k) /\ a \in Nat /\ k \in Nat
      BY <1>10, <1>12, <1>13, <3>2, <3>3, <3>4, <3>5
    <3>7. ((t + k) - f) + 1 <= g
      BY ONLY <3>6, f \in Nat, t \in Nat, g \in Nat
    <3> QED  BY <3>3, <3>4, <3>5, <3>7
  <2>4. /\ open' = TRUE /\ outcome' = Pending /\ answer' = "go" /\ up' = WorkersFor(segs')
        /\ seq' <= Len(segs') /\ part' = segs'[seq'].part /\ mpc' = "join"
    BY <1>1, <1>8
  <2>5. /\ FirstIn(segs', seq') - 1 <= Top' /\ Top' <= FirstIn(segs', seq' + 1) - 1
        /\ Top' - ReadOf(given') < 2 * B
    <3>1. segs' = segs /\ seq' = seq /\ given' = given /\ Top' = Top + k
      BY <1>1, <1>23
    <3>2. FirstIn(segs', seq') = FirstIn(segs, seq) /\ FirstIn(segs', seq' + 1) = FirstIn(segs, seq + 1)
          /\ ReadOf(given') = r
      BY <3>1
    <3>3. PICK t \in Nat : t = Top + k
      BY <1>9, <1>16
    <3>41. Top' = t
      BY <3>1, <3>3
    <3>42. FirstIn(segs, seq) - 1 <= t /\ t <= FirstIn(segs, seq + 1) - 1
      BY <2>2, <3>3
    <3>43. t - r < 2 * B
      BY <2>1, <3>3
    <3>4. Top' = t /\ FirstIn(segs, seq) - 1 <= t /\ t <= FirstIn(segs, seq + 1) - 1 /\ t - r < 2 * B
      BY <3>41, <3>42, <3>43
    <3> QED  BY ONLY <3>2, <3>4
  <2>6. fault'.kind # "none" =>
          /\ seq' <= fault'.seg
          /\ fault'.seg = seq' => Top' - FirstIn(segs', seq') + 1 <= fault'.at
    <3>1. segs' = segs /\ seq' = seq /\ fault' = fault /\ Top' = Top + k
      BY <1>1, <1>23
    <3>2. FirstIn(segs', seq') = FirstIn(segs, seq)
      BY <3>1
    <3>3. fault.kind # "none" => seq <= fault.seg
      BY <1>8
    <3>4. PICK t \in Nat : t = Top + k
      BY <1>9, <1>16
    <3>5. fault.kind # "none" /\ fault.seg = seq => (t - FirstIn(segs, seq)) + 1 <= fault.at
      BY <1>9, <2>3, <3>4
    <3> QED  BY ONLY <3>1, <3>2, <3>3, <3>4, <3>5
  <2>7. PartsGone(segs', seq', ReadOf(given'))
    BY <1>1, <1>8
  <2> QED  BY <2>4, <2>5, <2>6, <2>7 DEF Merging
<1>29. Explained'
  BY <1>1 DEF Explained
<1> QED  BY <1>22, <1>24, <1>25, <1>27, <1>28, <1>29 DEF ReadIInv

\* An End comes where the segment's last row is, so the next one goes on there.
LEMMA RecvEndKeeps ==
  ASSUME ReadIInv, RecvEnd
  PROVE  ReadIInv'
<1> DEFINE n == WorkersFor(segs)
           w == ReaderIn(n, seq)
           a == Top - FirstIn(segs, seq) + 1
           p == [seg |-> seq, at |-> a]
           r == ReadOf(given)
<1>1. /\ mpc = "recv" /\ mpc' = IF seq = Len(segs) THEN "tail" ELSE "part"
      /\ seq' = seq + 1
      /\ UNCHANGED <<segs, fault, limit, up, work, open, result, outcome, part, queue, given, answer>>
  BY DEF RecvEnd, Go, inputs
<1>2. /\ w = ReaderOf(seq) /\ w \in WorkerIds /\ seq \in 1..Len(segs)
      /\ chan \in [WorkerIds -> Seq(Messages)] /\ chan[w] \in Seq(Messages)
      /\ \E pl : /\ Linked(segs, fault, chan[w], pl) /\ pl[0] = p
                 /\ pl[Len(chan[w])] = [seg |-> work[w].seg, at |-> work[w].at]
  BY <1>1, Facing
<1>3. PICK pl : /\ Linked(segs, fault, chan[w], pl) /\ pl[0] = p
                /\ pl[Len(chan[w])] = [seg |-> work[w].seg, at |-> work[w].at]
  BY <1>2
<1>4. PICK ms \in Seq(Messages) : ms = chan[w]
  BY <1>2
<1>5. ms # <<>> /\ Head(ms).kind = "end" /\ chan' = [chan EXCEPT ![w] = Tail(@)]
  BY <1>2, <1>4 DEF RecvEnd, Msgs, Next1
<1>6. /\ Sent(segs, fault, Head(ms), p, pl[1])
      /\ \E o : /\ Linked(segs, fault, Tail(ms), o)
                /\ o[0] = pl[1] /\ o[Len(Tail(ms))] = pl[Len(ms)]
  <2>1. Linked(segs, fault, ms, pl)
    BY <1>3, <1>4
  <2>2. /\ Sent(segs, fault, Head(ms), pl[0], pl[1])
        /\ \E o : /\ Linked(segs, fault, Tail(ms), o)
                  /\ o[0] = pl[1] /\ o[Len(Tail(ms))] = pl[Len(ms)]
    BY <1>5, <2>1, ReceiptLinks
  <2> QED  BY <1>3, <2>2
<1>7. /\ ~Broken(segs, fault, p) /\ Cut(segs, p) = 0
      /\ pl[1] = [seg |-> seq + n, at |-> 0]
  BY <1>5, <1>6 DEF Sent, BatchAt
<1>8. /\ Merging /\ ReadTyped /\ Queued /\ mpc # "done"
      /\ open = TRUE /\ outcome = Pending /\ answer = "go" /\ up = n
      /\ seq <= Len(segs) /\ part = segs[seq].part
      /\ FirstIn(segs, seq) - 1 <= Top /\ Top <= FirstIn(segs, seq + 1) - 1
      /\ Top - r < B
      /\ fault.kind # "none" =>
           /\ seq <= fault.seg
           /\ fault.seg = seq => a <= fault.at
      /\ PartsGone(segs, seq, r)
  BY <1>1 DEF ReadIInv, Merging
<1>9. /\ r \in Nat /\ Top \in Nat /\ r <= Top /\ B \in Nat \ {0} /\ fault.at \in Nat
      /\ fault.seg \in 1..Len(segs) /\ Len(segs) \in Nat
      /\ FirstIn(segs, seq) \in Nat \ {0} /\ FirstIn(segs, seq + 1) = FirstIn(segs, seq) + segs[seq].rows
      /\ segs[seq].rows \in Nat /\ n \in Nat \ {0}
      /\ fault.kind # "none" => fault.at = 0 \/ fault.at < segs[fault.seg].rows
  <2>1. seq \in 1..(Len(segs) + 1)
    BY PlanAt
  <2>2. r \in Nat /\ Top \in Nat /\ r <= Top
    BY Stands
  <2> QED  BY <1>2, <2>1, <2>2, PlanAt
<1>10. a \in Nat /\ a <= segs[seq].rows
  <2>1. PICK f \in Nat : f = FirstIn(segs, seq)
    BY <1>9
  <2>2. PICK rs \in Nat : rs = segs[seq].rows
    BY <1>9
  <2>3. PICK t \in Nat : t = Top
    BY <1>9
  <2>4. f - 1 <= t /\ t <= (f + rs) - 1 /\ a = t - f + 1
    BY <1>8, <1>9, <2>1, <2>2, <2>3
  <2>5. a \in Nat /\ a <= rs
    BY ONLY <2>4, f \in Nat, rs \in Nat, t \in Nat
  <2> QED  BY <2>2, <2>5
<1> HIDE DEF a
<1>11. Cut(segs, p) = IF segs[seq].rows - a < B THEN segs[seq].rows - a ELSE B
  BY DEF Cut
<1>12. a = segs[seq].rows
  BY <1>7, <1>9, <1>10, <1>11
<1>13. Top = FirstIn(segs, seq + 1) - 1
  BY <1>9, <1>12 DEF a
<1>14. fault.kind # "none" => seq + 1 <= fault.seg
  <2>1. ASSUME fault.kind # "none", fault.seg = seq  PROVE FALSE
    <3>1. fault.at # 0 /\ ~(fault.at < a + Cut(segs, p))
      BY <1>7, <2>1 DEF Broken
    <3> QED  BY <1>7, <1>9, <1>12, <2>1, <3>1
  <2>2. PICK i \in Nat : i = seq
    BY <1>2
  <2>3. PICK g \in Nat : g = fault.seg
    BY <1>9
  <2>4. fault.kind # "none" => i <= g /\ i # g
    BY <1>8, <2>1, <2>2, <2>3
  <2>5. i <= g /\ i # g => i + 1 <= g
    BY ONLY i \in Nat, g \in Nat
  <2> QED  BY <2>2, <2>3, <2>4, <2>5
<1>15. Top' = Top /\ Queued'
  BY <1>1, <1>8 DEF Top, Queued
<1> HIDE DEF p, Top
<1>16. /\ Ended' /\ chan' \in [WorkerIds -> Seq(Messages)]
       /\ \A v \in WorkerIds : Len(chan'[v]) <= Depth
  <2>1. chan[w] # <<>> /\ Head(chan[w]).kind # "err"
    BY <1>4, <1>5
  <2> HIDE DEF w
  <2> QED  BY <1>1, <1>2, <1>5, <2>1, TakenEnded
<1>17. seq + 1 \in 1..(Len(segs) + 1) /\ (seq # Len(segs) => seq + 1 <= Len(segs))
  BY <1>2, <1>9
<1>18. ReadTyped'
  <2>1. queue' \in Seq(Batches) /\ mpc' \in {"part", "tail"}
    BY <1>1, <1>8 DEF ReadTyped
  <2> QED  BY <1>1, <1>8, <1>16, <1>17, <2>1, TakenTyped
<1>19. \A t : t # seq => PlaceOf(t)' = [seg |-> t, at |-> 0]
  <2>1. Top' - FirstIn(segs', seq') + 1 = 0
    BY <1>1, <1>9, <1>13, <1>15
  <2> QED  BY <1>1, <2>1 DEF PlaceOf
<1>20. \A t : t # seq => PlaceOf(t) = [seg |-> t, at |-> 0]
  BY DEF PlaceOf
<1>21. Streams'
  <2>1. PICK o : /\ Linked(segs, fault, Tail(ms), o)
                 /\ o[0] = pl[1] /\ o[Len(Tail(ms))] = pl[Len(ms)]
    BY <1>6
  <2>2. PICK v \in WorkerIds : v = w
    BY <1>2
  <2>3. PICK i \in Nat \ {0} : i = seq
    BY <1>2
  <2>4. PICK j \in Nat \ {0} : j = WorkersFor(segs)
    BY <1>9
  <2>5. seq' = i + 1 /\ i + j # i /\ i + j \in (i + 1)..((i + 1) + j - 1)
    <3>1. i + j # i /\ i + j \in (i + 1)..((i + 1) + j - 1)
      BY ONLY i \in Nat, j \in Nat \ {0}
    <3> QED  BY <1>1, <2>3, <3>1
  <2>6. MovedOn(v)
    <3>1. Tail(chan[v]) = Tail(ms) /\ pl[Len(ms)] = [seg |-> work[v].seg, at |-> work[v].at]
      BY <1>3, <1>4, <2>2
    <3>2. ReaderIn(WorkersFor(segs), i + j) = v
      <4>1. ReaderIn(j, i) = v
        BY <2>2, <2>3, <2>4
      <4>2. ReaderIn(j, i + j) = ReaderIn(j, i)
        BY Readers
      <4> QED  BY <2>4, <4>1, <4>2
    <3>3. PlaceOf(i + j)' = pl[1]
      <4>1. pl[1] = [seg |-> i + j, at |-> 0]
        BY <1>7, <2>3, <2>4
      <4>2. i + j # seq
        BY <2>3, <2>5
      <4> QED  BY <1>19, <4>1, <4>2
    <3>4. i + j \in seq'..(seq' + WorkersFor(segs) - 1)
      BY <2>4, <2>5
    <3> HIDE DEF PlaceOf
    <3> QED  BY <2>1, <3>1, <3>2, <3>3, <3>4 DEF MovedOn
  <2>7. OthersStand(v)
    <3>1. SUFFICES ASSUME NEW u \in WorkerIds, NEW t \in seq..(seq + WorkersFor(segs) - 1),
                          u # v, ReaderIn(WorkersFor(segs), t) = u
                   PROVE  t \in seq'..(seq' + WorkersFor(segs) - 1) /\ PlaceOf(t)' = PlaceOf(t)
      BY DEF OthersStand
    <3>2. t # i
      BY <2>2, <2>3, <3>1
    <3>3. t \in i..(i + j - 1)
      BY <2>3, <2>4, <3>1
    <3>4. t \in (i + 1)..((i + 1) + j - 1)
      BY ONLY <3>2, <3>3, i \in Nat, j \in Nat \ {0}
    <3>5. PlaceOf(t)' = PlaceOf(t)
      BY <1>19, <1>20, <2>3, <3>2
    <3> QED  BY <2>4, <2>5, <3>4, <3>5
  <2>8. UNCHANGED <<segs, fault, work>> /\ mpc = "recv" /\ chan' = [chan EXCEPT ![v] = Tail(@)]
    BY <1>1, <1>5, <2>2
  <2> QED  BY <2>6, <2>7, <2>8, TakenStreams
<1>22. Merging'
  <2>1. (seq + 1) - 1 = seq
    BY <1>2
  <2>2. Top - FirstIn(segs, seq + 1) + 1 <= fault.at
    <3>1. FirstIn(segs, seq + 1) \in Nat
      BY <1>9
    <3> QED  BY <1>9, <1>13, <3>1
  <2>3. mpc' # "done" /\ mpc' # "spawn" /\ mpc' # "recv" /\ mpc' # "join"
        /\ (IF mpc' = "tail" THEN seq + 1 = Len(segs) + 1 ELSE seq + 1 <= Len(segs))
    BY <1>1, <1>17
  <2> QED  BY <1>1, <1>8, <1>13, <1>14, <1>15, <2>1, <2>2, <2>3 DEF Merging, r, n
<1>23. Explained'
  BY <1>1 DEF Explained
<1> QED  BY <1>15, <1>16, <1>18, <1>21, <1>22, <1>23 DEF ReadIInv

\* No step of the merge or of a worker breaks the invariant.
LEMMA ReadStep ==
  ASSUME ReadIInv, [ReadNext]_readVars
  PROVE  ReadIInv'
<1>1. CASE Spawn
  BY <1>1, SpawnKeeps
<1>2. CASE SpawnFails
  BY <1>2, SpawnFailsKeeps
<1>3. CASE Deliver
  BY <1>3, DeliverKeeps
<1>4. CASE BeginSegment
  BY <1>4, BeginKeeps
<1>5. CASE RecvBatch
  BY <1>5, RecvBatchKeeps
<1>6. CASE Joined
  BY <1>6, JoinedKeeps
<1>7. CASE RecvEnd
  BY <1>7, RecvEndKeeps
<1>8. CASE RecvErr
  BY <1>8, RecvErrKeeps
<1>9. CASE RecvDisconnected
  BY <1>9, RecvDisconnectedKeeps
<1>10. CASE TailDone
  BY <1>10, TailDoneKeeps
<1>11. CASE Join
  BY <1>11, JoinKeeps
<1>12. ASSUME NEW w \in DOMAIN work, Worker(w)  PROVE ReadIInv'
  <2>1. w \in WorkerIds
    BY DEF ReadIInv, ReadTyped
  <2> QED  BY <1>12, <2>1, WorkerKeeps
<1>13. CASE UNCHANGED readVars
  <2>1. UNCHANGED <<segs, fault, limit, up, work, chan, open, mpc, seq, part, queue, given, answer,
                    result, outcome>>
    BY <1>13 DEF readVars, inputs, readers, merge
  <2>2. WorkerIds' = WorkerIds /\ Top' = Top
    BY <2>1 DEF WorkerIds, Top
  <2>3. ReadTyped' /\ Queued' /\ Merging'
    BY <2>1, <2>2 DEF ReadIInv, ReadTyped, Queued, Merging
  <2>4. Streams'
    <3>1. CASE mpc = "done"
      BY <2>1, <3>1 DEF Streams
    <3>2. CASE mpc # "done"
      BY <2>1, <2>2, <3>2, StreamsStay
    <3> QED  BY <3>1, <3>2
  <2>5. Ended' /\ Explained'
    BY <2>1, <2>2 DEF ReadIInv, Ended, Explained
  <2> QED  BY <2>3, <2>4, <2>5 DEF ReadIInv
<1> QED  BY <1>1, <1>2, <1>3, <1>4, <1>5, <1>6, <1>7, <1>8, <1>9, <1>10, <1>11, <1>12, <1>13
         DEF ReadNext, Merge

\* The parallel read keeps its invariant, for any plan, number of workers,
\* channel capacity, batch size and join limit.
THEOREM ReadSafe == ReadSpec => []ReadIInv
<1>1. ReadInit => ReadIInv
  BY ReadInitial
<1>2. ReadIInv /\ [ReadNext]_readVars => ReadIInv'
  BY ReadStep
<1> QED  BY <1>1, <1>2, PTL DEF ReadSpec

\* The types of the parallel read.
THEOREM ReadTypes == ReadSpec => []ReadTypeOK
<1>1. ReadIInv => ReadTypeOK
  <2>1. SUFFICES ASSUME ReadIInv  PROVE ReadTypeOK
    OBVIOUS
  <2>2. ReadTyped /\ WorkersFor(segs) = NWorkers
    BY <2>1, SameThings DEF ReadIInv
  <2>3. ASSUME NEW w \in WorkerIds
        PROVE  /\ work[w].run \in {"run", "end", "panic"}
               /\ work[w].seg \in 1..(Len(segs) + NWorkers)
               /\ work[w].at \in 0..MaxRows
               /\ Len(chan[w]) <= Depth
    <3>1. /\ work[w].seg \in Nat \ {0} /\ work[w].at \in Nat
          /\ work[w].run \in {"run", "end", "panic"}
          /\ work[w].seg <= Len(segs) + WorkersFor(segs)
          /\ work[w].seg <= Len(segs) => work[w].at <= segs[work[w].seg].rows
          /\ work[w].seg > Len(segs) => work[w].at = 0
          /\ Len(chan[w]) <= Depth
      BY <2>2 DEF ReadTyped
    <3>2. PICK i \in Nat \ {0} : i = work[w].seg
      BY <3>1
    <3>3. PICK a \in Nat : a = work[w].at
      BY <3>1
    <3>0. Len(segs) \in Nat /\ WorkersFor(segs) \in Nat
      BY <2>1, PlanAt
    <3>4. PICK n \in Nat : n = Len(segs)
      BY <3>0
    <3>5. PICK k \in Nat : k = WorkersFor(segs)
      BY <3>0
    <3>6. i \in 1..(n + k)
      <4>1. i <= n + k
        BY <3>1, <3>2, <3>4, <3>5
      <4> QED  BY ONLY <4>1, i \in Nat \ {0}, n \in Nat, k \in Nat
    <3>7. a \in 0..MaxRows
      <4>1. ASSUME i <= n  PROVE a \in 0..MaxRows
        <5>1. PICK rs \in 0..MaxRows : rs = segs[i].rows
          <6>1. \A s \in 1..Len(segs) : segs[s].rows \in 0..MaxRows
            BY <2>2, PlanTyped DEF ReadTyped
          <6> QED  BY <3>4, <4>1, <6>1
        <5>2. a <= rs
          BY <3>1, <3>2, <3>3, <3>4, <4>1, <5>1
        <5> QED  BY <5>2, ShapeAssumption
      <4>2. ASSUME ~(i <= n)  PROVE a \in 0..MaxRows
        <5>1. a = 0
          BY <3>1, <3>2, <3>3, <3>4, <4>2
        <5> QED  BY <5>1, ShapeAssumption
      <4> QED  BY <4>1, <4>2
    <3> QED  BY <2>2, <3>1, <3>2, <3>3, <3>4, <3>5, <3>6, <3>7
  <2>4. WorkerIds = 1..NWorkers /\ DOMAIN work = WorkerIds /\ DOMAIN chan = WorkerIds
    BY <2>2 DEF ReadTyped, WorkerIds
  <2> QED  BY <2>2, <2>3, <2>4 DEF ReadTyped, ReadTypeOK
<1> QED  BY <1>1, ReadSafe, PTL

-----------------------------------------------------------------------------
(* What is joined *)

\* Only Deliver hands on.
LEMMA OnlyDeliver ==
  ASSUME [ReadNext]_readVars
  PROVE  \/ Deliver
         \/ Join
         \/ UNCHANGED <<segs, fault, limit, given, answer, outcome>>
<1>1. CASE Spawn \/ BeginSegment \/ RecvBatch \/ Joined \/ RecvEnd
  BY <1>1 DEF Spawn, BeginSegment, RecvBatch, Joined, RecvEnd, Go, inputs, merge
<1>2. CASE SpawnFails \/ RecvErr \/ RecvDisconnected \/ TailDone
  BY <1>2 DEF SpawnFails, RecvErr, RecvDisconnected, TailDone, LeaveWith, inputs, merge
<1>3. ASSUME NEW w \in DOMAIN work, Worker(w)
      PROVE  UNCHANGED <<segs, fault, limit, given, answer, outcome>>
  BY <1>3 DEF Worker, SendBatch, SendEnd, SendErr, Panics, WorkerEnds, Stay, inputs, merge
<1>4. CASE UNCHANGED readVars
  BY <1>4 DEF readVars, inputs, merge
<1> QED  BY <1>1, <1>2, <1>3, <1>4 DEF ReadNext, Merge

\* The batches that a join takes rows from are those Take was bounded by.
LEMMA JoinedFrom ==
  ASSUME ReadIInv, Deliver
  PROVE  LET n    == Len(given'[Len(given')][2])
             from == {i \in DOMAIN queue : RowsIn(i - 1) < n}
         IN  from = {1} \/ Pinned(from) <= limit
<1> DEFINE n == Take(Wanted)
           x == <<RowOffset, SubSeq(Rows, 1, n)>>
           m == Len(queue)
           from == {i \in DOMAIN queue : RowsIn(i - 1) < n}
<1>1. n \in Nat \ {0} /\ SubSeq(Rows, 1, n) \in Seq(Nat) /\ Len(SubSeq(Rows, 1, n)) = n
  BY Handing DEF Deliver
<1>2. PICK h \in 1..m : n <= SumOfRows(queue, h) /\ (h = 1 \/ PinnedOf(queue, 1..h) <= limit)
  BY Handing DEF Deliver
<1>3. Len(given'[Len(given')][2]) = n
  <2>1. given' = Append(given, x) /\ given \in Seq(Handed)
    BY DEF Deliver, ReadIInv, ReadTyped
  <2>2. x \in Handed
    BY <1>1, Stands, SameThings DEF Handed
  <2>3. x[2] = SubSeq(Rows, 1, n)
    OBVIOUS
  <2> HIDE DEF x
  <2>4. Append(given, x)[Len(Append(given, x))] = x
    BY <2>1, <2>2, AppendProperties
  <2> QED  BY <1>1, <2>1, <2>3, <2>4
<1> HIDE DEF n
<1>4. PICK b : Laid(queue, b)
  BY Stands
<1>5. queue \in Seq(Batches)
  BY DEF ReadIInv, ReadTyped
<1>6. /\ m \in Nat /\ DOMAIN queue = 1..m /\ \A i \in 0..m : b[i] \in Nat
      /\ \A j, k \in 0..m : j <= k => b[j] <= b[k]
  BY <1>4, <1>5, LaidRises DEF Laid
<1>7. \A k \in 0..m : SumOfRows(queue, k) = b[k] - b[0]
  BY <1>4, <1>5, LaidSums DEF SumOfRows
<1>8. ASSUME NEW i \in from  PROVE i \in 1..h
  <2>1. i \in 1..m /\ i - 1 \in 0..m /\ h \in 0..m
    BY <1>6
  <2>2. b[i - 1] - b[0] < n /\ n <= b[h] - b[0]
    BY <1>2, <1>7, <2>1, SameThings
  <2>3. ~(h <= i - 1)
    <3>1. SUFFICES ASSUME h <= i - 1  PROVE FALSE
      OBVIOUS
    <3>2. b[h] <= b[i - 1]
      BY <1>6, <2>1, <3>1
    <3>3. b[h] \in Nat /\ b[i - 1] \in Nat /\ b[0] \in Nat
      BY <1>6, <2>1
    <3> QED  BY <1>1, <2>2, <3>2, <3>3
  <2> QED  BY <2>1, <2>3
<1>9. 1 \in from
  <2>1. 1 \in DOMAIN queue /\ 1 - 1 = 0 /\ 0 \in 0..m
    BY <1>6
  <2>2. b[0] - b[0] = 0
    BY <1>6, <2>1
  <2>3. RowsIn(0) = 0
    BY <1>7, <2>1, <2>2, SameThings
  <2> QED  BY <1>1, <2>1, <2>3
<1>10. CASE h = 1
  <2>1. from = {1}
    <3> HIDE DEF from
    <3> QED  BY <1>8, <1>9, <1>10
  <2> QED  BY <1>3, <2>1
<1>11. CASE h # 1
  <2> DEFINE f == [i \in DOMAIN queue |-> queue[i].bytes]
  <2>1. \A i \in 1..h : f[i] \in Nat
    <3>1. ASSUME NEW i \in 1..h  PROVE queue[i] \in Batches /\ i \in DOMAIN queue
      BY <1>5, <1>6, ElementOfSeq
    <3> QED  BY <3>1 DEF Batches
  <2> HIDE DEF f
  <2>2. IsFiniteSet(1..h) /\ Summable(f, f, 1..h)
    BY <2>1, FS_Interval DEF Summable
  <2>3. from \in SUBSET (1..h) /\ (1..h) \ from \in SUBSET (1..h)
        /\ from \cap ((1..h) \ from) = {} /\ from \cup ((1..h) \ from) = 1..h
    <3> HIDE DEF from
    <3> QED  BY <1>8
  <2> HIDE DEF from
  <2>4. /\ SumFunctionOnSet(f, from) \in Nat /\ SumFunctionOnSet(f, (1..h) \ from) \in Nat
        /\ SumFunctionOnSet(f, 1..h)
             = SumFunctionOnSet(f, from) + SumFunctionOnSet(f, (1..h) \ from)
    <3>1. PICK rest : rest = (1..h) \ from
      OBVIOUS
    <3>2. PICK fr : fr = from
      OBVIOUS
    <3>3. fr \in SUBSET (1..h) /\ rest \in SUBSET (1..h) /\ fr \cap rest = {} /\ fr \cup rest = 1..h
      BY <2>3, <3>1, <3>2
    <3>4. SumFunctionOnSet(f, fr) \in Nat /\ SumFunctionOnSet(f, rest) \in Nat
      BY <2>2, <3>3, Summing
    <3>5. SumFunctionOnSet(f, fr \cup rest) = SumFunctionOnSet(f, fr) + SumFunctionOnSet(f, rest)
      BY <2>2, <3>3, Summing
    <3> QED  BY <3>1, <3>2, <3>3, <3>4, <3>5
  <2>5. SumFunctionOnSet(f, from) <= SumFunctionOnSet(f, 1..h)
    BY <2>4
  <2>6. Pinned(from) = SumFunctionOnSet(f, from) /\ PinnedOf(queue, 1..h) = SumFunctionOnSet(f, 1..h)
    BY DEF Pinned, PinnedOf, f
  <2>7. PinnedOf(queue, 1..h) <= limit /\ limit \in Nat /\ SumFunctionOnSet(f, 1..h) \in Nat
    <3>1. SumFunctionOnSet(f, 1..h) \in Nat
      BY <2>4
    <3>2. limit \in Nat
      BY PlanAt
    <3>3. PinnedOf(queue, 1..h) <= limit
      BY <1>2, <1>11
    <3> QED  BY <3>1, <3>2, <3>3
  <2>8. Pinned(from) <= limit
    BY <2>4, <2>5, <2>6, <2>7
  <2> QED  BY <1>3, <2>8 DEF from
<1> QED  BY <1>10, <1>11

\* Regrouper::take never joins batches that pin more than the limit together.
THEOREM JoinsStayBounded == ReadSpec => JoinsBounded
<1>1. ASSUME ReadIInv, [ReadNext]_readVars, given' # given
      PROVE  LET n    == Len(given'[Len(given')][2])
                 from == {i \in DOMAIN queue : RowsIn(i - 1) < n}
             IN  from = {1} \/ Pinned(from) <= limit
  <2>1. CASE Deliver
    BY <1>1, <2>1, JoinedFrom
  <2>2. CASE Join
    BY <1>1, <2>2 DEF Join, merge
  <2> QED  BY <1>1, <2>1, <2>2, OnlyDeliver
<1>2. ReadSpec => []ReadIInv
  BY ReadSafe
<1> QED  BY <1>1, <1>2, PTL DEF ReadSpec, JoinsBounded

\* The rows received are rows of the plan, and before the fault.
LEMMA TopFits ==
  ASSUME ReadIInv, mpc \in {"part", "tail", "join"}
  PROVE  /\ Top <= FirstIn(segs, Len(segs) + 1) - 1
         /\ fault.kind # "none" => Top < FirstIn(segs, fault.seg) + fault.at
         /\ mpc = "join" => seq \in 1..Len(segs) /\ Top <= FirstIn(segs, seq + 1) - 1
<1>1. Merging /\ mpc # "done"
  BY DEF ReadIInv
<1>2. /\ seq \in 1..(Len(segs) + 1) /\ Len(segs) \in Nat /\ Top \in Nat
      /\ fault.seg \in 1..Len(segs) /\ fault.at \in Nat
  BY PlanAt, Stands
<1>3. \A i \in 1..(Len(segs) + 1) : FirstIn(segs, i) \in Nat \ {0}
  BY PlanAt
<1>4. \A i, j \in 1..(Len(segs) + 1) : i <= j => FirstIn(segs, i) <= FirstIn(segs, j)
  BY PlanAt
<1>5. /\ IF mpc = "tail" THEN seq = Len(segs) + 1 ELSE seq <= Len(segs)
      /\ mpc \in {"part", "tail"} => Top = FirstIn(segs, seq) - 1
      /\ mpc = "join" => Top <= FirstIn(segs, seq + 1) - 1
      /\ fault.kind # "none" =>
           /\ seq <= fault.seg
           /\ fault.seg = seq => Top - FirstIn(segs, seq) + 1 <= fault.at
  BY <1>1 DEF Merging
<1>6. mpc = "join" => seq \in 1..Len(segs) /\ Top <= FirstIn(segs, seq + 1) - 1
  BY <1>2, <1>5
<1>7. ASSUME NEW i \in 1..(Len(segs) + 1), Top <= FirstIn(segs, i) - 1,
             NEW j \in 1..(Len(segs) + 1), i <= j
      PROVE  Top <= FirstIn(segs, j) - 1
  <2>1. FirstIn(segs, i) <= FirstIn(segs, j) /\ FirstIn(segs, i) \in Nat /\ FirstIn(segs, j) \in Nat
    BY <1>3, <1>4, <1>7
  <2> QED  BY <1>2, <1>7, <2>1
<1>8. \E i \in 1..(Len(segs) + 1) :
        Top <= FirstIn(segs, i) - 1 /\ i <= (IF mpc = "join" THEN seq + 1 ELSE seq)
  <2>1. CASE mpc = "join"
    <3>1. seq + 1 \in 1..(Len(segs) + 1) /\ seq + 1 <= seq + 1
      BY <1>2, <1>6, <2>1
    <3> QED  BY <1>6, <2>1, <3>1
  <2>2. CASE mpc # "join"
    <3>1. Top <= FirstIn(segs, seq) - 1 /\ seq <= seq
      BY <1>2, <1>5, <2>2
    <3> QED  BY <1>2, <2>2, <3>1
  <2> QED  BY <2>1, <2>2
<1>9. PICK i \in 1..(Len(segs) + 1) :
        Top <= FirstIn(segs, i) - 1 /\ i <= (IF mpc = "join" THEN seq + 1 ELSE seq)
  BY <1>8
<1>10. Top <= FirstIn(segs, Len(segs) + 1) - 1
  <2>1. Len(segs) + 1 \in 1..(Len(segs) + 1) /\ i <= Len(segs) + 1
    BY <1>2
  <2> QED  BY <1>7, <1>9, <2>1
<1>11. ASSUME fault.kind # "none"  PROVE Top < FirstIn(segs, fault.seg) + fault.at
  <2>1. fault.seg \in 1..(Len(segs) + 1) /\ seq <= fault.seg
    BY <1>2, <1>5, <1>11
  <2>2. PICK g \in Nat : g = FirstIn(segs, fault.seg)
    BY <1>3, <2>1
  <2>3. CASE seq = fault.seg
    <3>1. Top - g + 1 <= fault.at
      BY <1>5, <1>11, <2>2, <2>3
    <3> QED  BY <1>2, <2>2, <3>1
  <2>4. CASE seq # fault.seg
    <3>1. i <= fault.seg
      BY <1>2, <1>9, <2>1, <2>4
    <3>2. Top <= g - 1
      BY <1>7, <1>9, <2>1, <2>2, <3>1
    <3> QED  BY <1>2, <2>2, <3>2
  <2> QED  BY <2>3, <2>4
<1> QED  BY <1>6, <1>10, <1>11

\* How far the part goes on after the rows handed on.
LEMMA Room ==
  ASSUME ReadIInv, Wanted > 0
  PROVE  LET n    == Take(Wanted)
             r    == ReadOf(given)
             last == Min({e \in PartEndsIn(segs) : e >= r + 1})
         IN  /\ last \in Nat /\ r + n <= last
             /\ limit >= Ample => n = IF last - r < B THEN last - r ELSE B
<1> DEFINE n == Take(Wanted)
           r == ReadOf(given)
           last == Min({e \in PartEndsIn(segs) : e >= r + 1})
<1>1. /\ n \in Nat \ {0} /\ n <= B /\ r + n <= Top
      /\ mpc \in {"part", "tail", "join"}
      /\ mpc \in {"part", "tail"} => /\ seq > 1 /\ Top = FirstIn(segs, seq) - 1
                                     /\ mpc = "part" => segs[seq].part # segs[seq - 1].part
      /\ limit >= Ample => n = IF mpc = "join" THEN B ELSE Top - r
  BY Handing
<1>2. r \in Nat /\ Top \in Nat /\ B \in Nat \ {0} /\ segs \in Sequential!Plans
      /\ Len(segs) \in Nat /\ seq \in 1..(Len(segs) + 1)
  BY Stands, PlanAt
<1>3. Merging /\ mpc # "done"
  BY <1>1 DEF ReadIInv
<1> HIDE DEF n, r
<1>4. CASE mpc = "join"
  <2>1. seq \in 1..Len(segs) /\ Top <= FirstIn(segs, seq + 1) - 1
        /\ Top <= FirstIn(segs, Len(segs) + 1) - 1
    BY <1>4, TopFits
  <2>2. PartsGone(segs, seq, r)
    BY <1>3, <1>4 DEF Merging, r
  <2>3. FirstIn(segs, Len(segs) + 1) \in Nat /\ FirstIn(segs, seq + 1) \in Nat
    <3>1. Len(segs) + 1 \in 1..(Len(segs) + 1) /\ seq + 1 \in 1..(Len(segs) + 1)
      BY <1>2, <2>1
    <3> QED  BY <3>1, PlanAt
  <2>4. r + 1 <= FirstIn(segs, Len(segs) + 1) - 1
    BY <1>1, <1>2, <2>1, <2>3
  <2>5. PICK s : s = seq
    OBVIOUS
  <2>6. last \in Nat /\ FirstIn(segs, seq + 1) - 1 <= last
    <3>1. s \in 1..Len(segs) /\ PartsGone(segs, s, r)
      BY <2>1, <2>2, <2>5
    <3>2. last \in Nat /\ FirstIn(segs, s + 1) - 1 <= last
      BY <1>2, <2>4, <3>1, PartGoesOn
    <3> QED  BY <2>5, <3>2
  <2> HIDE DEF last
  <2>7. r + n <= last
    BY <1>1, <1>2, <2>1, <2>3, <2>6
  <2>8. limit >= Ample => n = IF last - r < B THEN last - r ELSE B
    BY <1>1, <1>2, <1>4, <2>6, <2>7
  <2> QED  BY <2>6, <2>7, <2>8 DEF last, n, r
<1>5. CASE mpc # "join"
  <2>1. seq > 1 /\ Top = FirstIn(segs, seq) - 1
        /\ (mpc = "part" => segs[seq].part # segs[seq - 1].part)
    BY <1>1, <1>5
  <2>2. PICK s \in 1..Len(segs) : s = seq - 1 /\ s + 1 = seq
    <3>1. seq - 1 \in 1..Len(segs) /\ (seq - 1) + 1 = seq
      BY <1>2, <2>1
    <3> QED  BY <3>1
  <2>3. PartsGone(segs, s, r)
    BY <1>1, <1>3, <1>5, <2>2 DEF Merging, r
  <2>4. s = Len(segs) \/ segs[s + 1].part # segs[s].part
    <3>1. mpc = "tail" => seq = Len(segs) + 1
      BY <1>3 DEF Merging
    <3> QED  BY <1>1, <1>2, <1>5, <2>1, <2>2, <3>1
  <2>5. FirstIn(segs, s + 1) \in Nat /\ Top = FirstIn(segs, s + 1) - 1
    <3>1. FirstIn(segs, seq) \in Nat
      BY <1>2, PlanAt
    <3> QED  BY <2>1, <2>2, <3>1
  <2>6. r + 1 <= FirstIn(segs, s + 1) - 1
    BY <1>1, <1>2, <2>5
  <2>7. last = Top
    BY <1>2, <2>3, <2>4, <2>5, <2>6, PartStops
  <2>8. Top - r < B
    BY <1>3, <1>5 DEF Merging, r
  <2> HIDE DEF last
  <2>9. last \in Nat /\ r + n <= last
    BY <1>1, <1>2, <2>7
  <2>10. limit >= Ample => n = IF last - r < B THEN last - r ELSE B
    BY <1>1, <1>2, <1>5, <2>7, <2>8
  <2> QED  BY <2>9, <2>10 DEF last, n, r
<1> QED  BY <1>4, <1>5

\* What the merge hands on is the batch that one reader would have, or a
\* shorter one where the limit binds.
LEMMA DeliverMaps ==
  ASSUME ReadIInv, Deliver
  PROVE  Sequential!Deliver
<1> DEFINE n == Take(Wanted)
           r == ReadOf(given)
<1>1. /\ n \in Nat \ {0} /\ n <= B /\ r + n <= Top
      /\ mpc \in {"part", "tail", "join"}
      /\ SubSeq(Rows, 1, n) = RunOf(r + 1, n)
  BY Handing DEF Deliver
<1>2. r \in Nat /\ Top \in Nat /\ B \in Nat
  BY Stands, PlanAt
<1>3. outcome = Pending /\ answer = "go"
  BY <1>1 DEF ReadIInv, Merging
<1>4. UNCHANGED <<segs, fault, limit, outcome>>
  BY DEF Deliver, Go, LeaveWith, inputs
<1>5. answer' \in Sequential!Answers /\ given' = Append(given, <<r, SubSeq(Rows, 1, n)>>)
  BY SameThings DEF Deliver
<1>6. /\ Sequential!Read = r /\ Sequential!AllRows = FirstIn(segs, Len(segs) + 1) - 1
      /\ Sequential!First(fault.seg) = FirstIn(segs, fault.seg)
  BY SameThings
<1>7. Sequential!PartLast(r + 1) = Min({e \in PartEndsIn(segs) : e >= r + 1})
  BY SameThings DEF Sequential!PartLast, Sequential!Min, Min
<1>8. /\ Sequential!PartLast(r + 1) \in Nat /\ r + n <= Sequential!PartLast(r + 1)
      /\ limit >= Ample => n = IF Sequential!PartLast(r + 1) - r < B
                               THEN Sequential!PartLast(r + 1) - r ELSE B
  BY <1>7, Room DEF Deliver
<1> HIDE DEF n, r
<1>9. PICK k \in 1..B : k = n
  BY <1>1, <1>2
<1>10. PICK l \in Nat : l = Sequential!PartLast(r + 1)
  BY <1>8
<1>11. k <= l - r
  BY <1>2, <1>8, <1>9, <1>10
<1>12. Sequential!AllRows \in Nat /\ Top <= Sequential!AllRows
  <2>1. Len(segs) + 1 \in 1..(Len(segs) + 1)
    BY PlanAt
  <2>2. FirstIn(segs, Len(segs) + 1) \in Nat \ {0}
    BY <2>1, PlanAt
  <2> QED  BY <1>1, <1>6, <2>2, TopFits
<1>13. r < Sequential!AllRows /\ r + k < Sequential!AllRows + 1
  BY <1>1, <1>2, <1>9, <1>12
<1>14. r + k < Sequential!BadRow
  <2>1. CASE fault.kind = "none"
    BY <1>13, <2>1 DEF Sequential!BadRow
  <2>2. CASE fault.kind # "none"
    <3>1. Top < FirstIn(segs, fault.seg) + fault.at
      BY <1>1, <2>2, TopFits
    <3>2. FirstIn(segs, fault.seg) \in Nat /\ fault.at \in Nat
      <4>1. fault.seg \in 1..(Len(segs) + 1) /\ fault.at \in Nat
        BY PlanAt
      <4> QED  BY <4>1, PlanAt
    <3>3. Sequential!BadRow = FirstIn(segs, fault.seg) + fault.at
      BY <1>6, <2>2 DEF Sequential!BadRow
    <3> QED  BY <1>1, <1>2, <1>9, <3>1, <3>2, <3>3
  <2> QED  BY <2>1, <2>2
<1>15. given' = Append(given, <<r, Sequential!Run(r + 1, k)>>)
  <2>1. Sequential!Run(r + 1, k) = RunOf(r + 1, k)
    <3>1. r + 1 \in Nat /\ k \in Nat
      BY <1>2
    <3> QED  BY <3>1, RunsTyped
  <2> QED  BY <1>1, <1>5, <1>9, <2>1
<1>16. limit >= Ample => k = IF l - r < B THEN l - r ELSE B
  BY <1>8, <1>9, <1>10
<1> QED  BY <1>3, <1>4, <1>5, <1>6, <1>9, <1>10, <1>11, <1>13, <1>14, <1>15, <1>16
         DEF Sequential!Deliver

\* What the scope returns is what one reader could have returned.
LEMMA JoinMaps ==
  ASSUME ReadIInv, Join
  PROVE  Sequential!Return
<1>1. /\ mpc = "done" /\ outcome = Pending
      /\ outcome' = IF \E w \in 1..up : work[w].run = "panic" THEN "panic" ELSE result
      /\ UNCHANGED <<segs, fault, limit, given, answer>>
  BY DEF Join, inputs, merge
<1>2. CASE \E w \in 1..up : work[w].run = "panic"
  <2>1. PICK w \in 1..up : work[w].run = "panic"
    BY <1>2
  <2>2. w \in WorkerIds
    <3>1. up \in 0..WorkersFor(segs) /\ WorkersFor(segs) \in Nat
      BY PlanAt DEF ReadIInv, ReadTyped
    <3> QED  BY <3>1 DEF WorkerIds
  <2>3. fault.kind = "panic"
    BY <2>1, <2>2 DEF ReadIInv, Ended
  <2> QED  BY <1>1, <1>2, <2>3 DEF Sequential!Return
<1>3. CASE ~\E w \in 1..up : work[w].run = "panic"
  <2>1. outcome' = result
    BY <1>1, <1>3
  <2>2. \/ result = "ok" /\ \/ answer = "stop"
                            \/ /\ answer = "go" /\ fault.kind = "none"
                               /\ ReadOf(given) = FirstIn(segs, Len(segs) + 1) - 1
        \/ result = "consumerErr" /\ answer = "err"
        \/ result = "panic" /\ answer = "panic"
        \/ result = "spawnErr" /\ given = <<>>
        \/ /\ result = "readErr" /\ answer = "go" /\ fault.kind = "err"
           /\ ErrFits(segs, fault, ReadOf(given))
    BY <1>1, <1>3 DEF ReadIInv, Explained
  <2>3. ASSUME answer = "go", fault.kind = "none",
               ReadOf(given) = FirstIn(segs, Len(segs) + 1) - 1
        PROVE  Sequential!Finished
    BY <2>3, SameThings DEF Sequential!Finished
  <2>4. ASSUME answer = "go", fault.kind = "err", ErrFits(segs, fault, ReadOf(given))
        PROVE  Sequential!ReadFails
    <3>1. /\ Sequential!Read = ReadOf(given)
          /\ Sequential!PartFirst(fault.seg) = PartFirstIn(segs, fault.seg)
          /\ Sequential!First(fault.seg) = FirstIn(segs, fault.seg)
      BY SameThings
    <3>2. Sequential!BadRow = FirstIn(segs, fault.seg) + fault.at
      BY <2>4, <3>1 DEF Sequential!BadRow
    <3>3. PICK f \in Nat : f = FirstIn(segs, fault.seg)
      <4>1. fault.seg \in 1..(Len(segs) + 1)
        BY PlanAt
      <4> QED  BY <4>1, PlanAt
    <3>4. PICK a \in Nat : a = fault.at
      BY PlanAt
    <3>5. PICK r \in Nat : r = ReadOf(given)
      BY Stands
    <3>6. r + 1 >= PartFirstIn(segs, fault.seg) /\ f + a - 1 - r <= 2 * (B - 1)
      BY <2>4, <3>3, <3>4, <3>5 DEF ErrFits
    <3>7. (f + a) - 1 - r <= 2 * (B - 1)
      <4>1. PICK c \in Int : c = 2 * (B - 1)
        BY PlanAt
      <4> QED  BY <3>6, <4>1
    <3> QED  BY <2>4, <3>1, <3>2, <3>3, <3>4, <3>5, <3>6, <3>7 DEF Sequential!ReadFails
  <2> QED  BY <1>1, <2>1, <2>2, <2>3, <2>4 DEF Sequential!Return
<1> QED  BY <1>2, <1>3

\* read_in_order hands on the same batches at the same row offsets, and ends as
\* one reader could, whatever --read-workers is and however the workers run.
THEOREM ReadIsSequential == ReadSpec => ReadsSequentially
<1>1. ReadInit => Sequential!Init
  BY ShapeAssumption DEF ReadInit, Sequential!Init
<1>2. ReadIInv /\ [ReadNext]_readVars => [Sequential!Next]_(Sequential!vars)
  <2>1. SUFFICES ASSUME ReadIInv, [ReadNext]_readVars
                 PROVE  [Sequential!Next]_(Sequential!vars)
    OBVIOUS
  <2>2. CASE Deliver
    BY <2>1, <2>2, DeliverMaps DEF Sequential!Next
  <2>3. CASE Join
    BY <2>1, <2>3, JoinMaps DEF Sequential!Next
  <2>4. CASE UNCHANGED <<segs, fault, limit, given, answer, outcome>>
    BY <2>4 DEF Sequential!vars
  <2> QED  BY <2>1, <2>2, <2>3, <2>4, OnlyDeliver
<1>3. ReadSpec => []ReadIInv
  BY ReadSafe
<1> QED  BY <1>1, <1>2, <1>3, PTL DEF ReadSpec, ReadsSequentially, Sequential!Spec

=============================================================================
