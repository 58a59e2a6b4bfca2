----------------------------- MODULE TailWriter -----------------------------
(***************************************************************************)
(* StreamingPmtilesWriter under the tail layout: the archive writer export *)
(* drives (crates/core/src/pmtiles_writer.rs).                             *)
(*                                                                         *)
(* A run appends tile bodies into <output>.partial behind a reserved       *)
(* prefix, rewrites prefix and tail at each checkpoint, and publishes by   *)
(* renaming the partial over the output.  The process can be killed        *)
(* between any two steps, and any I/O call can fail; a later run finds     *)
(* whatever the earlier ones left on disk.                                 *)
(*                                                                         *)
(* Bytes are abstracted to cells.  One tile body, the metadata section and *)
(* the leaf directories take one cell each; cell i of a file is the i-th   *)
(* one after the prefix.  Process death is modelled, power loss is not:    *)
(* what a finished write put in the file stays there.                      *)
(***************************************************************************)
EXTENDS Naturals, Sequences, FiniteSets

CONSTANTS
  Tiles,          \* tile ids
  Bodies,         \* compressed tile bodies
  Absent,         \* no file at a path, and the value of a thing not there
  Torn,           \* a root directory of which only the first page landed
  RootCap,        \* tiles the root directory holds before it spills to leaves
  MaxRuns,        \* bound: runs against this output path
  RenameMayFail   \* whether stepping an old partial aside can fail

ASSUME CapAssumption    == RootCap \in Nat /\ MaxRuns \in Nat
ASSUME RenameAssumption == RenameMayFail \in BOOLEAN
VARIABLES
  partial,   \* the file at <output>.partial: spool, then salvage archive
  prev,      \* the file at <output>.partial.prev
  output,    \* the file at the output path
  pc,        \* what the running process does next; "idle" when none runs
  entries,   \* directory entries of the run: <<tile, cell>> pairs
  size,      \* current_offset: cells appended so far, buffered ones included
  buf,       \* tile cells still in the spool's BufWriter
  dirty,     \* tail_dirty
  landed,    \* tail_checkpoints > 0
  cur,       \* the <<tile, body>> being appended
  snap,      \* the sections being assembled
  final,     \* whether the assembly in progress is finalize's
  added,     \* history: the body the caller gave for each tile of the run
  left,      \* history: the non-empty partial the last dead run left behind
  runs       \* runs opened so far

fileVars == <<partial, prev, output>>
runVars  == <<entries, size, buf, dirty, landed, added>>
asmVars  == <<cur, snap, final>>
vars     == <<fileVars, runVars, asmVars, pc, left, runs>>

-----------------------------------------------------------------------------
(* Files *)

\* What a cell of a file can hold.
TileCell(b) == [kind |-> "tile", of |-> b]
MetaCell(s) == [kind |-> "meta", of |-> s]
LeafCell(s) == [kind |-> "leaf", of |-> s]

\* The directory an assembly writes, and whether its metadata claims variable
\* depth.
Snapshots == [dir : SUBSET (Tiles \X (Nat \ {0})), deep : BOOLEAN]
Cells     == [kind : {"tile"}, of : Bodies]
               \cup [kind : {"meta", "leaf"}, of : Snapshots]

\* Tile maps: what an archive resolves its tiles to.
Maps == UNION {[T -> Bodies] : T \in SUBSET Tiles}

\* reserved: the prefix has been written at all.  magic, dataEnd and root are
\* the prefix; body is everything after it.  truth is history: the tile map
\* the file's last completed assembly stood for.
Files == [reserved : BOOLEAN, magic : BOOLEAN, dataEnd : Nat,
          root : Snapshots \cup {Absent, Torn}, body : Seq(Cells),
          truth : Maps]

\* The sentinels are none of the values they stand beside.
ASSUME SentinelAssumption ==
  /\ Absent \notin Bodies /\ Absent \notin Cells /\ Absent \notin Files
  /\ {Absent, Torn} \cap Snapshots = {}

NoTiles   == [t \in {} |-> Absent]
EmptyFile == [reserved |-> FALSE, magic |-> FALSE, dataEnd |-> 0,
              root |-> Absent, body |-> <<>>, truth |-> NoTiles]

NonEmpty(f) == f # Absent /\ (f.reserved \/ f.body # <<>>)

\* Writing cells over a file from position i on, at most one past its end.
Put(f, i, cells) ==
  LET end == i + Len(cells) - 1
  IN  [f EXCEPT !.body = [j \in 1..(IF end > Len(@) THEN end ELSE Len(@)) |->
                            IF j \in i..end THEN cells[j - i + 1] ELSE @[j]]]

Spills(s) == Cardinality(s.dir) > RootCap

-----------------------------------------------------------------------------
(* What a reader makes of a file: Header::from_bytes, the directory walk and *)
(* the metadata read.  A section that is missing, or is not the one the      *)
(* header was written for, fails to decompress: the reader reports an error. *)

CellAt(f, i) == IF i \in 1..Len(f.body) THEN f.body[i] ELSE Absent

Parses(f) == f # Absent /\ f.magic /\ f.root \notin {Absent, Torn}

Readable(f) ==
  /\ Parses(f)
  /\ CellAt(f, f.dataEnd + 1) = MetaCell(f.root)
  /\ Spills(f.root) => CellAt(f, f.dataEnd + 2) = LeafCell(f.root)

\* The tile map the directory resolves to.  Total on a tile whose cell is not
\* tile bytes, so that a wrong answer is a value and not an error.
Served(f) ==
  [t \in {e[1] : e \in f.root.dir} |->
     LET e == CHOOSE e \in f.root.dir : e[1] = t
         c == CellAt(f, e[2])
     IN  IF c # Absent /\ c.kind = "tile" THEN c.of ELSE Absent]

-----------------------------------------------------------------------------
(* The spool *)

\* Cells of the run that have left the BufWriter.
Flushed == size - Len(buf)

\* spool_holds: the body stored at an offset, compared where it is, in the
\* buffer or in the file.
Holds(off, b) ==
  TileCell(b) = IF off > Flushed THEN buf[off - Flushed]
                                 ELSE CellAt(partial, off)

\* Mutant: a hash hit is taken for a match without comparing the bytes.
Stored_UncheckedHit(b) == {e[2] : e \in entries}

\* find_stored: the stored cells that hold exactly these bytes.
Stored(b) == {off \in {e[2] : e \in entries} : Holds(off, b)}

Init ==
  /\ partial = Absent /\ prev = Absent /\ output = Absent
  /\ pc = "idle"
  /\ entries = {} /\ size = 0 /\ buf = <<>>
  /\ dirty = TRUE /\ landed = FALSE /\ added = NoTiles
  /\ cur = Absent /\ snap = Absent /\ final = FALSE
  /\ left = Absent /\ runs = 0

-----------------------------------------------------------------------------
(* with_tail_layout *)

\* Mutant: the earlier partial is truncated where it stands.
Open_NoStepAside ==
  /\ pc = "idle" /\ runs < MaxRuns
  /\ runs' = runs + 1
  /\ pc' = "create"
  /\ entries' = {} /\ size' = 0 /\ buf' = <<>>
  /\ dirty' = TRUE /\ landed' = FALSE /\ added' = NoTiles
  /\ UNCHANGED <<fileVars, asmVars, left>>

\* Step an earlier partial aside.  When the rename fails the code warns and
\* goes on.
Open ==
  /\ pc = "idle" /\ runs < MaxRuns
  /\ runs' = runs + 1
  /\ pc' = "create"
  /\ \/ /\ NonEmpty(partial)
        /\ prev' = partial /\ partial' = Absent
     \/ /\ NonEmpty(partial) => RenameMayFail
        /\ UNCHANGED <<partial, prev>>
  /\ entries' = {} /\ size' = 0 /\ buf' = <<>>
  /\ dirty' = TRUE /\ landed' = FALSE /\ added' = NoTiles
  /\ UNCHANGED <<output, asmVars, left>>

\* File::create truncates.
Create ==
  /\ pc = "create"
  /\ partial' = EmptyFile
  /\ pc' = "reserve"
  /\ UNCHANGED <<prev, output, runVars, asmVars, left, runs>>

\* The zeroed prefix.
Reserve ==
  /\ pc = "reserve"
  /\ partial' = [partial EXCEPT !.reserved = TRUE]
  /\ pc' = "adding"
  /\ UNCHANGED <<prev, output, runVars, asmVars, left, runs>>

-----------------------------------------------------------------------------
(* add_tile_precompressed *)

\* The body is stored already: the tile aliases it and no byte is written.
AddDuplicate(t, b) ==
  /\ pc = "adding" /\ t \notin DOMAIN added
  /\ \E off \in Stored(b) : entries' = entries \cup {<<t, off>>}
  /\ added' = [u \in DOMAIN added \cup {t} |-> IF u = t THEN b ELSE added[u]]
  /\ UNCHANGED <<fileVars, size, buf, dirty, landed, asmVars, pc, left, runs>>

\* A new body: invalidate_tail_prefix_before_append first, through a handle of
\* its own, so that it reaches the file before any tile byte can.
BeginAppend(t, b) ==
  /\ pc = "adding" /\ t \notin DOMAIN added
  /\ Stored(b) = {}
  /\ cur' = <<t, b>>
  /\ partial' = IF dirty THEN partial ELSE [partial EXCEPT !.magic = FALSE]
  /\ dirty' = TRUE
  /\ pc' = "append"
  /\ UNCHANGED <<prev, output, entries, size, buf, landed, added, snap, final,
                 left, runs>>

\* The bookkeeping after BufWriter::write_all returned.
Record ==
  /\ entries' = entries \cup {<<cur[1], size + 1>>}
  /\ size' = size + 1
  /\ added' = [u \in DOMAIN added \cup {cur[1]} |->
                 IF u = cur[1] THEN cur[2] ELSE added[u]]
  /\ pc' = "adding"
  /\ UNCHANGED <<prev, output, dirty, landed, asmVars, left, runs>>

\* The body fits the buffer.
AppendBuffered ==
  /\ pc = "append"
  /\ buf' = Append(buf, TileCell(cur[2]))
  /\ UNCHANGED partial
  /\ Record

\* It does not: BufWriter writes out everything it holds first.
Spill ==
  /\ pc = "append"
  /\ pc' = "spill"
  /\ UNCHANGED <<fileVars, runVars, asmVars, left, runs>>

\* One more buffered body reaches the file, at the spool's own cursor.
Drain ==
  /\ pc \in {"spill", "flush"} /\ buf # <<>>
  /\ partial' = Put(partial, Flushed + 1, <<Head(buf)>>)
  /\ buf' = Tail(buf)
  /\ UNCHANGED <<prev, output, entries, size, dirty, landed, added, asmVars,
                 pc, left, runs>>

\* Then it keeps the new body in the buffer, or writes a large one directly.
AppendSpilled ==
  /\ pc = "spill" /\ buf = <<>>
  /\ \/ buf' = <<TileCell(cur[2])>> /\ UNCHANGED partial
     \/ partial' = Put(partial, size + 1, <<TileCell(cur[2])>>) /\ UNCHANGED buf
  /\ Record

-----------------------------------------------------------------------------
(* checkpoint, finalize and the assembly they share *)

\* Mutant: finalize skips the assembly when no byte was appended since the
\* last checkpoint, forgetting that duplicates add entries without bytes.
Assemble_SkipClean(fin, deep) ==
  /\ pc = "adding"
  /\ deep => fin
  /\ snap' = [dir |-> entries, deep |-> deep]
  /\ final' = fin
  /\ pc' = IF fin /\ ~dirty THEN "publish" ELSE "flush"
  /\ UNCHANGED <<fileVars, runVars, cur, left, runs>>

\* checkpoint takes the variable-depth claim out of the metadata, finalize
\* leaves it in; build_sections then flushes the spool.
Assemble(fin, deep) ==
  /\ pc = "adding"
  /\ deep => fin
  /\ snap' = [dir |-> entries, deep |-> deep]
  /\ final' = fin
  /\ pc' = "flush"
  /\ UNCHANGED <<fileVars, runVars, cur, left, runs>>

\* write_tail_archive: set_len drops the previous tail.
TruncateTail ==
  /\ pc = "flush" /\ buf = <<>>
  /\ partial' = [partial EXCEPT !.body = SubSeq(@, 1, size)]
  /\ pc' = "meta"
  /\ UNCHANGED <<prev, output, runVars, asmVars, left, runs>>

WriteMetadata ==
  /\ pc = "meta"
  /\ partial' = Put(partial, size + 1, <<MetaCell(snap)>>)
  /\ pc' = IF Spills(snap) THEN "leaves" ELSE "head"
  /\ UNCHANGED <<prev, output, runVars, asmVars, left, runs>>

WriteLeaves ==
  /\ pc = "leaves"
  /\ partial' = Put(partial, size + 2, <<LeafCell(snap)>>)
  /\ pc' = "head"
  /\ UNCHANGED <<prev, output, runVars, asmVars, left, runs>>

\* Mutant: the header is written, the root directory behind it is not.
WriteHeader_NoRoot ==
  /\ pc = "head"
  /\ partial' = [partial EXCEPT !.magic = TRUE, !.dataEnd = size,
                                !.root = Torn]
  /\ pc' = "sync"
  /\ UNCHANGED <<prev, output, runVars, asmVars, left, runs>>

\* The prefix goes in as one write of several pages: the header's page first.
WriteHeader ==
  /\ pc = "head"
  /\ partial' = [partial EXCEPT !.magic = TRUE, !.dataEnd = size,
                                !.root = Torn]
  /\ pc' = "root"
  /\ UNCHANGED <<prev, output, runVars, asmVars, left, runs>>

WriteRoot ==
  /\ pc = "root"
  /\ partial' = [partial EXCEPT !.root = snap, !.truth = added]
  /\ pc' = "sync"
  /\ UNCHANGED <<prev, output, runVars, asmVars, left, runs>>

\* sync_all returned: the prefix describes the file.
Synced ==
  /\ pc = "sync"
  /\ dirty' = FALSE /\ landed' = TRUE
  /\ pc' = IF final THEN "publish" ELSE "adding"
  /\ UNCHANGED <<fileVars, entries, size, buf, added, asmVars, left, runs>>

\* finalize: rename the partial over the output, then drop the older salvage.
Publish ==
  /\ pc = "publish"
  /\ output' = partial /\ partial' = Absent
  /\ landed' = FALSE /\ left' = Absent
  /\ pc' = "tidy"
  /\ UNCHANGED <<prev, entries, size, buf, dirty, added, asmVars, runs>>

RemovePrev ==
  /\ pc = "tidy"
  /\ prev' \in {prev, Absent}    \* the removal's error is ignored
  /\ pc' = "idle"
  /\ UNCHANGED <<partial, output, runVars, asmVars, left, runs>>

-----------------------------------------------------------------------------
(* The ways a run ends early *)

Leave(f) == IF NonEmpty(f) THEN f ELSE left

\* The process dies: SIGKILL, OOM.  What the BufWriter held is gone.
Kill ==
  /\ pc # "idle"
  /\ left' = IF pc \in {"create", "tidy"} THEN left ELSE Leave(partial)
  /\ pc' = "idle" /\ buf' = <<>>
  /\ UNCHANGED <<fileVars, entries, size, dirty, landed, added, asmVars, runs>>

\* An I/O call fails, or the run panics or returns an error.  Drop removes a
\* partial no checkpoint has landed in; otherwise the BufWriter's own drop
\* writes out what it can of what it holds.
Fail ==
  /\ pc \notin {"idle", "create", "reserve", "tidy"}
  /\ IF ~landed
       THEN partial' = Absent
       ELSE \E k \in 0..Len(buf) :
              partial' = Put(partial, Flushed + 1, SubSeq(buf, 1, k))
  /\ left' = IF partial' = Absent THEN left ELSE partial'
  /\ pc' = "idle" /\ buf' = <<>>
  /\ UNCHANGED <<prev, output, entries, size, dirty, landed, added, asmVars,
                 runs>>

Next ==
  \/ Open \/ Create \/ Reserve
  \/ \E t \in Tiles, b \in Bodies : AddDuplicate(t, b) \/ BeginAppend(t, b)
  \/ AppendBuffered \/ Spill \/ Drain \/ AppendSpilled
  \/ \E fin, deep \in BOOLEAN : Assemble(fin, deep)
  \/ TruncateTail \/ WriteMetadata \/ WriteLeaves \/ WriteHeader \/ WriteRoot
  \/ Synced \/ Publish \/ RemovePrev
  \/ Kill \/ Fail

Spec == Init /\ [][Next]_vars

-----------------------------------------------------------------------------
(* Properties *)

\* Every variable holds a value of its kind, and what is buffered is part of
\* what current_offset counts.
TypeOK ==
  /\ partial \in Files \cup {Absent}
  /\ prev \in Files \cup {Absent}
  /\ output \in Files \cup {Absent}
  /\ left \in Files \cup {Absent}
  /\ pc \in {"idle", "create", "reserve", "adding", "append", "spill", "flush",
            "meta", "leaves", "head", "root", "sync", "publish", "tidy"}
  /\ entries \in SUBSET (Tiles \X (Nat \ {0}))
  /\ size \in Nat /\ landed \in BOOLEAN /\ runs \in Nat
  /\ buf \in Seq([kind : {"tile"}, of : Bodies]) /\ Flushed \in Nat
  /\ dirty \in BOOLEAN /\ final \in BOOLEAN
  /\ cur \in (Tiles \X Bodies) \cup {Absent}
  /\ snap \in Snapshots \cup {Absent}
  /\ added \in Maps

\* A file that reads as an archive, whichever of the three paths it is at and
\* whenever its writer died, serves exactly the tiles of the assembly that
\* wrote its prefix: "never valid-looking and wrong" (with_tail_layout).
NeverWrong ==
  \A f \in {partial, prev, output} : Readable(f) => Served(f) = f.truth

\* While the prefix parses, the sections it points at have not been written
\* over with tile bytes: a reader that follows it meets a missing or foreign
\* section, which it rejects, never tile bytes (invalidate_tail_prefix_
\* before_append).
NoTileBytesInSections ==
  \A f \in {partial, prev} :
    Parses(f) => \A i \in {1, 2} :
      LET c == CellAt(f, f.dataEnd + i) IN c # Absent => c.kind # "tile"

\* Between a checkpoint and the next append, and between finalize's assembly
\* and its rename, <output>.partial is a readable archive, so a failed rename
\* leaves a complete one at the path WriteError::Publish names.
SalvageReadable ==
  /\ pc = "adding" /\ ~dirty => Readable(partial)
  /\ pc = "publish" => Readable(partial) /\ Served(partial) = added

\* The output path holds nothing or a whole archive: every section there, and
\* no byte beyond them (the reader's padded-length rule).
OutputWhole ==
  output # Absent =>
    /\ Readable(output)
    /\ Len(output.body) = output.dataEnd + (IF Spills(output.root) THEN 2 ELSE 1)

\* What the last dead run left in <output>.partial is still on disk, there or
\* stepped aside to <output>.partial.prev, until a run publishes.
LeftoverSurvives == left # Absent => left \in {partial, prev}

\* A dying run never makes an unreadable partial readable: no writer's drop
\* "resurrects a half-overwritten archive".
DeathRevivesNothing ==
  [][pc' = "idle" /\ Readable(partial') => Readable(partial)]_vars

\* with_tail_layout's documentation: the partial "is a complete, readable
\* archive as of the last checkpoint if no tile has been appended since".
DocumentedSalvage ==
  pc = "idle" /\ landed /\ ~dirty /\ entries # {} => Readable(partial)

\* with_tail_layout's documentation: "Returns an I/O error if a previous
\* <output>.partial cannot be moved aside": no run goes on to create its file
\* over one.
OpenMovesAsideOrFails == pc = "create" => ~NonEmpty(partial)

\* What a user of the two paths relies on: see SalvagePromise.
Seen(f) == IF Readable(f) THEN Served(f) ELSE Absent

Promise == INSTANCE SalvagePromise
             WITH Nothing <- Absent, salvage <- Seen(partial),
                  published <- Seen(output)

KeepsPromise == Promise!Spec

=============================================================================
