-------------------------------- MODULE Fleet --------------------------------
(***************************************************************************)
(* The jobs of a sharded build (shard.rs, plan_state.rs, tiles.rs), which  *)
(* share the input, one shard plan and one convert plan, on a file system  *)
(* where each of the three may be replaced while the fleet runs.  Job 0 is *)
(* the coarse job, i > 0 the i-th data shard.                              *)
(*                                                                         *)
(* Rows lie in a cell of the finest zoom and are drawn in the tiles within *)
(* Buffer of it.  A tile of an archive is [z, id], its features rows of    *)
(* the input.                                                              *)
(***************************************************************************)
EXTENDS TileRanges, ConvertPlan

CONSTANTS
  N,              \* the data shards of the fleet
  Torn,           \* a file cut short
  Inputs,         \* the inputs there may be, the first of them the one given
  Cuts,           \* the shard plans there may be, [pivot, ranges]
  Opts,           \* the options a job may be given
  RightOpts,      \* those of the fleet
  Selections,     \* by input and options, what --bbox and --filter select
  Buffer,         \* how far beyond its tile a row is drawn, in tiles
  MaxStarts,      \* bound on the jobs started
  MaxMishaps      \* bound on what replaces a file or ends a job

ASSUME FleetAssumption ==
  /\ N \in Nat \ {0}
  /\ Buffer \in Nat /\ Buffer <= ReadMargin
  /\ RightOpts \in Opts

Span == 0..(2^FinestZoom - 1)
Cells == [x : Span, y : Span]
RowGroups ==
  [rows : Seq([cell : Cells, carries : BOOLEAN,
               level : [Opts -> {Unassigned} \cup 0..FinestZoom]]),
   box : {None} \cup [x0 : Span, x1 : Span, y0 : Span, y1 : Span]]

\* What a file says of its row groups is true of their rows.
Sound(in) ==
  /\ in \in Seq(Range(in))
  /\ \A p \in DOMAIN in :
       /\ in[p].groups \in Seq(RowGroups)
       /\ \A g \in GroupsOf(in, p) : in[p].groups[g].box # None =>
            \A i \in 1..GroupRows(in, <<p, g>>) :
              Inside(in[p].groups[g].rows[i].cell, in[p].groups[g].box)

ASSUME InputsAssumption ==
  /\ Inputs \in Seq(Range(Inputs)) /\ Inputs # <<>>
  /\ \A in \in Range(Inputs) : Sound(in)

\* A file that is rewritten has another size, time or entity tag.
ASSUME StampsAssumption ==
  \A in, other \in Range(Inputs) : Stamps(in) = Stamps(other) => in = other

ASSUME SelectionsAssumption ==
  \A in \in Range(Inputs), o \in Opts :
    LET Some == [DOMAIN in -> SUBSET Nat]
    IN None \notin Some /\ Selections[in][o] \in {None} \cup Some

ASSUME CutsAssumption ==
  /\ Cuts \subseteq [pivot : Nat, ranges : Seq([lo : Int, hi : Int])]
  /\ \A c \in Cuts : CutDigest(c) # None

Jobs == 0..N

VARIABLES
  input,      \* the input now
  cutFile,    \* the shard plan, None, or Torn
  planFile,   \* the convert plan, None, or Torn
  job,        \* each job: [pc, cut, opts, plan, input, table]
  archive,    \* each job's archive: None or [tiles, plan]
  starts,     \* jobs started
  mishaps     \* mishaps so far

vars == <<input, cutFile, planFile, job, archive, starts, mishaps>>

Idle == [pc |-> "idle"]

-----------------------------------------------------------------------------
(* Drawing *)

\* The cell's tile at a zoom, and the tiles the row is drawn in.
CellAt(cell, z) == [x |-> cell.x \div 2^(FinestZoom - z),
                    y |-> cell.y \div 2^(FinestZoom - z)]
DrawnIn ==
  [z \in 0..FinestZoom |-> [cell \in Cells |->
     LET c == CellAt(cell, z)
     IN IdsIn(z, Widened([x0 |-> c.x, x1 |-> c.x, y0 |-> c.y, y1 |-> c.y],
                         Buffer))]]

\* The features of a run's tiles, for the rows it reads and the tables it
\* looks them up in, in the tiles it keeps.
Features(in, sel, table, kept) ==
  LET rows == Stream(in, sel)
      Shown(k, z) == table.levels[k] # Unassigned /\ table.levels[k] <= z
  IN UNION {{[z |-> z, id |-> id, row |-> rows[k], carries |-> k \in table.side] :
               id \in {t \in DrawnIn[z][Row(in, rows[k]).cell] \cap kept[z] : Shown(k, z)}} :
             k \in DOMAIN rows, z \in 0..FinestZoom}

\* restrict_scans_to_range: the coarse job keeps the zooms above the pivot, a
\* data shard the ids of its range.
ShareOf(j, cut) ==
  [z \in 0..FinestZoom |->
     IF j > 0 THEN IdsAt(cut.pivot, cut.ranges[j], z)
     ELSE IF z < cut.pivot THEN Nat ELSE {}]

\* The archive of one run over the whole of an input.
Whole(in, opts) ==
  LET sel == Selections[in][opts]
  IN Features(in, sel, Assigned(in, sel, opts), [z \in 0..FinestZoom |-> Nat])

-----------------------------------------------------------------------------
(* The jobs *)

\* Row groups whose box comes within a shard's margin; those without one.
Reaching(in, cut, j) ==
  [p \in DOMAIN in |->
     {g \in GroupsOf(in, p) :
        \/ in[p].groups[g].box = None
        \/ LET b == in[p].groups[g].box
               r == ReadBox(cut.pivot, cut.ranges[j])
               c0 == CellAt([x |-> b.x0, y |-> b.y0], cut.pivot)
               c1 == CellAt([x |-> b.x1, y |-> b.y1], cut.pivot)
           IN /\ c0.x <= r.x1 /\ r.x0 <= c1.x
              /\ c0.y <= r.y1 /\ r.y0 <= c1.y}]

\* select_row_groups_streaming.
Reads(j, in, cut, opts) ==
  Intersected(in, Selections[in][opts],
              IF j = 0 THEN None ELSE Reaching(in, cut, j))

Rule(j) == IF j = 0 THEN "identical" ELSE "subset"

\* What `shard plan` writes for an input.
CutFor(c, in) == [pivot |-> c.pivot, ranges |-> c.ranges, inputs |-> Footers(in)]

Init ==
  /\ input = Head(Inputs)
  /\ \E c \in Cuts : cutFile = CutFor(c, input)
  /\ planFile = None
  /\ job = [j \in Jobs |-> Idle]
  /\ archive = [j \in Jobs |-> None]
  /\ starts = 0 /\ mishaps = 0

Loadable(c) == c \notin {None, Torn} /\ Structured(c)

\* A job is started with its role, and reads the shard plan before the input.
LoadCut(j) ==
  /\ job[j] = Idle /\ starts < MaxStarts
  /\ Loadable(cutFile)
  /\ j > 0 => HasRange(cutFile, j, N)
  /\ PivotReached(cutFile, FinestZoom)
  /\ \E o \in Opts :
       /\ o # RightOpts => mishaps < MaxMishaps
       /\ job' = [job EXCEPT ![j] = [pc |-> "cut", cut |-> cutFile,
                                     opts |-> o]]
       /\ mishaps' = IF o = RightOpts THEN mishaps ELSE mishaps + 1
  /\ starts' = starts + 1
  /\ UNCHANGED <<input, cutFile, planFile, archive>>

\* The shard plan was cut for this input, as far as the footers tell.
BoundToInput(j) == job[j].cut.inputs = Footers(input)

\* The coarse job assigns the levels of the whole input, and creates the
\* convert plan, in place.
CreatePlan ==
  /\ job[0].pc = "cut" /\ BoundToInput(0)
  /\ LET cut == job[0].cut  o == job[0].opts
         sel == Reads(0, input, cut, o)
     IN job' = [job EXCEPT ![0] =
          [pc |-> "saving", cut |-> cut, input |-> input,
           plan |-> SavedPlan(input, sel, o, CutDigest(cut)),
           table |-> Assigned(input, sel, o), opts |-> o]]
  /\ planFile' = Torn
  /\ UNCHANGED <<input, cutFile, archive, starts, mishaps>>

\* Its checksum, written last, makes the plan readable.
SavePlan ==
  /\ job[0].pc = "saving"
  /\ planFile' = job[0].plan
  /\ job' = [job EXCEPT ![0].pc = "drawing"]
  /\ UNCHANGED <<input, cutFile, archive, starts, mishaps>>

\* load_plan_state accepts the plan in the file.
Accepts(j) ==
  /\ planFile \notin {None, Torn}
  /\ LET cut == job[j].cut
         sel == Reads(j, input, cut, job[j].opts)
     IN /\ Verified(planFile.fingerprint,
                    Fingerprint(input, sel, job[j].opts, CutDigest(cut)),
                    Rule(j))
        /\ RowsAgree(planFile, input, sel, Rule(j))

\* A data shard must be given a plan, the coarse job may be.
Replay(j) ==
  /\ job[j].pc = "cut" /\ BoundToInput(j) /\ Accepts(j)
  /\ LET cut == job[j].cut  o == job[j].opts
         sel == Reads(j, input, cut, o)
     IN job' = [job EXCEPT ![j] =
          [pc |-> "drawing", cut |-> cut, input |-> input,
           plan |-> planFile, opts |-> o,
           table |-> IF j = 0 THEN planFile
                     ELSE Rebased(planFile, input, sel)]]
  /\ UNCHANGED <<input, cutFile, planFile, archive, starts, mishaps>>

\* Pass 2 and the export.
Draw(j) ==
  /\ job[j].pc = "drawing"
  /\ archive' = [archive EXCEPT ![j] =
       [plan |-> job[j].plan,
        tiles |-> Features(job[j].input,
                           Reads(j, job[j].input, job[j].cut, job[j].opts),
                           job[j].table,
                           ShareOf(j, job[j].cut))]]
  /\ job' = [job EXCEPT ![j] = Idle]
  /\ UNCHANGED <<input, cutFile, planFile, starts, mishaps>>

Refuse(j) ==
  /\ job[j].pc = "cut"
  /\ ~BoundToInput(j) \/ ~Accepts(j)
  /\ job' = [job EXCEPT ![j] = Idle]
  /\ UNCHANGED <<input, cutFile, planFile, archive, starts, mishaps>>

-----------------------------------------------------------------------------
(* What happens to the files *)

Mishap == mishaps < MaxMishaps /\ mishaps' = mishaps + 1

\* A job is killed.
Crash(j) ==
  /\ Mishap
  /\ job[j] # Idle
  /\ job' = [job EXCEPT ![j] = Idle]
  /\ UNCHANGED <<input, cutFile, planFile, archive, starts>>

\* The input is replaced while no job holds it.
Rewrite ==
  /\ Mishap
  /\ \A j \in Jobs : job[j].pc \in {"idle", "cut"}
  /\ input' \in Range(Inputs) \ {input}
  /\ UNCHANGED <<cutFile, planFile, job, archive, starts>>

\* The shard plan is cut again, edited, or left torn.
Recut ==
  /\ Mishap
  /\ \/ \E c \in Cuts : cutFile' = CutFor(c, input)
     \/ cutFile' = Torn
  /\ UNCHANGED <<input, planFile, job, archive, starts>>

\* A run that is not of a fleet saves its plan at the same path.
ForeignPlan ==
  /\ Mishap
  /\ planFile' = SavedPlan(input, Selections[input][RightOpts], RightOpts,
                           None)
  /\ UNCHANGED <<input, cutFile, job, archive, starts>>

Next ==
  \/ CreatePlan \/ SavePlan
  \/ \E j \in Jobs : LoadCut(j) \/ Replay(j) \/ Refuse(j) \/ Draw(j)
                     \/ Crash(j)
  \/ Rewrite \/ Recut \/ ForeignPlan

Spec == Init /\ [][Next]_vars

-----------------------------------------------------------------------------
(* Properties *)

\* Every variable holds a value of its kind.
TypeOK ==
  /\ input \in Range(Inputs)
  /\ \A j \in Jobs :
       /\ job[j].pc \in {"idle", "cut", "saving", "drawing"}
       /\ job[j].pc = "saving" => j = 0 /\ planFile # None
       /\ archive[j] # None => DOMAIN archive[j] = {"plan", "tiles"}
  /\ starts \in 0..MaxStarts /\ mishaps \in 0..MaxMishaps

\* The input an archive's plan was saved over.
SavedOver(plan) ==
  CHOOSE in \in Range(Inputs) : plan.fingerprint.stamps = Stamps(in)

\* verify_with, rebase_plan_for_shard, and the read margin: whatever was
\* replaced while the fleet ran, an archive that was built holds, of one run
\* over the whole of the input its convert plan was saved over, exactly the
\* tiles of its job under the cut that plan was saved with.
SliceOfOneRun ==
  \A j \in Jobs : archive[j] # None =>
    LET fp == archive[j].plan.fingerprint
        cut == [pivot |-> fp.cut[1], ranges |-> fp.cut[2]]
    IN /\ fp.cut # None
       /\ archive[j].tiles = {f \in Whole(SavedOver(archive[j].plan), fp.opts) :
                                f.id \in ShareOf(j, cut)[f.z]}

\* The archives of jobs that replayed one plan have no tile in common, so
\* that merge accepts them, and together hold every tile of the one run.
MergesToOneRun ==
  (\A j \in Jobs : archive[j] # None /\ archive[j].plan = archive[0].plan) =>
    LET Ids(j) == {<<f.z, f.id>> : f \in archive[j].tiles}
        plan == archive[0].plan
    IN /\ \A i, j \in Jobs : i # j => Ids(i) \cap Ids(j) = {}
       /\ UNION {archive[j].tiles : j \in Jobs}
            = Whole(SavedOver(plan), plan.fingerprint.opts)

=============================================================================
