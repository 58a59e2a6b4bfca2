----------------------------- MODULE MCBudgets -----------------------------
(* What is decided from a budget, for TLC.  A behaviour is one of the grants *)
(* of a conversion (ConvertBudget), those of an export (ExportBudget), or the *)
(* levels that a conversion gives its features (WinnerTables), which draws    *)
(* no grant but is given a budget for its grids and one for each level.       *)
(*                                                                            *)
(* The tables: five rows, of which to save time the first four are in order   *)
(* of their index; three levels, of four units, two and one.                  *)
EXTENDS ConvertBudget, ExportBudget, WinnerTables

VARIABLE part \* which of them runs

\* Conversions: limits from nothing to plenty, and none known; prices from
\* one byte up.
Conversions ==
  [limit : {0, 20, 100, 300, 1000, Unknown}, profile : {"bounded", "auto", "speed"},
   cgroup : {TRUE}, spill : {0, 50, 200}, stage : {0, 9}, staging : {3},
   threads : {1, 6}, encode : {7}, batch : {1, 3}, reader : {0, 2},
   workers : {0, 3, 9}, channel : {0, 2}, window : {4}, windowPrice : {5},
   buffered : {TRUE}, streamed : BOOLEAN]

\* Exports: zooms of many light tiles, a few, one heavy tile among light ones,
\* none.
Levels ==
  {<<>>} \cup
  {<<a, b, c>> : a \in {<<1>>, <<5>>}, b \in {<<>>, <<2, 1>>},
                 c \in {<<1, 1, 4, 1>>, <<9, 1, 1>>, <<2, 2, 2, 2, 2, 2>>}}

ExportsMC ==
  [limit : {0, 40, 90, 240, 1000, Unknown}, profile : {"bounded", "auto", "speed"},
   held : {0, 13}, levels : Levels, target : {0, 2, 4}, ceiling : {1, 3},
   auto : BOOLEAN, member : {0, 4}, machine : {20, Unknown},
   store : {7}, slice : {2}, slices : {3}, fill : {TRUE}, fillWant : {30},
   fillFloor : {5}, single : BOOLEAN]

-----------------------------------------------------------------------------
Feature(i, kind, at, diag, key, entry) ==
  [index |-> i, kind |-> kind, at |-> at, diag |-> diag, key |-> key,
   entry |-> entry]

\* Points with one index, near and far; a line; a polygon seen from
\* level 1 on; a point that has its level.
FeaturesMC ==
  {Feature(1, "point", 0, 0, Missing, Missing),
   Feature(3, "point", 1, 0, 7, Missing),
   Feature(3, "point", 5, 0, 7, Missing),
   Feature(4, "line", 1, 3, 5, Missing),
   Feature(5, "polygon", 1, 3, Missing, Missing),
   Feature(6, "point", 6, 0, 9, 1)}

HashMC == [i \in 1..6 |-> (i * 5) % 7]
GsdMC  == [l \in 0..2 |-> IF l = 0 THEN 4 ELSE IF l = 1 THEN 2 ELSE 1]

\* Square roots, as gamma is 2.
WeightMC == <<100, 141, 173, 200, 223>>

By(point, line, polygon) ==
  [k \in Kinds |-> IF k = "point" THEN point ELSE IF k = "line" THEN line ELSE polygon]

\* The default; bands of points and of squares, with polygons thinned; points
\* that are not thinned, with the default budget; a budget over every kind.
ConfigsMC ==
  {[factor |-> By(1, 1, 0), gate |-> By(0, 1, 1), repr |-> [l \in 0..2 |-> "geometry"],
    descending |-> TRUE, density |-> TRUE, budgeted |-> {"point"}, cluster |-> TRUE],
   [factor |-> By(1, 2, 1), gate |-> By(0, 0, 1),
    repr |-> [l \in 0..2 |-> IF l = 0 THEN "point" ELSE IF l = 1 THEN "square" ELSE "geometry"],
    descending |-> FALSE, density |-> FALSE, budgeted |-> {}, cluster |-> TRUE],
   [factor |-> By(0, 0, 2), gate |-> By(0, 0, 0), repr |-> [l \in 0..2 |-> "geometry"],
    descending |-> TRUE, density |-> TRUE, budgeted |-> {"point"}, cluster |-> TRUE],
   [factor |-> By(2, 1, 1), gate |-> By(0, 0, 1), repr |-> [l \in 0..2 |-> "geometry"],
    descending |-> TRUE, density |-> TRUE, budgeted |-> Kinds, cluster |-> TRUE]}

NoTable == [p \in Positions |-> CHOOSE f \in Features : f.index = 1]

-----------------------------------------------------------------------------
exported == <<plan, group, next, phase>>
resolved == <<tuning, shape>>
granting == <<vars, exported>>
MCVars   == <<part, granting, tableVars>>

MCInit ==
  \/ /\ part = "convert" /\ Init
     /\ plan = <<>> /\ group = <<>> /\ next = 1 /\ phase = "done"
     /\ row = NoTable /\ config = (CHOOSE c \in Configs : TRUE) /\ TablesInit
  \/ /\ part = "export" /\ ExportInit /\ pc = "done"
     /\ tuning = <<0, None>> /\ shape = [workers |-> 1, depth |-> MinDepth]
     /\ row = NoTable /\ config = (CHOOSE c \in Configs : TRUE) /\ TablesInit
  \/ /\ part = "tables" /\ TablesInit /\ row[1].index <= row[2].index
     /\ row[2].index <= row[3].index /\ row[3].index <= row[4].index
     /\ run = (CHOOSE r \in Runs : TRUE) /\ LedgerInit
     /\ tuning = <<0, None>> /\ shape = [workers |-> 1, depth |-> MinDepth]
     /\ pc = "done" /\ plan = <<>> /\ group = <<>> /\ next = 1 /\ phase = "done"

InConvert == part = "convert" /\ UNCHANGED <<part, exported, tableVars>>
InExport  == part = "export" /\ UNCHANGED <<part, resolved, pc, tableVars>>
InTables  == part = "tables" /\ UNCHANGED <<part, granting>>
InAssign  == InTables /\ UNCHANGED <<budgetVars, clusterVars>>

MCNext ==
  \/ InConvert /\ Stage
  \/ InConvert /\ Staged
  \/ InConvert /\ ReserveSpill
  \/ InConvert /\ Encode
  \/ InConvert /\ Read
  \/ InConvert /\ Window
  \/ InConvert /\ EndRead
  \/ InExport /\ Plan
  \/ InExport /\ GrantStore
  \/ InExport /\ GrantGzip
  \/ InExport /\ GrantFill
  \/ InExport /\ EndFill
  \/ InExport /\ GrantLevel
  \/ InExport /\ EndLevel
  \/ InExport /\ DrawGroup
  \/ InExport /\ Finish
  \/ InAssign /\ StartWave
  \/ \E l \in Coarse, c \in 0..RowCount : InAssign /\ Classify(l, c)
  \/ \E l \in Coarse, s \in 0..(Shards - 1) : InAssign /\ Contest(l, s)
  \/ \E l \in Coarse : InAssign /\ NextBlock(l)
  \/ \E r \in 0..RowCount : InAssign /\ Fold(r)
  \/ InAssign /\ EndWave
  \/ InTables /\ Thin
  \/ InTables /\ Count
  \/ InTables /\ Verify

MCSpec == MCInit /\ [][MCNext]_MCVars

=============================================================================
