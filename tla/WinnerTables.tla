---------------------------- MODULE WinnerTables ----------------------------
(***************************************************************************)
(* overview/stream.rs, resolve_winner_tables: pass 1 of a conversion gives *)
(* each feature its level in three stages, each over what the one before   *)
(* it left.  Winners of cells (LevelAssign), then the features that fit    *)
(* the budget of a level (DensityBudget), then, for the points, who counts *)
(* those that are not there (ClusterTables).  A refusal of the last is the *)
(* conversion's ClusterInvariant error.                                    *)
(***************************************************************************)
EXTENDS LevelAssign, ClusterTables

ASSUME StagesAssumption ==
  /\ BudgetAssumption
  /\ \A c \in Configs : c.cluster \in BOOLEAN
  /\ \A l \in Coarse : Gsd[l] > 0   \* bad_gsd_message

tableVars == <<Input, assignVars, budgetVars, clusterVars>>

TablesInit == AssignInit /\ BudgetInit /\ ClusterInit

Assign == AssignNext /\ UNCHANGED <<budgetVars, clusterVars>>

Thin == /\ Assigned /\ UNCHANGED <<Input, assignVars, clusterVars>>
        /\ AdmitLevel

Clustering == /\ Assigned /\ Thinned /\ config.cluster
              /\ UNCHANGED <<Input, assignVars, budgetVars>>
Count  == Clustering /\ BuildTables
Verify == Clustering /\ VerifySums

TablesNext == Assign \/ Thin \/ Count \/ Verify

TablesSpec == TablesInit /\ [][TablesNext]_tableVars

-----------------------------------------------------------------------------
(* Properties *)

\* Every variable holds a value of its kind.
TablesTypeOK ==
  AssignTypeOK /\ BudgetTypeOK /\ ClusterTypeOK

\* The tables count each point once, or the conversion says rightly why they
\* do not (ClusterTables.CountedByOne): only one of two points with one index
\* can be counted; where no point is present none was allowed to be, by its
\* ladder or by other kinds that share its budget; a count is only wrong
\* where points are not thinned by cells but are deferred all the same.
CountedOnce ==
  /\ CountedByOne
  /\ verdict = "twins" =>
       \E p, q \in Points : p # q /\ row[p].index = row[q].index
  /\ verdict = "noPoint" =>
       \/ \A p \in Points : Laddered(p)
       \/ ~Off /\ config.budgeted # {"point"}
  /\ verdict = "sum" => config.factor["point"] = 0

\* cluster.rs, on thinning that is off: every point survives at every level,
\* so every cluster is of one point, and that answer is correct.
ThinningOffIsCounted ==
  /\ config.factor["point"] = 0
  /\ \A p, q \in Points :
       ~Laddered(p) /\ (p # q => row[p].index # row[q].index)
  => verdict # "sum"

=============================================================================
