---------------------------- MODULE ClusterTables ----------------------------
(***************************************************************************)
(* overview/cluster.rs: at each coarse level a point that is not there is  *)
(* counted by one that is.  build_cluster_tables, and verify_sum_invariant *)
(* over what it built.                                                     *)
(*                                                                         *)
(* An entry is the set of positions that a row stands for: its size is the *)
(* point_count, and every aggregate is over the values of these.           *)
(***************************************************************************)
EXTENDS DensityBudget, FiniteSetsExt

VARIABLES
  tables,    \* per level, once built: the entries, by the index of their row
  verdict    \* "none" so far, "ok", or what verify_sum_invariant reports

clusterVars == <<tables, verdict>>

Points     == {p \in Positions : row[p].kind = "point"}
Present(l) == {p \in Points : Level(p) <= l}

PointCell(l, p) == row[p].at \div Width(l, "point")

\* The best of the points that are present in each cell.
CellWinners(l) ==
  {p \in Present(l) : \A q \in Present(l) :
     q # p /\ PointCell(l, q) = PointCell(l, p) => Better(p, q)}

\* Of a position, from the center of a cell, doubled.
Distance(l, cell, p) ==
  LET d == 2 * row[p].at - (2 * cell + 1) * Width(l, "point")
  IN  IF d < 0 THEN -d ELSE d

\* nearest_present: of the winners of all cells.
Nearest(l, cell) ==
  CHOOSE w \in CellWinners(l) : \A v \in CellWinners(l) : v # w =>
    \/ Distance(l, cell, w) < Distance(l, cell, v)
    \/ Distance(l, cell, w) = Distance(l, cell, v) /\ Better(w, v)

\* Mutant: a point whose cell has nobody present is left alone.
Representative_OwnCell(l, p) ==
  LET here == {w \in CellWinners(l) : PointCell(l, w) = PointCell(l, p)}
  IN  IF p \in Present(l) \/ here = {} THEN p ELSE CHOOSE w \in here : TRUE

\* Itself if it is present, else the winner of its cell, else the nearest.
Representative(l, p) ==
  LET here == {w \in CellWinners(l) : PointCell(l, w) = PointCell(l, p)}
  IN  IF p \in Present(l) THEN p
      ELSE IF here # {} THEN CHOOSE w \in here : TRUE
      ELSE Nearest(l, PointCell(l, p))

Absorbed(l, i) == {p \in Points : row[Representative(l, p)].index = i}

\* The entries of a level; a row that stands for itself alone has none, and
\* there are none where thinning is off or no point is present.
TableOf(l) ==
  IF l = Finest \/ Width(l, "point") = 0 \/ Present(l) = {} THEN [i \in {} |-> {}]
  ELSE [i \in {i \in Indices : Cardinality(Absorbed(l, i)) > 1} |-> Absorbed(l, i)]

-----------------------------------------------------------------------------

ClusterInit == tables = [l \in {} |-> {}] /\ verdict = "none"

Tabled == DOMAIN tables # {}

BuildTables ==
  /\ ~Tabled
  /\ tables' = [l \in 0..Finest |-> TableOf(l)]
  /\ UNCHANGED verdict

\* What the row of a position counts at a level, and what the level's rows do.
Counts(l, w) == IF row[w].index \in DOMAIN tables[l] THEN tables[l][row[w].index]
                                                     ELSE {w}
CountAt(l) ==
  SumFunctionOnSet([w \in Positions |-> Cardinality(Counts(l, w))], Present(l))

SharesEntry(l) ==
  \E p, q \in Present(l) : /\ p # q /\ row[p].index = row[q].index
                           /\ row[p].index \in DOMAIN tables[l]

\* What is said of one level, in the order of its returns.
Said(l) == IF SharesEntry(l) THEN "twins"
           ELSE IF Present(l) = {} THEN "noPoint"
           ELSE IF CountAt(l) # Cardinality(Points) THEN "sum" ELSE "ok"

\* verify_sum_invariant reports the coarsest level that is wrong.
VerifySums ==
  /\ Tabled /\ verdict = "none"
  /\ LET wrong == {l \in 0..Finest : Said(l) # "ok"}
     IN  verdict' = IF Points = {} \/ wrong = {} THEN "ok" ELSE Said(Min(wrong))
  /\ UNCHANGED tables

-----------------------------------------------------------------------------
(* Properties *)

\* Every variable holds a value of its kind.
ClusterTypeOK ==
  /\ DOMAIN tables \in {{}, 0..Finest}
  /\ \A l \in DOMAIN tables : \A i \in DOMAIN tables[l] :
       i \in Indices /\ tables[l][i] \subseteq Points
  /\ verdict \in {"none", "ok", "twins", "noPoint", "sum"}

\* If the tables are accepted, every point is counted at every level by one
\* row, which is itself if it is there.
CountedByOne == verdict = "ok" => \A l \in 0..Finest : \A p \in Points :
  LET by == {w \in Present(l) : p \in Counts(l, w)}
  IN  Cardinality(by) = 1 /\ (p \in Present(l) => by = {p})

=============================================================================
