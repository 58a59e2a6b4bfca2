--------------------------- MODULE VariableDepth ---------------------------
(***************************************************************************)
(* overview/export/variable_depth.rs: a branch of the pyramid may end at a *)
(* coarse tile that is drawn from the canonical band.  The scan decides    *)
(* which tiles may not stop (rule A'), a prober thread decides which do,   *)
(* coarse to fine, and the exporter draws the levels behind it.            *)
(*                                                                         *)
(* Tiles are one-dimensional here: tile x at zoom z lies in tile x \div 2  *)
(* at zoom z - 1.  The finest zoom has tiles 4 units wide, a tile's clip   *)
(* buffer is a quarter of it, at every zoom.                               *)
(***************************************************************************)
EXTENDS Naturals, Sequences, FiniteSets

CONSTANTS
  Zooms,      \* the levels' zooms, coarse to fine
  Rows,       \* the canonical band: [at |-> position, point |-> BOOLEAN]
  ClampDepth, \* zoom steps a stopped tile's extent may be shifted
  MaxMembers  \* members a tile may have before its raw size is over the cap

Finest == Len(Zooms)
Ladder == 1..Finest

VariableDepthAssumption ==
  /\ Finest \in Nat \ {0} /\ \A k \in Ladder : Zooms[k] \in Nat
  /\ \A j, k \in Ladder : j < k => Zooms[j] < Zooms[k]
  /\ IsFiniteSet(Rows)
  /\ \A r \in Rows : r.at \in 0..4 * 2^Zooms[Finest] - 1 /\ r.point \in BOOLEAN

VARIABLES
  shown,    \* input, per level the probe may stop tiles at: how it shows
            \* each row, "none", "part" (a cluster or a collapsed area), "whole"
  rung,     \* input: the rows an entry-zoom rung keeps from coarser levels
  collapse, \* input: coarse levels may draw an area as a point
  blocked,  \* the stop policy: the <<zoom, tile>> that may not stop
  prober,   \* the prober thread: "run", "ok", "error" or "panic"
  at,       \* the level it probes next
  stopped,  \* per level: the tiles it stopped
  tx, rx,   \* the two ends of the channel are alive
  chan,     \* the channel: probed levels
  pc,       \* the exporter: "draw", "wait", "leave", "done"
  upcoming, \* the first level of the run being drawn or awaited
  end,      \* the level after that run
  received, \* levels received
  frontier, \* per level: the stops received
  drawn,    \* per level: its own tiles that were drawn
  ends,     \* per level: the stopped tiles that were drawn
  result    \* what export_levels returns or raises, "none" until then

probing  == <<prober, at, stopped, tx>>
drawing  == <<pc, upcoming, end, drawn, ends>>
input    == <<shown, rung, collapse, blocked>>
depthVars == <<input, probing, rx, chan, drawing, received, frontier, result>>

-----------------------------------------------------------------------------
(* What the bands hold. *)

Tiles(z) == 0..2^z - 1
Ancestor(x, z, y) == x \div 2^(z - y)

\* The tiles at zoom z a row's buffered box reaches.
Reach(r, z) ==
  LET b == 2^(Zooms[Finest] - z)
      low == IF r.at < b THEN 0 ELSE r.at - b
  IN  {x \in Tiles(z) : low < 4*b*(x+1) /\ r.at + b >= 4*b*x}

FirstProbed ==
  1 + Cardinality({k \in 1..Finest - 1 : Zooms[Finest] - Zooms[k] > ClampDepth})
Probed == FirstProbed..Finest - 1

Shown(k) == IF k \in Probed THEN {r \in Rows : shown[k][r] # "none"} ELSE Rows
Reduced(k) == IF k \in Probed THEN {r \in Rows : shown[k][r] = "part"} ELSE {}
Reached(rows, z) == UNION {Reach(r, z) : r \in rows}
Members(rows, z, x) == Cardinality({r \in rows : x \in Reach(r, z)})
Points(rows) == {r \in rows : r.point}

\* The rows a level draws as points, and those of them that are clusters.
PointsShown(k) == Points(Shown(k)) \cup IF collapse THEN Reduced(k) ELSE {}
Clusters(k) == Points(Reduced(k))
ReleaseZoom(r) ==
  IF r \notin rung THEN 0
  ELSE LET k == CHOOSE k \in Ladder : /\ r \in Shown(k)
                                      /\ \A j \in 1..k-1 : j \in Probed => r \notin Shown(j)
                                      /\ k \in Probed \cup {Finest}
       IN  Zooms[k]

-----------------------------------------------------------------------------
(* Rule A': the tiles that may not stop. *)

Mixed == \E r, s \in Rows : r.point /\ ~s.point

BadTiles(k) ==
  LET z == Zooms[k] IN
    Reached({r \in Rows : ReleaseZoom(r) > z}, z)
    \cup Reached(Clusters(k), z)
    \cup {x \in Reached(PointsShown(k), z) \cup Reached(Points(Rows), z) :
            \/ collapse /\ Mixed
            \/ Members(PointsShown(k), z, x) # Members(Points(Rows), z, x)}

Block_TileOnly(k, x) == {<<Zooms[k], x>>}

\* Blocking a tile blocks the tiles above it.
Block(k, x) == {<<y, Ancestor(x, Zooms[k], y)>> : y \in 0..Zooms[k]}
Policy == UNION UNION {{Block(k, x) : x \in BadTiles(k)} : k \in Probed}

-----------------------------------------------------------------------------
(* The probe. *)

Covered(f, k, x) ==
  \E j \in 1..k-1 : Ancestor(x, Zooms[k], Zooms[j]) \in f[j]

Candidates(k, f) ==
  {x \in Reached(Rows, Zooms[k]) :
     /\ k \in Probed
     /\ <<Zooms[k], x>> \notin blocked
     /\ ~Covered(f, k, x)
     /\ Members(Rows, Zooms[k], x) <= MaxMembers}

NoStops == [k \in Ladder |-> {}]

\* Levels before this one have no tile that can stop: drawn at once.
FirstProbedLevel ==
  LET ks == {k \in Probed : Candidates(k, NoStops) # {}}
  IN  IF ks = {} THEN Finest ELSE CHOOSE k \in ks : \A j \in ks : k <= j

ProbeLevel ==
  /\ prober = "run" /\ at < Finest
  /\ \E fits \in SUBSET Candidates(at, stopped) :
       /\ stopped' = [stopped EXCEPT ![at] = fits]
       /\ IF rx THEN chan' = Append(chan, [level |-> at, stops |-> fits])
                     /\ at' = at + 1 /\ UNCHANGED <<prober, tx>>
                ELSE prober' = "ok" /\ tx' = FALSE /\ UNCHANGED <<at, chan>>
  /\ UNCHANGED <<input, rx, drawing, received, frontier, result>>

ProbeEnds ==
  /\ prober = "run" /\ at = Finest
  /\ prober' = "ok" /\ tx' = FALSE
  /\ UNCHANGED <<input, at, stopped, rx, chan, drawing, received, frontier, result>>

ProbeFails_KeepsTx ==
  /\ prober = "run" /\ at < Finest
  /\ prober' \in {"error", "panic"}
  /\ UNCHANGED <<input, at, stopped, tx, rx, chan, drawing, received, frontier, result>>

\* A read or an encode fails, or a task of the probe panics.
ProbeFails ==
  /\ prober = "run" /\ at < Finest
  /\ prober' \in {"error", "panic"} /\ tx' = FALSE
  /\ UNCHANGED <<input, at, stopped, rx, chan, drawing, received, frontier, result>>

-----------------------------------------------------------------------------
(* The exporter. *)

DepthInit ==
  /\ shown \in [Probed -> [Rows -> {"none", "part", "whole"}]]
  /\ rung \in SUBSET Rows
  /\ collapse \in BOOLEAN /\ (rung # {} => collapse)
  /\ blocked = Policy
  /\ prober = "run" /\ at = 1 /\ stopped = NoStops /\ tx = TRUE
  /\ rx = TRUE /\ chan = <<>>
  /\ pc = "draw" /\ upcoming = 1 /\ end = FirstProbedLevel
  /\ received = 0 /\ frontier = NoStops
  /\ drawn = NoStops /\ ends = NoStops /\ result = "none"

Remaining_OwnStopsOnly(k) ==
  Reached(IF k = Finest THEN Rows ELSE Shown(k), Zooms[k]) \ frontier[k]

\* restrict: what is left of a level's own scan.
Remaining(k) ==
  {x \in Reached(IF k = Finest THEN Rows ELSE Shown(k), Zooms[k]) :
     x \notin frontier[k] /\ ~Covered(frontier, k, x)}

\* export_level_groups writes a run of levels in order.
DrawLevel ==
  /\ pc = "draw" /\ upcoming < end
  /\ drawn' = [drawn EXCEPT ![upcoming] = Remaining(upcoming)]
  /\ ends' = [ends EXCEPT ![upcoming] = frontier[upcoming]]
  /\ upcoming' = upcoming + 1
  /\ UNCHANGED <<input, probing, rx, chan, pc, end, received, frontier, result>>

\* The receiver goes, and the scope joins the prober.
Leave(r) == rx' = FALSE /\ chan' = <<>> /\ pc' = "leave" /\ result' = r

DrawFails ==
  /\ pc = "draw" /\ upcoming < end
  /\ Leave("draw error")
  /\ UNCHANGED <<input, probing, upcoming, end, drawn, ends, received, frontier>>

DrawnAll ==
  /\ pc = "draw" /\ upcoming = end
  /\ IF upcoming > Finest THEN Leave("ok")
                 ELSE pc' = "wait" /\ UNCHANGED <<rx, chan, result>>
  /\ UNCHANGED <<input, probing, upcoming, end, drawn, ends, received, frontier>>

RunReady == IF upcoming < Finest THEN received >= upcoming ELSE received = Finest - 1

Receive ==
  /\ pc = "wait" /\ received < Finest - 1 /\ chan # <<>>
  /\ frontier' = [frontier EXCEPT ![Head(chan).level] = Head(chan).stops]
  /\ chan' = Tail(chan) /\ received' = received + 1
  /\ UNCHANGED <<input, probing, rx, drawing, result>>

\* recv: the prober is gone before the level the exporter waits for.
Abandoned ==
  /\ pc = "wait" /\ received < Finest - 1 /\ ~RunReady /\ chan = <<>> /\ ~tx
  /\ Leave(CASE prober = "error" -> "probe error"
             [] prober = "panic" -> "panic"
             [] OTHER            -> "ended early")
  /\ UNCHANGED <<input, probing, upcoming, end, drawn, ends, received, frontier>>

\* Nothing more to take at once: draw every level released so far.
PlanRun ==
  /\ pc = "wait" /\ RunReady /\ (received = Finest - 1 \/ chan = <<>>)
  /\ end' = IF received = Finest - 1 THEN Finest + 1 ELSE received + 1
  /\ pc' = "draw"
  /\ UNCHANGED <<input, probing, rx, chan, upcoming, drawn, ends, received, frontier, result>>

\* A panic of the prober is raised by the join, whatever else was to be said.
Join ==
  /\ pc = "leave" /\ prober # "run"
  /\ result' = CASE prober = "panic"                     -> "panic"
                 [] prober = "error" /\ result = "ok"    -> "probe error"
                 [] OTHER                                -> result
  /\ pc' = "done"
  /\ UNCHANGED <<input, probing, rx, chan, upcoming, end, drawn, ends, received, frontier>>

DepthNext ==
  \/ ProbeLevel \/ ProbeEnds \/ ProbeFails
  \/ DrawLevel \/ DrawFails \/ DrawnAll
  \/ Receive \/ Abandoned \/ PlanRun \/ Join

\* Both threads run on until they end; no call is obliged to fail.
Probe == ProbeLevel \/ ProbeEnds
Draw == DrawLevel \/ DrawnAll \/ Receive \/ Abandoned \/ PlanRun \/ Join

DepthSpec == DepthInit /\ [][DepthNext]_depthVars /\ WF_depthVars(Probe) /\ WF_depthVars(Draw)

-----------------------------------------------------------------------------
DepthTypeOK ==
  /\ prober \in {"run", "ok", "error", "panic"} /\ at \in Ladder
  /\ tx \in BOOLEAN /\ rx \in BOOLEAN
  /\ \A i \in DOMAIN chan :
       chan[i].level \in Ladder /\ chan[i].stops \subseteq Tiles(Zooms[Finest])
  /\ pc \in {"draw", "wait", "leave", "done"}
  /\ upcoming \in 1..Finest + 1 /\ end \in 1..Finest + 1 /\ received \in 0..Finest - 1
  /\ \A f \in {stopped, frontier, drawn, ends} :
       \A k \in Ladder : f[k] \subseteq Tiles(Zooms[k])

\* The terminals at or above tile x of level k.
Above(k, x) == {j \in 1..k : Ancestor(x, Zooms[k], Zooms[j]) \in ends[j]}

(***************************************************************************)
(* What has been written of a level, whenever it is written and however    *)
(* far the prober was: every tile of its own band that is under no stop,   *)
(* none that is under one, and no stop under a stop.  At the canonical     *)
(* level every tile of the data is therefore covered once.                 *)
(***************************************************************************)
EachTileOnce ==
  \A k \in 1..upcoming-1 :
    /\ ends[k] = stopped[k]
    /\ \A x \in Tiles(Zooms[k]) :
         /\ x \in Reached(IF k = Finest THEN Rows ELSE Shown(k), Zooms[k])
              => (x \in drawn[k]) = (Above(k, x) = {})
         /\ Cardinality(Above(k, x)) <= 1
         /\ x \in drawn[k] => Above(k, x) = {}

(***************************************************************************)
(* A tile that stops hides nothing a finer level would have shown: at its  *)
(* own and every finer level it covers, the points drawn are the canonical *)
(* band's points and no cluster, and every row it draws is released there. *)
(* The code compares numbers of points, never the points.                  *)
(***************************************************************************)
StopsLoseNothing ==
  \A k \in Ladder : \A t \in ends[k] : \A j \in k..Finest - 1 : \A x \in Tiles(Zooms[j]) :
    Ancestor(x, Zooms[j], Zooms[k]) = t =>
      LET in(rows) == {r \in rows : x \in Reach(r, Zooms[j])} IN
        /\ in(PointsShown(j)) = in(Points(Rows))
        /\ in(Clusters(j)) = {}
        /\ \A r \in in(Rows) : ReleaseZoom(r) <= Zooms[j]

(***************************************************************************)
(* export_levels returns, and what it returns is what happened: success    *)
(* only when both threads succeeded, the probe's failure when it failed    *)
(* alone, and never that the probe ended before every level was decided.   *)
(***************************************************************************)
Outcomes == CASE prober = "panic" -> {"panic"}
              [] prober = "error" -> {"probe error", "draw error"}
              [] prober = "ok"    -> {"ok", "draw error"}
              [] OTHER            -> {}
DepthReturns ==
  <>[](pc = "done" /\ result \in Outcomes /\ (result = "ok" => upcoming = Finest + 1))
=============================================================================
