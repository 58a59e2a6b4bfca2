----------------------------- MODULE MCSharding -----------------------------
(* A sharded build, for TLC: the cut of a shard plan (ShardCut), and the    *)
(* fleet that works by such plans (Fleet).  A behaviour is one of either.   *)
(*                                                                          *)
(* The fleet: two data shards over zooms 0 to 3, with real tile ids, in a   *)
(* world wide enough that each leaves a row group unread.  The inputs: one  *)
(* of two parts, the same rewritten with a row moved and other levels at    *)
(* the same counts, and one with a row less.  The fleet's options select    *)
(* all row groups but the second, others select all.                        *)
(*                                                                          *)
(* The cut: zoom 2, with its 16 tiles; row groups over one, two, four or    *)
(* all of them and some without a box.                                      *)
EXTENDS Fleet, ShardCut

VARIABLE part       \* which of the two runs

-----------------------------------------------------------------------------
R(x, y, level, carries) == [cell |-> [x |-> x, y |-> y],
                            level |-> level, carries |-> carries]
At(x, y) == [x0 |-> x, x1 |-> x, y0 |-> y, y1 |-> y]
By(right, other) == [o \in {"right", "other"} |->
                       IF o = "right" THEN right ELSE other]

TwoParts(stamp, x, north, south) ==
  <<[stamp |-> stamp,
     groups |-> <<[rows |-> <<R(x, 0, By(north, 3), FALSE)>>, box |-> At(x, 0)],
                  [rows |-> <<R(0, 7, By(1, 0), TRUE)>>, box |-> At(0, 7)],
                  [rows |-> <<R(6, 5, By(south, south), TRUE),
                              R(7, 7, By(3, 1), FALSE)>>,
                   box |-> [x0 |-> 6, x1 |-> 7, y0 |-> 5, y1 |-> 7]]>>],
    [stamp |-> "t0",
     groups |-> <<[rows |-> <<>>, box |-> None],
                  [rows |-> <<R(7, 0, By(2, Unassigned), FALSE)>>,
                   box |-> At(7, 0)],
                  [rows |-> <<R(3, 3, By(2, 3), TRUE)>>, box |-> None]>>]>>

Given     == TwoParts("t1", 1, 1, 0)
Rewritten == TwoParts("t2", 5, 0, Unassigned)
Shorter   == [Given EXCEPT ![1].stamp = "t3", ![1].groups[3].rows = Tail(@)]

InputsMC == <<Given, Rewritten, Shorter>>
SelectionsMC ==
  [in \in {Given, Rewritten, Shorter} |-> [o \in {"right", "other"} |->
     IF o = "right" THEN <<{1, 3}, {1, 2, 3}>> ELSE None]]

Halves(pivot, lo, mid, hi) ==
  [pivot |-> pivot, ranges |-> <<[lo |-> lo, hi |-> mid],
                                 [lo |-> mid + 1, hi |-> hi]>>]
CutsMC == {Halves(3, 21, 47, 84), Halves(1, 1, 2, 4),
           \* edited: it stops short, and it cuts three
           Halves(2, 5, 12, 17),
           [pivot |-> 1, ranges |-> <<[lo |-> 1, hi |-> 1],
                                      [lo |-> 2, hi |-> 2],
                                      [lo |-> 3, hi |-> 4]>>]}

-----------------------------------------------------------------------------
Box(x0, x1, y0, y1) ==
  IdsIn(2, [x0 |-> x0, x1 |-> x1, y0 |-> y0, y1 |-> y1])

Covers == {{}, Box(0, 0, 0, 0), Box(3, 3, 0, 0), Box(2, 2, 1, 1),
           Box(1, 2, 1, 1), Box(0, 1, 2, 3), Box(0, 3, 0, 3)}
GroupsMC == [rows : {0, 1, 3}, tiles : Covers]

CutInputsMC ==
  {<<>>} \cup {<<a>> : a \in GroupsMC} \cup {<<a, b>> : a \in GroupsMC, b \in GroupsMC}
    \cup {<<[rows |-> 2, tiles |-> Box(0, 0, 0, 0)],
            [rows |-> 1, tiles |-> Box(3, 3, 3, 3)], a, b>> :
            a \in GroupsMC, b \in GroupsMC}

-----------------------------------------------------------------------------
MCVars  == <<vars, cutVars, part>>

MCInit ==
  \/ /\ part = "fleet" /\ Init
     /\ groups = <<>> /\ shards = 1 /\ pc = "weigh" /\ weight = <<>>
     /\ pending = {} /\ taken = 0 /\ cursor = 0 /\ ranges = <<>>
  \/ /\ part = "cut" /\ CutInit
     /\ input = Given /\ cutFile = None /\ planFile = None
     /\ job = [j \in Jobs |-> Idle] /\ archive = [j \in Jobs |-> None]
     /\ starts = 0 /\ mishaps = 0

InFleet == part = "fleet" /\ UNCHANGED <<part, cutVars>>
InCut   == part = "cut" /\ UNCHANGED <<part, vars>>

MCNext ==
  \/ InCut /\ Weigh
  \/ InCut /\ CutEvenly
  \/ InCut /\ CutRange
  \/ InCut /\ CutLast
  \/ InCut /\ Edit
  \/ InCut /\ Load
  \/ \E j \in Jobs : InFleet /\ LoadCut(j)
  \/ \E j \in Jobs : InFleet /\ Replay(j)
  \/ \E j \in Jobs : InFleet /\ Refuse(j)
  \/ \E j \in Jobs : InFleet /\ Draw(j)
  \/ \E j \in Jobs : InFleet /\ Crash(j)
  \/ InFleet /\ CreatePlan
  \/ InFleet /\ SavePlan
  \/ InFleet /\ Rewrite
  \/ InFleet /\ Recut
  \/ InFleet /\ ForeignPlan

MCSpec == MCInit /\ [][MCNext]_MCVars

=============================================================================
