---------------------------- MODULE ExportBudget ----------------------------
(***************************************************************************)
(* One export's memory (overview/export.rs): the tiles of each zoom are    *)
(* cut into partitions, the partitions of a zoom into waves that are held  *)
(* at once, and small zooms grouped to be held together, all from the      *)
(* ledger as the export found it; then the member store's buffer, the gzip *)
(* cache, the coverage fill and each wide zoom's own store are granted.    *)
(* Tiles are their member counts, in tile order.                           *)
(***************************************************************************)
EXTENDS MemoryBudget, Sequences, SequencesExt

CONSTANT Exports \* the runs: what an export is given

ExportType ==
  [limit : 0..Top \cup {Unknown},
   profile : {"bounded", "auto", "speed"},
   held : Nat,          \* what the conversion before it still holds
   levels : Seq(Seq(Nat \ {0})),
   target : Nat,        \* members of a partition
   ceiling : Nat \ {0}, \* widest wave
   auto : BOOLEAN,      \* the wave's width was not given
   member : Nat,        \* price of a member, 0 if unknown
   machine : 0..Top \cup {Unknown}, \* the memory past which a tile is refused
   store : Nat,         \* MEMBER_STORE_RAM_BUDGET
   slice : Nat,         \* PAYLOAD_SLICE_BYTES of the gzip cache
   slices : Nat \ {0},  \* PAYLOAD_SLICES
   fill : BOOLEAN,      \* the coverage fill is asked for
   fillWant : Nat, fillFloor : Nat \ {0},
   single : BOOLEAN]    \* one read fills a store for all levels

ASSUME ExportAssumption == Exports \subseteq ExportType

VARIABLES
  plan,  \* per level, its partitions' members and its wave's width
  group, \* the groups, each the indices of its levels
  next,  \* the next group
  phase  \* "plan", "store", "gzip", "fill", "filling", "groups", "draining",
         \* "done", "failed"

exportVars == <<run, ledger, least, plan, group, next, phase>>

-----------------------------------------------------------------------------
(* Planning. *)

Total(s) == SumFunctionOnSet(s, DOMAIN s)
Densest(s) == Max({0} \cup {s[i] : i \in DOMAIN s})

\* plan_partitions: a partition is closed by the tile that reaches the target.
Add(acc, n) ==
  IF acc.open + n >= Most(run.target, 1)
  THEN [shut |-> Append(acc.shut, acc.open + n), open |-> 0]
  ELSE [acc EXCEPT !.open = @ + n]

Partitions(tiles) ==
  LET cut[i \in 0..Len(tiles)] ==
        IF i = 0 THEN [shut |-> <<>>, open |-> 0] ELSE Add(cut[i - 1], tiles[i])
      end == cut[Len(tiles)]
  IN  IF end.open > 0 THEN Append(end.shut, end.open) ELSE end.shut

\* memory_safe_level_wave: a slot is priced at the densest partition.
Wave(parts) ==
  IF ~run.auto \/ run.member = 0 \/ parts = <<>> THEN run.ceiling
  ELSE Least(run.ceiling, Affordable(ledger, "wave", Sat(Densest(parts) * run.member)))

GroupCap ==
  LET wave == Sat(run.ceiling * run.target) IN
  IF ~run.auto \/ run.member = 0 THEN wave
  ELSE Least(wave, Affordable(ledger, "wave", run.member))

SingleWave(l) == Len(l.parts) <= l.wave
Members(l) == Total(l.parts)

\* plan_level_groups: a level joins the open group if it is drawn in one wave
\* and the group's members stay within the cap.
Join_OwnMembers(ls, cap, acc, i) ==
  IF acc.open /\ SingleWave(ls[i]) /\ Members(ls[i]) <= cap
  THEN [groups |-> Front(acc.groups) \o <<Append(Last(acc.groups), i)>>,
        open |-> TRUE, sum |-> acc.sum + Members(ls[i])]
  ELSE [groups |-> Append(acc.groups, <<i>>),
        open |-> SingleWave(ls[i]) /\ Members(ls[i]) <= cap, sum |-> Members(ls[i])]

Join(ls, cap, acc, i) ==
  IF acc.open /\ SingleWave(ls[i]) /\ acc.sum + Members(ls[i]) <= cap
  THEN [groups |-> Front(acc.groups) \o <<Append(Last(acc.groups), i)>>,
        open |-> TRUE, sum |-> acc.sum + Members(ls[i])]
  ELSE [groups |-> Append(acc.groups, <<i>>),
        open |-> SingleWave(ls[i]) /\ Members(ls[i]) <= cap, sum |-> Members(ls[i])]

Groups(ls, cap) ==
  IF cap = 0 THEN [i \in 1..Len(ls) |-> <<i>>]
  ELSE LET joined[i \in 0..Len(ls)] ==
             IF i = 0 THEN [groups |-> <<>>, open |-> FALSE, sum |-> 0]
             ELSE Join(ls, cap, joined[i - 1], i)
       IN  joined[Len(ls)].groups

-----------------------------------------------------------------------------
(* The export. *)

ExportInit ==
  /\ run \in Exports
  /\ reserved = 0
  /\ granted = [None EXCEPT !["encode"] = run.held]
  /\ least = [None EXCEPT !["encode"] = run.held]
  /\ plan = <<>> /\ group = <<>> /\ next = 1 /\ phase = "plan"

\* check_levels_fit: a tile that cannot be held alone refuses the export.
Refused ==
  /\ run.member > 0 /\ run.machine # Unknown
  /\ \E i \in DOMAIN run.levels :
       Sat(Densest(run.levels[i]) * run.member) > run.machine

\* Zooms planned later are planned from a copy taken here.
Plan ==
  /\ phase = "plan"
  /\ plan' = [l \in 1..Len(run.levels) |->
                LET parts == Partitions(run.levels[l])
                IN  [parts |-> parts, wave |-> Wave(parts)]]
  /\ group' = Groups(plan', GroupCap)
  /\ phase' = IF Refused THEN "failed" ELSE "store"
  /\ UNCHANGED <<run, ledger, least, next>>

\* Granted whole, under every profile: later grants see them.
GrantStore ==
  /\ phase = "store"
  /\ Fit("store", run.store, 1, 1, 1)
  /\ phase' = "gzip"
  /\ UNCHANGED <<run, reserved, plan, group, next>>

GrantGzip ==
  /\ phase = "gzip"
  /\ Fit("gzip", run.slice, run.slices, run.slices, run.slices)
  /\ phase' = IF run.fill /\ plan # <<>> THEN "fill" ELSE "groups"
  /\ UNCHANGED <<run, reserved, plan, group, next>>

\* The coverage fill's workspace, before the first level.
GrantFill ==
  /\ phase = "fill"
  /\ Fit("fill", 1, run.fillWant, run.fillFloor, run.fillFloor)
  /\ phase' = "filling"
  /\ UNCHANGED <<run, reserved, plan, group, next>>

\* Returned whether the fill was built or failed.
EndFill ==
  /\ phase = "filling"
  /\ Release({"fill"})
  /\ \E p \in {"groups", "failed"} : phase' = p
  /\ UNCHANGED <<run, reserved, plan, group, next>>

Waves(l) ==
  [w \in 1..CeilDiv(Len(l.parts), l.wave) |->
     SubSeq(l.parts, (w - 1) * l.wave + 1, Least(w * l.wave, Len(l.parts)))]
WidestWave(l) == Densest([w \in DOMAIN Waves(l) |-> Total(Waves(l)[w])])

\* A level drawn in several waves, without a store for all levels, has its own.
OwnStore(g) == ~run.single /\ Len(g) = 1 /\ ~SingleWave(plan[g[1]])

\* Both grants of level_read_backing: the widest wave, which is not negotiated,
\* then of the level's members what is left for them, never less than one.
GrantLevel ==
  /\ phase = "groups" /\ next <= Len(group)
  /\ OwnStore(group[next])
  /\ LET l == plan[group[next][1]]
         wave == WidestWave(l) * run.member
         low == IF ~run.auto \/ l.wave = 1 THEN wave ELSE 0
         after == <<reserved, [granted EXCEPT !["wave"] = Sat(wave)]>>
         units == CASE run.profile = "speed" -> Members(l)
                    [] run.profile = "auto" ->
                         Least(Affordable(after, "level", run.member), Members(l))
                    [] run.profile = "bounded" -> 0
     IN  IF run.member = 0 \/ run.limit = Unknown THEN UNCHANGED <<granted, least>>
         ELSE /\ granted' = [after[2] EXCEPT !["level"] = Sat(units * run.member)]
              /\ least' = [least EXCEPT !["wave"] = low, !["level"] = run.member]
  /\ phase' = "draining"
  /\ UNCHANGED <<run, reserved, plan, group, next>>

\* A level's store is filled and drained, or fails with its grants held.
EndLevel ==
  /\ phase = "draining"
  /\ \/ Release({"wave", "level"}) /\ next' = next + 1 /\ phase' = "groups"
     \/ phase' = "failed" /\ UNCHANGED <<granted, least, next>>
  /\ UNCHANGED <<run, reserved, plan, group>>

\* Any other group takes no grant.
DrawGroup ==
  /\ phase = "groups" /\ next <= Len(group)
  /\ ~OwnStore(group[next])
  /\ \/ next' = next + 1 /\ UNCHANGED phase
     \/ phase' = "failed" /\ UNCHANGED next
  /\ UNCHANGED <<run, ledger, least, plan, group>>

Finish ==
  /\ phase = "groups" /\ next > Len(group)
  /\ Release({"store", "gzip"})
  /\ phase' = "done"
  /\ UNCHANGED <<run, reserved, plan, group, next>>

ExportNext ==
  \/ Plan \/ GrantStore \/ GrantGzip \/ GrantFill \/ EndFill
  \/ GrantLevel \/ EndLevel \/ DrawGroup \/ Finish

ExportSpec == ExportInit /\ [][ExportNext]_exportVars

-----------------------------------------------------------------------------
ExportTypeOK ==
  /\ LedgerTypeOK /\ run \in Exports
  /\ plan \in Seq([parts : Seq(Nat \ {0}), wave : Nat \ {0}])
  /\ group \in Seq(Seq(DOMAIN plan)) /\ next \in 1..Len(group) + 1
  /\ phase \in {"plan", "store", "gzip", "fill", "filling", "groups", "draining",
             "done", "failed"}

(***************************************************************************)
(* What a group holds at once, all its members or the widest wave of its   *)
(* one level, was affordable as the export found the ledger, unless it is  *)
(* a single partition or the user gave the width.                          *)
(***************************************************************************)
HeldAtOnce(g) ==
  IF Len(g) = 1 THEN WidestWave(plan[g[1]])
  ELSE Total([i \in DOMAIN g |-> Members(plan[g[i]])])

OnePartition(g) ==
  \/ Len(g) = 1 /\ plan[g[1]].wave = 1
  \/ Total([i \in DOMAIN g |-> Len(plan[g[i]].parts)]) = 1

PlannedFits ==
  phase = "groups" /\ run.auto /\ run.member > 0 /\ run.profile # "speed" =>
    \A i \in DOMAIN group :
      \/ OnePartition(group[i])
      \/ HeldAtOnce(group[i]) * run.member <= Share("wave", Minus(Base(0), run.held))
=============================================================================
