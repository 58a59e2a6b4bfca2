---------------------------- MODULE ConvertPlan ----------------------------
(***************************************************************************)
(* plan_state.rs: the convert plan the coarse job of a sharded build       *)
(* saves, what binds it to a run, and how a data shard re-addresses its    *)
(* tables, which are indexed by position in the stream of rows read.       *)
(*                                                                         *)
(* An input is a sequence of parts [stamp, groups]: the stamp stands for   *)
(* path, size, modification time and entity tag, a group is [rows, box],   *)
(* its box None without statistics.  A row is [cell, level, carries], its  *)
(* level, by options, the coarsest zoom that shows it: what pass 1 decides *)
(* of the whole input.  A selection is None, every row group, or for each  *)
(* part the set of those selected.                                         *)
(***************************************************************************)
EXTENDS Integers, FiniteSets, FiniteSetsExt, SequencesExt

CONSTANTS
  None,
  Unassigned      \* the level of a row that no level shows

-----------------------------------------------------------------------------
(* The rows a run reads *)

GroupsOf(input, p) == DOMAIN input[p].groups

Selected(input, sel, p) == IF sel = None THEN GroupsOf(input, p) ELSE sel[p]

\* All row groups, parts and groups ascending, and whether a selection has one.
Groups(input) ==
  FlattenSeq([p \in DOMAIN input |-> [g \in GroupsOf(input, p) |-> <<p, g>>]])
IsRead(input, sel, at) == at[2] \in Selected(input, sel, at[1])

GroupRows(input, at) == Len(input[at[1]].groups[at[2]].rows)

\* The rows of a selection, each <<part, group, row>>.
Stream(input, sel) ==
  LET gs == Groups(input)
  IN FlattenSeq([k \in DOMAIN gs |->
       IF IsRead(input, sel, gs[k])
         THEN [i \in 1..GroupRows(input, gs[k]) |-> <<gs[k][1], gs[k][2], i>>]
         ELSE <<>>])

Row(input, at) == input[at[1]].groups[at[2]].rows[at[3]]

Intersected(input, s1, s2) ==
  CASE s1 = None -> s2
    [] s2 = None -> s1
    [] OTHER -> [p \in DOMAIN input |-> s1[p] \cap s2[p]]

-----------------------------------------------------------------------------
(* The fingerprint *)

PartRows(input, p) ==
  MapThenSumSet(LAMBDA g : GroupRows(input, <<p, g>>), GroupsOf(input, p))

\* What a shard plan records of an input.
Footers(input) == [p \in DOMAIN input |->
                     [rows |-> PartRows(input, p),
                      groups |-> Cardinality(GroupsOf(input, p))]]

Stamps(input) == [p \in DOMAIN input |-> input[p].stamp]

\* What a convert plan records of a run.
Fingerprint(input, sel, opts, cut) ==
  [opts |-> opts, cut |-> cut, footers |-> Footers(input),
   stamps |-> Stamps(input), sel |-> sel]

\* selection_excess finds nothing.
WithinSelection(saved, now, footers) ==
  \A p \in DOMAIN footers :
    LET every == 1..footers[p].groups
        Of(sel) == IF sel = None THEN every ELSE sel[p]
    IN Of(now) \subseteq Of(saved)

\* Mutant: the cut is not part of the fingerprint.
Verified_AnyCut(saved, now, rule) ==
  /\ saved.opts = now.opts
  /\ saved.footers = now.footers /\ saved.stamps = now.stamps
  /\ \/ rule = "identical" /\ saved.sel = now.sel
     \/ rule = "subset"
          /\ WithinSelection(saved.sel, now.sel, saved.footers)

\* verify_with: everything equal, but that a data shard may read less.
Verified(saved, now, rule) ==
  /\ saved.opts = now.opts /\ saved.cut = now.cut
  /\ saved.footers = now.footers /\ saved.stamps = now.stamps
  /\ \/ rule = "identical" /\ saved.sel = now.sel
     \/ rule = "subset"
          /\ WithinSelection(saved.sel, now.sel, saved.footers)

-----------------------------------------------------------------------------
(* The tables *)

\* What pass 1 and the assignment leave of the rows read: each row's level
\* and kind, and, by row, what else is kept of the rows that carry a cluster
\* or a tiny polygon.
Assigned(input, sel, opts) ==
  LET rows == Stream(input, sel)
      R(k) == Row(input, rows[k])
  IN [levels |-> [k \in DOMAIN rows |-> R(k).level[opts]],
      side |-> {k \in DOMAIN rows : R(k).carries}]

SavedPlan(input, sel, opts, cut) ==
  LET table == Assigned(input, sel, opts)
  IN [fingerprint |-> Fingerprint(input, sel, opts, cut),
      levels |-> table.levels, side |-> table.side]

\* Mutant: runs are joined across the groups between them.
Walk_GapsJoined(input, saved, now, w, at) ==
  LET n == IF IsRead(input, saved, at) THEN GroupRows(input, at) ELSE 0
      kept == n > 0 /\ IsRead(input, now, at)
      top == Len(w.runs)
  IN [runs |-> CASE ~kept -> w.runs
                 [] kept /\ top > 0 ->
                      [w.runs EXCEPT ![top].len = @ + n]
                 [] OTHER -> Append(w.runs, [plan |-> w.plan,
                                             shard |-> w.shard, len |-> n]),
      plan |-> w.plan + n,
      shard |-> IF kept THEN w.shard + n ELSE w.shard]

\* One step of the walk, over the row groups the plan's run read, that finds
\* the runs of its stream the shard keeps.
Walk(input, saved, now, w, at) ==
  LET n == IF IsRead(input, saved, at) THEN GroupRows(input, at) ELSE 0
      kept == n > 0 /\ IsRead(input, now, at)
      top == Len(w.runs)
  IN [runs |-> CASE ~kept -> w.runs
                 [] kept /\ top > 0 /\ w.runs[top].plan + w.runs[top].len
                                         = w.plan ->
                      [w.runs EXCEPT ![top].len = @ + n]
                 [] OTHER -> Append(w.runs, [plan |-> w.plan,
                                             shard |-> w.shard, len |-> n]),
      plan |-> w.plan + n,
      shard |-> IF kept THEN w.shard + n ELSE w.shard]

Kept(input, saved, now) ==
  LET gs == Groups(input)
      walk[k \in 0..Len(gs)] ==
        IF k = 0 THEN [runs |-> <<>>, plan |-> 0, shard |-> 0]
        ELSE Walk(input, saved, now, walk[k - 1], gs[k])
  IN walk[Len(gs)]

\* A row-indexed table is cut down to the runs.
Compact(table, runs) ==
  FlattenSeq([r \in DOMAIN runs |->
                SubSeq(table, runs[r].plan + 1, runs[r].plan + runs[r].len)])

\* shard_row: where a row of the plan's stream is in the shard's, if it is.
ShardRows(runs, k) ==
  {runs[r].shard + (k - runs[r].plan) :
     r \in {s \in DOMAIN runs : /\ runs[s].plan < k
                                /\ k <= runs[s].plan + runs[s].len}}

\* rebase_plan_for_shard.
Rebased(plan, input, now) ==
  LET kept == Kept(input, plan.fingerprint.sel, now)
  IN IF kept.shard = kept.plan THEN plan
     ELSE [plan EXCEPT !.levels = Compact(@, kept.runs),
                       !.side = UNION {ShardRows(kept.runs, k) : k \in @}]

\* The plan covers the rows it was saved over, and, rebased, those the shard
\* will read.
RowsAgree(plan, input, now, rule) ==
  /\ rule = "subset" =>
       Len(plan.levels) = Kept(input, plan.fingerprint.sel, now).plan
  /\ LET table == IF rule = "subset" THEN Rebased(plan, input, now) ELSE plan
     IN Len(table.levels) = Len(Stream(input, now))

=============================================================================
