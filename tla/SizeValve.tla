----------------------------- MODULE SizeValve -----------------------------
(***************************************************************************)
(* export.rs, coalesce_valve.rs: a tile over its size limit is made to     *)
(* fit.  The drop valve sheds members, the merge valve merges dense ones   *)
(* into the one kept before them and sheds what merged with nothing last;  *)
(* the coverage fill takes the room that is left.                          *)
(*                                                                         *)
(* A tile is the sequence of its members in file order, each [kind, gap,   *)
(* band, size]: its squared distance from the row before, its level band,  *)
(* its vertices.  A feature of the tile is the set of members drawn as     *)
(* one, the first of them the target.  The bytes of an encode are the      *)
(* encoder's: each gives any fit, the limit over the size in tenths, 10    *)
(* when the tile fits.                                                     *)
(***************************************************************************)
EXTENDS Integers, Sequences, FiniteSets, FiniteSetsExt

CONSTANTS
  TilesIn,         \* the tiles there may be
  Fills,           \* the numbers of fill features a tile may have
  Fits,            \* the fits an encode may have
  NoGap,           \* the gap of a row without a predecessor
  MaxDropPasses,   \* encodes a valve may take to drop
  MaxFillPasses    \* encodes the fill may take

\* What a row gives a tile to draw: a clip keeps one vertex at least.
Member == [kind : {"point", "line", "polygon"}, gap : Nat, band : Nat,
           size : Nat \ {0}]

ASSUME ValveAssumption ==
  /\ TilesIn \subseteq Seq(Member) /\ <<>> \notin TilesIn
  /\ Fills \subseteq Nat
  /\ Fits \subseteq 1..10 /\ 10 \in Fits
  /\ {NoGap, MaxDropPasses, MaxFillPasses} \subseteq Nat

VARIABLES
  tile, valve, fill,   \* the call
  phase,        \* "drop", "merge", "raise", "shed", "fill" or "done"
  feats,     \* the features last encoded
  fit,       \* of that encode
  prevFit,   \* of the pass before it, 0 before the second
  stalls,    \* slow passes in a row, counted to two
  share,     \* keep_fraction, in millionths
  mingap,    \* gaps below it merge
  keep,      \* how many are to be kept
  passes,    \* encodes of the valve, counted to MaxDropPasses
  sheds,     \* those of the drop fallback
  tally,     \* [merged, dropped], as reported
  filled,    \* fill features drawn
  fillPass   \* encodes with fill

valveVars == <<tile, valve, fill, phase, feats, fit, prevFit, stalls, share, mingap,
          keep, passes, sheds, tally, filled, fillPass>>
call == <<tile, valve, fill>>

One == 1000000      \* the whole, in millionths
Ids == DOMAIN tile   \* the members, by place in the file
Whole == {{i} : i \in Ids}
SizeOf(f) == MapThenSumSet(LAMBDA i : tile[i].size, f)

-----------------------------------------------------------------------------
(* Choosing *)

Clamp(n, lo, hi) == Max({lo, Min({n, hi})})

\* select_kept_members: the largest, or an even stride of points.
Kept(fs, count) ==
  LET n == Cardinality(fs)
      k == Clamp(count, 1, n)
      At(f) == Cardinality({g \in fs : Min(g) < Min(f)})
      Before(g, f) == \/ SizeOf(g) > SizeOf(f)
                      \/ SizeOf(g) = SizeOf(f) /\ Min(g) < Min(f)
  IN IF \A f \in fs : SizeOf(f) <= 1
       THEN {f \in fs : \E i \in 0..(k - 1) : At(f) = (i * n) \div k}
       ELSE {f \in fs : Cardinality({g \in fs : Before(g, f)}) < k}

-----------------------------------------------------------------------------
(* Merging *)

MayMerge(m) == m.kind \in {"line", "polygon"}

\* Mutant: members merge across bands.
Alike_AnyBand(m, n) == MayMerge(m) /\ m.kind = n.kind

\* Members that may be drawn as one.
Alike(m, n) == MayMerge(m) /\ m.kind = n.kind /\ m.band = n.band

\* coalesce_members: a member whose gap is below g joins the last one kept
\* of its kind and band.  The first of a kind and band is always kept.
TargetsAt(g) ==
  {i \in Ids : ~ /\ tile[i].gap < g
                 /\ \E j \in 1..(i - 1) : Alike(tile[j], tile[i])}
Coalesced(g) ==
  LET TargetOf(i) == IF i \in TargetsAt(g) THEN i
                     ELSE Max({t \in TargetsAt(g) : t < i
                                 /\ Alike(tile[t], tile[i])})
  IN {{i \in Ids : TargetOf(i) = t} : t \in TargetsAt(g)}

\* mergeable_gaps.
Gapped == {i \in Ids : MayMerge(tile[i]) /\ tile[i].gap # NoGap}

\* Mutant: every gap is a candidate, those that merge already too.
NextMingap_AnyGap(s, current) ==
  LET ix == ((Cardinality(Gapped) - 1) * (One - s)) \div One
      at == {g \in {tile[i].gap : i \in Gapped} :
               Cardinality({i \in Gapped : tile[i].gap <= g}) > ix}
  IN IF at = {} THEN 0 ELSE Min(at) + 1

\* next_mingap: one above the gap at the quantile, or above the next that
\* does not merge already; 0 when there is none.
NextMingap(s, current) ==
  LET ix == ((Cardinality(Gapped) - 1) * (One - s)) \div One
      at == {g \in {tile[i].gap : i \in Gapped} :
               /\ g >= current
               /\ Cardinality({i \in Gapped : tile[i].gap <= g}) > ix}
  IN IF at = {} THEN 0 ELSE Min(at) + 1

\* stalled: no better than before, or more than four passes to go at the
\* rate of the last.
Stalled(prev, now) == now <= prev \/ now^5 < 10 * prev^4

-----------------------------------------------------------------------------
(* The call *)

\* encode_tile: the drop valve's, and every tile of points.
Drops == valve = "drop" \/ \A i \in Ids : tile[i].size <= 1

ValveInit ==
  /\ tile \in TilesIn /\ fill \in Fills
  /\ valve \in {"drop", "merge"}
  /\ phase = IF Drops THEN "drop" ELSE "merge"
  /\ feats = Whole
  /\ fit = 0 /\ prevFit = 0 /\ stalls = 0 /\ share = One /\ mingap = 0
  /\ keep = Len(tile) /\ passes = 0 /\ sheds = 0
  /\ tally = [merged |-> 0, dropped |-> 0]
  /\ filled = 0 /\ fillPass = 0

Over(f) == f < 10
Counted(n, bound) == Min({n + 1, bound})

\* The valve is through: the fill is next, if it may be drawn.
Fitted(f) ==
  /\ phase' = IF fill > 0 /\ ~Over(f) THEN "fill" ELSE "done"
  /\ keep' = fill

\* drop_to_fit: the members as they are, then ever fewer.
Drop ==
  /\ phase = "drop"
  /\ passes' = Counted(passes, MaxDropPasses)
  /\ LET next == Clamp((keep * fit) \div 10, 1, Max({keep - 1, 1}))
         kept == IF passes = 0 THEN Whole ELSE Kept(Whole, next)
     IN \E f \in Fits :
          /\ fit' = f
          /\ feats' = kept
          /\ tally' = [tally EXCEPT !.dropped = Len(tile) - Cardinality(kept)]
          /\ IF Over(f) /\ Cardinality(kept) > 1 /\ passes' < MaxDropPasses
               THEN phase' = phase /\ keep' = Cardinality(kept)
               ELSE Fitted(f)
  /\ UNCHANGED <<call, prevFit, stalls, share, mingap, sheds, filled, fillPass>>

\* merge_to_fit: a pass at the threshold.
Merge ==
  /\ phase = "merge"
  /\ passes' = Counted(passes, MaxDropPasses)
  /\ feats' = Coalesced(mingap)
  /\ tally' = [merged |-> Len(tile) - Cardinality(feats'), dropped |-> 0]
  /\ \E f \in Fits :
       /\ fit' = f
       /\ IF Over(f) /\ Cardinality(feats') > 1
            THEN phase' = "raise" /\ keep' = keep
            ELSE Fitted(f)
  /\ UNCHANGED <<call, prevFit, stalls, share, mingap, sheds, filled, fillPass>>

Merged(fs) == {f \in fs : Cardinality(f) > 1}
Unmerged(fs) == {f \in fs : Cardinality(f) = 1}

\* A higher threshold; all that merges at once after two slow passes.
Raise ==
  /\ phase = "raise"
  /\ stalls' = IF prevFit > 0 /\ Stalled(prevFit, fit) THEN Counted(stalls, 2)
               ELSE 0
  /\ prevFit' = fit
  /\ share' = IF stalls' >= 2 THEN 0
              ELSE Min({(share * fit * 8) \div 100, (8 * One) \div 10})
  /\ LET next == NextMingap(share', mingap)
     IN /\ mingap' = IF next = 0 THEN mingap ELSE next
        /\ phase' = IF next > 0 THEN "merge"
                    ELSE IF Unmerged(feats) = {} THEN "done" ELSE "shed"
        /\ keep' = Cardinality(Unmerged(feats))
  /\ UNCHANGED <<call, feats, fit, passes, sheds, tally, filled, fillPass>>

\* Nothing more merges: the unmerged are shed, the smallest first.
Shed ==
  /\ phase = "shed"
  /\ LET all == Coalesced(mingap)
         next == Min({(keep * fit) \div 10, keep - 1})
     IN \E f \in Fits :
          /\ fit' = f
          /\ feats' = Merged(all) \cup Kept(Unmerged(all), next)
          /\ passes' = Counted(passes, MaxDropPasses) /\ sheds' = sheds + 1
          /\ tally' = [tally EXCEPT !.dropped = Cardinality(all)
                                                  - Cardinality(feats')]
          /\ IF Over(f) /\ next > 0 /\ sheds' < MaxDropPasses
               THEN phase' = phase /\ keep' = next
               ELSE Fitted(f)
  /\ UNCHANGED <<call, prevFit, stalls, share, mingap, filled, fillPass>>

\* Mutant: the last encode with fill is the one written.
Fill_KeepsLast ==
  /\ phase = "fill"
  /\ fillPass' = fillPass + 1
  /\ filled' = keep
  /\ \E f \in Fits, next \in 0..(keep - 1) :
       /\ fit' = f
       /\ keep' = next
       /\ phase' = IF Over(f) /\ next > 0 /\ fillPass' < MaxFillPasses
                THEN phase ELSE "done"
  /\ UNCHANGED <<call, feats, prevFit, stalls, share, mingap, passes, sheds,
                 tally>>

\* with_fill: the largest fill features that fit, fewer with each encode,
\* and the tile as it was when none do.
Fill ==
  /\ phase = "fill"
  /\ fillPass' = fillPass + 1
  /\ \E f \in Fits, next \in 0..(keep - 1) :
       /\ phase' = IF Over(f) /\ next > 0 /\ fillPass' < MaxFillPasses
                THEN phase ELSE "done"
       /\ keep' = next
       /\ filled' = IF Over(f) THEN 0 ELSE keep
  /\ UNCHANGED <<call, feats, fit, prevFit, stalls, share, mingap, passes,
                 sheds, tally>>

ValveNext == Drop \/ Merge \/ Raise \/ Shed \/ Fill

ValveSpec == ValveInit /\ [][ValveNext]_valveVars /\ WF_valveVars(ValveNext)

-----------------------------------------------------------------------------
(* Properties *)

\* Every variable holds a value of its kind.
ValveType ==
  /\ phase \in {"drop", "merge", "raise", "shed", "fill", "done"}
  /\ feats \subseteq SUBSET Ids
  /\ fit \in Fits \cup {0} /\ prevFit \in Fits \cup {0}
  /\ share \in 0..One /\ mingap \in Nat /\ stalls \in Nat
  /\ {keep, passes, sheds, fillPass, filled} \subseteq Nat
  /\ tally \in [merged : Nat, dropped : Nat]

\* merge_to_fit, drop_to_fit: what the valve writes draws each member once,
\* or reports it dropped; members drawn as one are of one kind and band with
\* no other target of theirs between; what was merged is never dropped, nor
\* is an unmerged member kept where a larger one is not.
NothingVanishes ==
  phase = "done" =>
    LET drawn == UNION feats
        dropped == Ids \ drawn
    IN /\ feats # {} /\ {} \notin feats
       /\ \A f, g \in feats : f # g => f \cap g = {}
       /\ Cardinality(dropped) = tally.dropped
       /\ Cardinality(drawn) - Cardinality(feats) = tally.merged
       /\ \A f \in feats : \A m \in f \ {Min(f)} :
            LET first == tile[Min(f)]
            IN /\ MayMerge(first) /\ first.kind = tile[m].kind
               /\ first.band = tile[m].band
               /\ ~\E g \in feats : Min(g) \in Min(f)+1 .. m
                                    /\ Alike(tile[Min(g)], tile[m])
       /\ \A d \in dropped : \A f \in Unmerged(feats) :
            \/ tile[d].size <= SizeOf(f)
            \/ \A i \in Ids : tile[i].size <= 1

\* merge_to_fit, drop_to_fit, with_fill: a tile is written over its limit
\* only without fill, and when it has one feature, or the passes of dropping
\* that are allowed have been used, or every gap has merged and at most one
\* feature has not, or the sheds that are allowed have been used.
LastResort ==
  phase = "done" /\ Over(fit) =>
    /\ filled = 0
    /\ \/ Cardinality(feats) = 1
       \/ Drops /\ passes >= MaxDropPasses
       \/ /\ ~Drops
          /\ \A i \in Gapped : tile[i].gap < mingap
          /\ Cardinality(Unmerged(feats)) <= 1 \/ sheds >= MaxDropPasses

\* Each loop ends, however sizes move from encode to encode: the threshold
\* rises over finitely many gaps, and what is kept shrinks.
Finishes == <>(phase = "done")

=============================================================================
