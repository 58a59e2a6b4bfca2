---------------------------- MODULE FeatureTable ----------------------------
(***************************************************************************)
(* The pass-1 feature table of overview/assign.rs, and what the stages     *)
(* that give a feature its level ask of a row: which of two is better, and *)
(* where a row falls in the grid of a level.                               *)
(*                                                                         *)
(* The two coordinates of a center are one here, on a line of integer      *)
(* units; a diagonal and a visibility gate are lengths in them.  The hash  *)
(* of an index is any number.                                              *)
(***************************************************************************)
EXTENDS Integers, FiniteSets

CONSTANTS
  RowCount,   \* rows of the table
  Finest,     \* the finest level; 0 is the coarsest
  Gsd,        \* per level, its ground sample distance in coordinate units
  Indices,    \* the identifiers a caller gives
  Hash,       \* stable_hash, of each
  Missing,    \* no sort key, no entry level
  Features,   \* the rows a table may have
  Configs     \* the options a conversion may have

Positions == 1..RowCount
Coarse    == 0..(Finest - 1)
Kinds     == {"point", "line", "polygon"}

ASSUME TableAssumption ==
  /\ RowCount \in Nat /\ Finest \in Nat
  /\ Gsd \in [0..Finest -> Nat]
  /\ Indices \subseteq Nat /\ Hash \in [Indices -> Nat]
  /\ Missing \notin Int
  /\ \A f \in Features :
       /\ f.index \in Indices /\ f.kind \in Kinds
       /\ f.at \in Int /\ f.diag \in Nat
       /\ f.key = Missing \/ f.key \in Int
       /\ f.entry = Missing \/ f.entry \in Nat
  /\ \A c \in Configs :
       /\ \A k \in Kinds : c.factor[k] \in Nat /\ c.gate[k] \in Nat
       /\ c.gate["point"] = 0
       /\ \A l \in 0..Finest : c.repr[l] \in {"geometry", "point", "square"}
       /\ c.descending \in BOOLEAN

VARIABLES
  row,      \* input: the table, per position [index, kind, at, diag, key, entry]
  config,   \* input: [factor, gate, repr, descending], and the budget's options
  minLevel  \* per position: the coarsest level that it has won so far

Input == <<row, config>>

-----------------------------------------------------------------------------
(* Priority *)

\* What is compared, first to last, and larger is better: a row with a key is
\* better than one without; then the key, in the direction asked for, the
\* diagonal, the hash, and the smaller index.
Priority(p) ==
  <<IF row[p].key = Missing THEN 0 ELSE 1,
    IF row[p].key = Missing THEN 0
    ELSE IF config.descending THEN row[p].key ELSE -row[p].key,
    row[p].diag, Hash[row[p].index], -row[p].index>>

\* The first component that differs decides.
Above(a, b) ==
  \E k \in 1..5 : a[k] > b[k] /\ \A j \in 1..5 : j < k => a[j] = b[j]

\* Priority::beats.  Neither of two rows with one index beats the other.
Beats(p, q) == Above(Priority(p), Priority(q))

\* priority_order: such twins are ordered by position.
Better(p, q) == Beats(p, q) \/ (~Beats(q, p) /\ p < q)

-----------------------------------------------------------------------------
(* place_feature *)

\* At a level of points a polygon is drawn as one, and gated and thinned so.
Effective(l, p) ==
  IF config.repr[l] = "point" /\ row[p].kind = "polygon" THEN "point"
                                                         ELSE row[p].kind

\* At a level of squares the small polygons have to be seen.
Gate(l, p) == IF config.repr[l] = "square" /\ row[p].kind = "polygon" THEN 0
              ELSE config.gate[Effective(l, p)] * Gsd[l]

\* The width of a cell, 0 where thinning is off.
Width(l, k) == Gsd[l] * config.factor[k]

Laddered(p)    == row[p].entry # Missing
Eligible(l, p) == ~Laddered(p) /\ row[p].diag >= Gate(l, p)
Unthinned(l, p) == config.factor[Effective(l, p)] = 0

\* Placement::Wins, and Placement::Cell; all else is skipped.
WinsAlways(l, p) == Eligible(l, p) /\ Unthinned(l, p)
Contests(l, p) == Eligible(l, p) /\ Width(l, Effective(l, p)) > 0

\* A cell belongs to the kind the row has, not to the one it is drawn as.
Cell(l, p) == <<row[p].kind, row[p].at \div Width(l, Effective(l, p))>>

Rivals(l, p, q) == Contests(l, p) /\ Contests(l, q) /\ Cell(l, p) = Cell(l, q)

=============================================================================
