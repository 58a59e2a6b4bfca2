---------------------------- MODULE DensityBudget ----------------------------
(***************************************************************************)
(* overview/assign.rs, apply_density_budget: from coarse to fine, a level  *)
(* admits the features that survive there as long as its budget lasts,     *)
(* shared among neighbourhoods; what is not admitted is deferred to a      *)
(* finer level, and the finest admits all.                                 *)
(*                                                                         *)
(* Shares are exact fractions here, not floats; the weight that a          *)
(* neighbourhood's population has is a constant.                           *)
(***************************************************************************)
EXTENDS FeatureTable, Functions

CONSTANTS
  DropRate,     \* budget.drop_rate, a whole number here
  MinDensity,   \* MIN_DENSITY_LEVEL_FEATURES
  SuperFactor,  \* SUPERCELL_GSD_FACTOR
  Weight        \* population^(1/gamma), in some unit

\* What a budget that is not off has.  A weight grows slower than what it
\* weighs.
BudgetAssumption ==
  /\ DropRate \in Nat /\ DropRate > 1 /\ MinDensity \in Nat \ {0}
  /\ SuperFactor \in Nat \ {0}
  /\ \A c \in Configs : c.density \in BOOLEAN /\ c.budgeted \subseteq Kinds
  /\ \A i \in 1..RowCount : Weight[i] \in Nat \ {0}
  /\ \A i, j \in 1..RowCount :
       i <= j => Weight[i] <= Weight[j] /\ Weight[i] * j >= Weight[j] * i

VARIABLES
  turn,        \* the level that admits next
  admitted,    \* the features admitted
  admittedAt   \* at which level

budgetVars == <<turn, admitted, admittedAt>>

-----------------------------------------------------------------------------

Budgeted == {p \in Positions : row[p].kind \in config.budgeted}
Off      == ~config.density \/ Finest = 0 \/ Budgeted = {}

\* DropRate, to the power of the levels that are finer.
Rarity ==
  LET power[k \in 0..Finest] == IF k = 0 THEN 1 ELSE DropRate * power[k - 1]
  IN  [l \in 0..Finest |-> power[Finest - l]]

\* What a level may hold, of the features that are budgeted: a fraction for
\* each level up from the finest, rounded half up.
BudgetOf(l) ==
  LET all     == Cardinality(Budgeted)
      part    == Rarity[l]
      rounded == (2 * all + part) \div (2 * part)
  IN  IF l = Finest THEN all ELSE IF rounded < MinDensity THEN MinDensity ELSE rounded

\* The n best of a set.
BestOf(S, n) == {p \in S : Cardinality({q \in S : q # p /\ Better(q, p)}) < n}

\* water_fill, of n units over cells of some populations.  Of these cells some
\* are full; what is left of the units is for the others, by their weight.
Rest(pops, n, full) == n - SumFunctionOnSet(pops, full)
Pull(pops, full) ==
  SumFunctionOnSet([c \in DOMAIN pops |-> Weight[pops[c]]], DOMAIN pops \ full)

\* A cell whose share is its population or more is full.
Filled(pops, n, full) ==
  full \cup {c \in DOMAIN pops \ full :
               /\ Rest(pops, n, full) > 0
               /\ Rest(pops, n, full) * Weight[pops[c]] >= pops[c] * Pull(pops, full)}

\* The rest is shared again until no other cell is.
Full(pops, n) ==
  LET rounds == Cardinality(DOMAIN pops)
      after[k \in 0..rounds] == IF k = 0 THEN {} ELSE Filled(pops, n, after[k - 1])
  IN  after[rounds]

\* Shares of rest are rounded down, and what that leaves over goes to the
\* largest remainders.
Portions(share, pull, rest) ==
  LET whole == [c \in DOMAIN share |-> share[c] \div pull]
      over  == [c \in DOMAIN share |-> share[c] % pull]
      left  == rest - SumFunctionOnSet(whole, DOMAIN share)
      Before(c) == {d \in DOMAIN share : over[d] > over[c] \/ (over[d] = over[c] /\ d < c)}
  IN  [c \in DOMAIN share |-> whole[c] + IF Cardinality(Before(c)) < left THEN 1 ELSE 0]

WaterFill(pops, n) ==
  LET full == Full(pops, n)
      rest == Rest(pops, n, full)
      part == Portions([c \in DOMAIN pops \ full |-> rest * Weight[pops[c]]],
                       Pull(pops, full), rest)
  IN  IF n >= SumFunctionOnSet(pops, DOMAIN pops) THEN pops
      ELSE [c \in DOMAIN pops |-> IF c \in full THEN pops[c] ELSE part[c]]

\* One for all where a level has no grid.
SuperCell(l, p) == IF Gsd[l] = 0 THEN 0 ELSE row[p].at \div (Gsd[l] * SuperFactor)

\* Mutant: one cut over the whole level, wherever the features are.
Survivors_Anywhere(cands, n, l) == BestOf(cands, n)

\* select_budget_survivors
Survivors(cands, n, l) ==
  LET Of(c) == {p \in cands : SuperCell(l, p) = c}
      pops  == [c \in {SuperCell(l, p) : p \in cands} |-> Cardinality(Of(c))]
      share == WaterFill(pops, n)
  IN  UNION {BestOf(Of(c), share[c]) : c \in DOMAIN pops}

-----------------------------------------------------------------------------

BudgetInit ==
  /\ turn = 0 /\ admitted = {}
  /\ admittedAt = [p \in Positions |-> Finest]

\* All if they fit, else as many as there is room for.
Chosen(l, cands) ==
  LET kept == Cardinality(admitted)
  IN  IF l = Finest \/ kept + Cardinality(cands) <= BudgetOf(l) THEN cands
      ELSE IF BudgetOf(l) <= kept THEN {}
      ELSE Survivors(cands, BudgetOf(l) - kept, l)

\* One level of the fold.
AdmitLevel ==
  /\ ~Off /\ turn <= Finest
  /\ LET cands  == {p \in Budgeted \ admitted : minLevel[p] <= turn}
         chosen == Chosen(turn, cands)
     IN /\ admitted' = admitted \cup chosen
        /\ admittedAt' = [p \in Positions |-> IF p \in chosen THEN turn
                                                              ELSE admittedAt[p]]
  /\ turn' = turn + 1

Thinned  == Off \/ turn > Finest
Level(p) == IF Off \/ p \notin Budgeted THEN minLevel[p] ELSE admittedAt[p]

-----------------------------------------------------------------------------
(* Properties *)

\* Every variable holds a value of its kind.
BudgetTypeOK ==
  /\ turn \in 0..(Finest + 1) /\ admitted \subseteq Budgeted
  /\ admittedAt \in [Positions -> 0..Finest]

Held(l)     == {p \in Budgeted : Level(p) <= l}
Deferred(l) == {p \in Budgeted : minLevel[p] <= l /\ Level(p) > l}

\* A neighbourhood's candidates of a level, and those it admitted.
Wanting(l, p) == {q \in Budgeted : /\ minLevel[q] <= l /\ Level(q) >= l
                                  /\ SuperCell(l, q) = SuperCell(l, p)}
Given(l, p)   == {q \in Wanting(l, p) : Level(q) = l}

\* The budget only defers, and only what it is for.  A coarse level holds no
\* more than its budget, and exactly that if it defers anything.  In a
\* neighbourhood no feature is admitted before a better one that is deferred
\* there; and no neighbourhood is given more than a more populous one, but
\* for the one that rounding gives.
BudgetHolds == Thinned /\ ~Off =>
  /\ \A p \in Positions : /\ Level(p) >= minLevel[p]
                          /\ p \notin Budgeted => Level(p) = minLevel[p]
  /\ \A l \in Coarse :
       /\ Cardinality(Held(l)) <= BudgetOf(l)
       /\ Deferred(l) # {} => Cardinality(Held(l)) = BudgetOf(l)
       /\ \A p \in Deferred(l), q \in Budgeted :
            Level(q) = l /\ SuperCell(l, q) = SuperCell(l, p) => Better(q, p)
       /\ \A p, q \in Budgeted :
            Cardinality(Wanting(l, p)) <= Cardinality(Wanting(l, q)) =>
              Cardinality(Given(l, p)) <= Cardinality(Given(l, q)) + 1

=============================================================================
