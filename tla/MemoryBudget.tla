---------------------------- MODULE MemoryBudget ----------------------------
(***************************************************************************)
(* overview/memory.rs, MemoryBudget: one run's ledger of memory.  Every    *)
(* phase is granted units from what the phases before it left, and returns *)
(* them when it ends.  ConvertBudget and ExportBudget drive it.            *)
(*                                                                         *)
(* Bytes are small numbers.  A number past Top is Top, as u64 saturates.   *)
(* The ledger has a slot per grant; the three of MemoryPhase::ExportCollect*)
(* share one in the code, which holds their sum.                           *)
(***************************************************************************)
EXTENDS Integers

CONSTANTS
  Top,      \* the largest number of a word
  Fallback, \* FALLBACK_ALLOWANCE_BYTES
  Unknown   \* no memory limit was found

ASSUME LedgerAssumption ==
  /\ Top \in Nat \ {0} /\ Fallback \in 0..Top /\ Unknown \notin Nat

VARIABLES
  run,      \* input: the run, with its limit and profile
  reserved, \* bytes reserved for the spill's page cache
  granted,  \* bytes granted, per grant
  least     \* history: what each grant in force could not go below

ledger == <<reserved, granted>>

Least(a, b) == IF a <= b THEN a ELSE b
Most(a, b) == IF a >= b THEN a ELSE b
Sat(n) == Least(n, Top)
Minus(a, b) == Most(a - b, 0)
CeilDiv(a, b) == (a + b - 1) \div b

Grants == {"stage", "encode", "read", "compute", "fill", "store", "gzip", "wave", "level"}
None == [g \in Grants |-> 0]
Together(f) ==
  f["stage"] + f["encode"] + f["read"] + f["compute"] + f["fill"]
    + f["store"] + f["gzip"] + f["wave"] + f["level"]

LedgerInit == reserved = 0 /\ granted = None /\ least = None

-----------------------------------------------------------------------------
\* The allowance before any grant.
Base(r) ==
  IF run.limit = Unknown THEN Fallback ELSE (Minus(run.limit, r) * 6) \div 10

Remaining_Uncharged(l) == Base(l[1])

Remaining(l) == Minus(Base(l[1]), Sat(Together(l[2])))

\* A phase's share of an amount, rounded up.
Share(g, n) ==
  CASE g \in {"read", "compute"}                  -> CeilDiv(n, 10)
    [] g = "encode"                               -> CeilDiv(n, 4)
    [] g \in {"store", "gzip", "wave", "level"}   -> CeilDiv(n * 5, 6)
    [] g \in {"stage", "fill"}                     -> n

Affordable(l, g, price) ==
  IF run.profile = "speed" THEN Top
  ELSE Most(Share(g, Remaining(l)) \div Most(price, 1), 1)

\* `bounded` keeps the cap its phase had before there was a budget.
BoundedCap(g, want, floor) ==
  IF g \in {"stage", "read", "compute"} THEN want ELSE floor

Units(g, price, want, floor) ==
  LET most == CASE run.profile = "speed"   -> want
                [] run.profile = "auto"    -> Least(Affordable(ledger, g, price), want)
                [] run.profile = "bounded" ->
                     Least(Least(Affordable(ledger, g, price), want), BoundedCap(g, want, floor))
  IN  Most(most, floor)

\* fit: grant units and charge them; `low` is what it could not go below.
Fit(g, price, want, floor, low) ==
  /\ granted' = [granted EXCEPT ![g] = Sat(Units(g, price, want, floor) * price)]
  /\ least' = [least EXCEPT ![g] = low * price]

Release(gs) ==
  /\ granted' = [g \in Grants |-> IF g \in gs THEN 0 ELSE granted[g]]
  /\ least' = [g \in Grants |-> IF g \in gs THEN 0 ELSE least[g]]

Available == Minus(run.limit, Sat(reserved + Sat(Together(granted))))
ReserveUpTo(bytes) ==
  reserved' = reserved + IF run.limit = Unknown THEN 0 ELSE Least(Available, bytes)

-----------------------------------------------------------------------------
LedgerTypeOK ==
  reserved \in Nat /\ granted \in [Grants -> Nat] /\ least \in [Grants -> Nat]

(***************************************************************************)
(* Whatever is granted together stays within the allowance, but for what   *)
(* some phase cannot do without: one staging request, the fewest encodes,  *)
(* one window batch, a single reader with the shallowest queue; the member *)
(* store's buffer, the gzip cache, one partition.                          *)
(***************************************************************************)
WithinAllowance ==
  run.profile # "speed" => Together(granted) <= Base(reserved) + Together(least)
=============================================================================
