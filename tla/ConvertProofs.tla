--------------------------- MODULE ConvertProofs ---------------------------
(***************************************************************************)
(* Proofs about the decisions of a conversion and of an export.            *)
(*                                                                         *)
(* ConvertBudget, for every run and every limit: the copy of the ledger    *)
(* the reads are sized from is the ledger they are charged to, the closed  *)
(* form of the read shape is the largest that fits, and the phases in      *)
(* force stay within the allowance.                                        *)
(*                                                                         *)
(* ExportBudget, for all tiles and every limit: what a planned group holds *)
(* at once was affordable, and the grants stay within the allowance.  What *)
(* the fold over the zooms keeps is that every group is one level or has   *)
(* no more members than the cap (Joined).                                  *)
(*                                                                         *)
(* WinnerTables, for every table, every options, and every cut into waves, *)
(* blocks, chunks, shards and slices: each feature gets the level that one *)
(* thread would give it; each level keeps its budget and shares it fairly; *)
(* and each point is counted once, or what is said of it is true.  What    *)
(* the fold over the levels keeps is that every level it has passed is     *)
(* settled (BudgetInv): who is in is within the budget, who is not is not  *)
(* only where the budget is used up, and in no neighbourhood is a worse    *)
(* one in.  Most of the work is water_fill: that of the units it is given  *)
(* it uses all, that no cell gets more than it has, and none more than a   *)
(* more populous one but for the one of the rounding (WaterFills).         *)
(***************************************************************************)
EXTENDS ConvertBudget, ExportBudget, WinnerTables, SumProofs, SequenceTheorems

-----------------------------------------------------------------------------
(* The budget of a conversion *)

\* Arithmetic: what a quotient bounds, and products in order.
LEMMA QuotientBounds ==
  ASSUME NEW a \in Nat, NEW b \in Nat \ {0}
  PROVE  /\ a \div b \in Nat
         /\ (a \div b) * b <= a
         /\ a < ((a \div b) + 1) * b
OBVIOUS

LEMMA ProductMonotone ==
  ASSUME NEW a \in Nat, NEW b \in Nat, NEW c \in Nat, a <= b
  PROVE  a * c <= b * c /\ c * a <= c * b
OBVIOUS

LEMMA ProductNat ==
  ASSUME NEW a \in Nat, NEW b \in Nat
  PROVE  a * b \in Nat
OBVIOUS

\* A share is never more than what it is a share of.
LEMMA ShareBounded ==
  ASSUME NEW g \in Grants, NEW n \in Nat
  PROVE  Share(g, n) \in Nat /\ Share(g, n) <= n
BY DEF Share, CeilDiv, Grants

\* Whoever drives the ledger, a conversion or an export.
LEMMA LimitTyped ==
  ASSUME run \in Runs \cup Exports
  PROVE  /\ run.limit \in 0..Top \cup {Unknown}
         /\ run.profile \in {"bounded", "auto", "speed"}
<1>1. run \in RunType \/ run \in ExportType
  BY ConvertAssumption, ExportAssumption
<1>2. CASE run \in RunType
  <2>1. run.limit \in 0..Top \cup {Unknown}
    BY <1>2, Zenon DEF RunType
  <2>2. run.profile \in {"bounded", "auto", "speed"}
    BY <1>2, Zenon DEF RunType
  <2> QED  BY <2>1, <2>2
<1>3. CASE run \in ExportType
  <2>1. run.limit \in 0..Top \cup {Unknown}
    BY <1>3, Zenon DEF ExportType
  <2>2. run.profile \in {"bounded", "auto", "speed"}
    BY <1>3, Zenon DEF ExportType
  <2> QED  BY <2>1, <2>2
<1> QED  BY <1>1, <1>2, <1>3

LEMMA BaseBounded ==
  ASSUME run \in Runs \cup Exports, NEW r \in Nat
  PROVE  Base(r) \in Nat /\ Base(r) <= Top
<1>1. run.limit \in Nat \cup {Unknown} /\ (run.limit \in Nat => run.limit <= Top)
  BY LimitTyped, LedgerAssumption
<1>2. CASE run.limit = Unknown
  BY <1>2, LedgerAssumption DEF Base
<1>3. CASE run.limit \in Nat
  <2>1. Minus(run.limit, r) \in Nat /\ Minus(run.limit, r) <= Top
    BY <1>1, <1>3, LedgerAssumption DEF Minus, Most
  <2>2. run.limit # Unknown
    BY <1>3, LedgerAssumption
  <2> QED  BY <2>1, <2>2, LedgerAssumption DEF Base
<1> QED  BY <1>1, <1>2, <1>3

\* What is held and what remains are together within the allowance.
LEMMA RemainingBounded ==
  ASSUME run \in Runs \cup Exports, NEW r \in Nat, NEW f \in [Grants -> Nat]
  PROVE  /\ Together(f) \in Nat
         /\ Remaining(<<r, f>>) \in Nat
         /\ Remaining(<<r, f>>) <= Base(r)
         /\ Remaining(<<r, f>>) > 0 => Together(f) + Remaining(<<r, f>>) = Base(r)
<1>1. Together(f) \in Nat
  BY DEF Together, Grants
<1>2. Base(r) \in Nat /\ Base(r) <= Top
  BY BaseBounded
<1>3. Remaining(<<r, f>>) = Minus(Base(r), Sat(Together(f)))
  BY DEF Remaining
<1> HIDE DEF Together, Base
<1> QED  BY <1>1, <1>2, <1>3, LedgerAssumption DEF Minus, Most, Sat, Least

LEMMA AffordableBounded ==
  ASSUME run \in Runs \cup Exports, run.profile # "speed", NEW r \in Nat, NEW f \in [Grants -> Nat],
         NEW g \in Grants, NEW price \in Nat
  PROVE  /\ Affordable(<<r, f>>, g, price) \in Nat \ {0}
         /\ Affordable(<<r, f>>, g, price) > 1
              => /\ Affordable(<<r, f>>, g, price) * price <= Share(g, Remaining(<<r, f>>))
                 /\ Affordable(<<r, f>>, g, price) * price <= Remaining(<<r, f>>)
<1> DEFINE rem == Remaining(<<r, f>>)  share == Share(g, rem)  p == Most(price, 1)
<1>1. rem \in Nat
  BY RemainingBounded
<1>2. share \in Nat /\ share <= rem
  BY <1>1, ShareBounded
<1>3. p \in Nat \ {0} /\ price <= p
  BY DEF Most
<1>4. Affordable(<<r, f>>, g, price) = Most(share \div p, 1)
  BY DEF Affordable
<1> HIDE DEF rem, share, p
<1>5. share \div p \in Nat /\ (share \div p) * p <= share
  BY <1>2, <1>3, QuotientBounds
<1>6. (share \div p) * price <= (share \div p) * p
  BY <1>3, <1>5, ProductMonotone
<1>6a. (share \div p) * price \in Nat /\ (share \div p) * p \in Nat
  BY <1>3, <1>5, ProductNat
<1>7. (share \div p) * price <= share /\ (share \div p) * price <= rem
  BY <1>1, <1>2, <1>5, <1>6, <1>6a
<1> DEFINE q == share \div p
<1> HIDE DEF q
<1>8. q \in Nat /\ q * price <= share /\ q * price <= rem /\ Affordable(<<r, f>>, g, price) = Most(q, 1)
  BY <1>4, <1>5, <1>7 DEF q
<1>9. CASE q > 1
  <2>1. Most(q, 1) = q
    BY <1>8, <1>9 DEF Most
  <2> QED  BY <1>8, <1>9, <2>1 DEF rem, share
<1>10. CASE q <= 1
  BY <1>8, <1>10 DEF Most
<1> QED  BY <1>8, <1>9, <1>10

\* A grant is within what remains, but for its floor.
LEMMA UnitsBounded ==
  ASSUME run \in Runs \cup Exports, run.profile # "speed", reserved \in Nat, granted \in [Grants -> Nat],
         NEW g \in Grants, NEW price \in Nat, NEW want \in Nat, NEW floor \in Nat \ {0}
  PROVE  /\ Units(g, price, want, floor) \in Nat \ {0}
         /\ Units(g, price, want, floor) > floor
              => Units(g, price, want, floor) * price <= Remaining(ledger)
<1> DEFINE aff == Affordable(ledger, g, price)
           u == Units(g, price, want, floor)
<1>1. aff \in Nat \ {0} /\ (aff > 1 => aff * price <= Remaining(ledger))
  BY AffordableBounded DEF ledger
<1>2. run.profile \in {"auto", "bounded"}
  BY LimitTyped
<1>3. u \in Nat \ {0} /\ (u > floor => u <= aff)
  <2>1. CASE run.profile = "auto"
    <3>1. u = Most(Least(aff, want), floor)
      BY <2>1 DEF Units
    <3> HIDE DEF u, aff
    <3> QED  BY <3>1, <1>1 DEF Most, Least
  <2>2. CASE run.profile = "bounded"
    <3>1. u = Most(Least(Least(aff, want), BoundedCap(g, want, floor)), floor)
      BY <2>2 DEF Units
    <3>2. BoundedCap(g, want, floor) \in Nat
      BY DEF BoundedCap
    <3> HIDE DEF u, aff
    <3> QED  BY <3>1, <3>2, <1>1 DEF Most, Least
  <2> QED  BY <1>2, <2>1, <2>2
<1>4. Remaining(ledger) \in Nat
  BY RemainingBounded DEF ledger
<1> HIDE DEF u, aff
<1>5. ASSUME u > floor PROVE u * price <= Remaining(ledger)
  <2>1. u <= aff /\ aff > 1
    BY <1>1, <1>3, <1>5
  <2>2. u * price <= aff * price
    BY <1>1, <1>3, <2>1, ProductMonotone
  <2>3. u * price \in Nat /\ aff * price \in Nat
    BY <1>1, <1>3, ProductNat
  <2> QED  BY <1>1, <1>4, <2>1, <2>2, <2>3
<1> QED  BY <1>3, <1>5 DEF u

-----------------------------------------------------------------------------
(* The read shape. *)

LEMMA ClosedForm ==
  ASSUME NEW a \in Nat \ {0}, NEW m \in Nat \ {0}, NEW r \in Nat,
         NEW asked \in Nat \ {0}, NEW cap \in Nat, m <= cap,
         NEW w, w = Least(asked, Most(a \div (m + r), 1)),
         NEW d, d = Least(Most(Minus(a \div w, r), m), cap)
  PROVE  /\ w \in 1..asked /\ d \in m..cap
         /\ w > 1 => w * (d + r) <= a
         /\ d > m => w * (d + r) <= a
         /\ w < asked => ~((w + 1) * (m + r) <= a)
         /\ d < cap => ~(w * (d + 1 + r) <= a)
<1> DEFINE q == a \div (m + r)
<1>1. q \in Nat /\ q * (m + r) <= a /\ a < (q + 1) * (m + r)
  <2>1. m + r \in Nat \ {0}
    OBVIOUS
  <2> QED  BY <2>1, QuotientBounds
<1>2. w = Least(asked, Most(q, 1))
  OBVIOUS
<1> HIDE DEF q
<1>3. w \in 1..asked /\ (w > 1 => w <= q) /\ (w < asked => q <= w)
  BY <1>1, <1>2 DEF Least, Most
<1> DEFINE k == a \div w
<1>4. k \in Nat /\ k * w <= a /\ a < (k + 1) * w
  BY <1>3, QuotientBounds
<1>5. d = Least(Most(Minus(k, r), m), cap)
  OBVIOUS
<1> HIDE DEF k
<1>6. /\ d \in m..cap
      /\ d > m => d + r <= k
      /\ d < cap => k <= d + r
  <2>1. k \in Nat
    BY <1>4
  <2> QED  BY <1>5, <2>1 DEF Least, Most, Minus
<1>7. ASSUME d > m PROVE w * (d + r) <= a
  <2>1. (d + r) * w <= k * w
    BY <1>3, <1>4, <1>6, <1>7, ProductMonotone
  <2> QED  BY <1>3, <1>4, <1>6, <2>1
<1>8. ASSUME w > 1, d = m PROVE w * (d + r) <= a
  <2>1. w * (m + r) <= q * (m + r)
    BY <1>1, <1>3, <1>8, ProductMonotone
  <2>2. w * (m + r) \in Nat /\ q * (m + r) \in Nat
    BY <1>1, <1>3, ProductNat
  <2> QED  BY <1>1, <1>3, <1>8, <2>1, <2>2
<1>9. ASSUME w < asked PROVE ~((w + 1) * (m + r) <= a)
  <2>1. (q + 1) * (m + r) <= (w + 1) * (m + r)
    BY <1>1, <1>3, <1>9, ProductMonotone
  <2>2. (w + 1) * (m + r) \in Nat /\ (q + 1) * (m + r) \in Nat
    BY <1>1, <1>3, ProductNat
  <2> QED  BY <1>1, <2>1, <2>2
<1>10. ASSUME d < cap PROVE ~(w * (d + 1 + r) <= a)
  <2>1. (k + 1) * w <= (d + 1 + r) * w
    BY <1>3, <1>4, <1>6, <1>10, ProductMonotone
  <2>2. (k + 1) * w \in Nat /\ (d + 1 + r) * w \in Nat
    BY <1>3, <1>4, <1>6, ProductNat
  <2>3. w * (d + 1 + r) = (d + 1 + r) * w
    BY <1>3, <1>6
  <2> QED  BY <1>4, <2>1, <2>2, <2>3
<1>11. w > 1 => w * (d + r) <= a
  <2>1. d > m \/ d = m
    BY <1>6
  <2> QED  BY <2>1, <1>7, <1>8
<1> QED  BY <1>3, <1>6, <1>7, <1>9, <1>10, <1>11

Asked == Least(Most(run.workers, 1), MaxWorkers)

LEMMA ShapeLargest ==
  ASSUME run \in Runs, tuning \in Nat \X [Grants -> Nat],
         NEW w, w = Workers(tuning), NEW d, d = Depth(tuning)
  PROVE  /\ w \in 1..Asked /\ d \in MinDepth..DepthCap
         /\ w > 1 => Holds(w, d)
         /\ d > MinDepth => Holds(w, d)
         /\ w < Asked => ~Holds(w + 1, MinDepth)
         /\ d < DepthCap => ~Holds(w, d + 1)
<1> DEFINE a == ReadAffordable(tuning)
<1>1. run.batch \in Nat /\ run.reader \in Nat /\ run.workers \in Nat
      /\ run.profile \in {"bounded", "auto", "speed"}
  BY ConvertAssumption DEF RunType
<1>2. a \in Nat \ {0}
  <2>1. CASE run.profile = "speed"
    BY <2>1, LedgerAssumption DEF ReadAffordable, Affordable
  <2>2. CASE run.profile # "speed"
    <3>1. PICK r \in Nat, f \in [Grants -> Nat] : tuning = <<r, f>>
      OBVIOUS
    <3>2. "read" \in Grants
      BY DEF Grants
    <3> QED  BY <1>1, <2>2, <3>1, <3>2, AffordableBounded DEF ReadAffordable
  <2> QED  BY <2>1, <2>2
<1>3. Asked \in Nat \ {0}
  BY <1>1, LedgerAssumption, ConvertAssumption DEF Asked, Least, Most, MaxWorkers
<1>4. MinDepth \in Nat \ {0} /\ DepthCap \in Nat /\ MinDepth <= DepthCap
  BY ConvertAssumption DEF DepthCap
<1>5. w = Least(Asked, Most(a \div (MinDepth + run.reader), 1))
  BY DEF Workers, Asked
<1>6. d = Least(Most(Minus(a \div w, run.reader), MinDepth), DepthCap)
  BY DEF Depth
<1> DEFINE r == run.reader
<1>7. r \in Nat
  BY <1>1
<1> HIDE DEF a
<1> HIDE DEF r
<1>8. /\ w \in 1..Asked /\ d \in MinDepth..DepthCap
      /\ w > 1 => w * (d + r) <= a
      /\ d > MinDepth => w * (d + r) <= a
      /\ w < Asked => ~((w + 1) * (MinDepth + r) <= a)
      /\ d < DepthCap => ~(w * (d + 1 + r) <= a)
  BY <1>2, <1>3, <1>4, <1>5, <1>6, <1>7, ClosedForm DEF r
<1> QED  BY <1>8 DEF Holds, a, r

-----------------------------------------------------------------------------
(* The invariant: which slots are in use when, and by how much. *)

Charged(e, r, c) == [None EXCEPT !["encode"] = e, !["read"] = r, !["compute"] = c]

LEMMA SumHeld ==
  ASSUME NEW e \in Nat, NEW r \in Nat, NEW c \in Nat
  PROVE  Charged(e, r, c) \in [Grants -> Nat] /\ Together(Charged(e, r, c)) = e + r + c
BY DEF Charged, None, Together, Grants

LEMMA SumNone == None \in [Grants -> Nat] /\ Together(None) = 0
BY DEF None, Together, Grants

Sized == {"read", "window", "reading", "finest", "fwindow", "freading", "done"}

SlotsInUse ==
  /\ pc \in {"stage", "spill", "encode"} => granted = None /\ least = None
  /\ pc = "staged" => /\ granted = [None EXCEPT !["stage"] = granted["stage"]]
                      /\ least = [None EXCEPT !["stage"] = least["stage"]]
  /\ pc \in Sized =>
       /\ granted = Charged(granted["encode"], granted["read"], granted["compute"])
       /\ least = Charged(least["encode"], least["read"], least["compute"])
       /\ tuning = <<reserved, Charged(granted["encode"], 0, 0)>>
  /\ pc \in {"read", "finest", "done"} =>
       granted["read"] = 0 /\ least["read"] = 0
  /\ pc \in {"read", "finest", "done", "window", "fwindow"} =>
       granted["compute"] = 0 /\ least["compute"] = 0

WithinPieces ==
  run.profile # "speed" =>
    /\ pc = "staged" => granted["stage"] <= Base(reserved) + least["stage"]
    /\ pc \in Sized =>
         /\ granted["encode"] <= Base(reserved) + least["encode"]
         /\ granted["encode"] + granted["read"]
              <= Base(reserved) + least["encode"] + least["read"]
         /\ granted["encode"] + granted["read"] + granted["compute"]
              <= Base(reserved) + least["encode"] + least["read"] + least["compute"]

IInv == TypeOK /\ SlotsInUse /\ WithinPieces /\ ShapeIsLargest

LEMMA RunFields ==
  ASSUME run \in Runs
  PROVE  /\ run.profile \in {"bounded", "auto", "speed"}
         /\ run.spill \in Nat /\ run.stage \in Nat /\ run.staging \in Nat \ {0}
         /\ run.threads \in Nat \ {0} /\ run.encode \in Nat \ {0}
         /\ run.batch \in Nat \ {0} /\ run.reader \in Nat /\ run.workers \in Nat
         /\ run.channel \in Nat /\ run.window \in Nat \ {0}
         /\ run.windowPrice \in Nat \ {0}
         /\ run.limit \in Nat \cup {Unknown}
BY ConvertAssumption, LedgerAssumption DEF RunType

\* A step that fits one slot charges what the units cost, at most Top.
LEMMA FitCharges ==
  ASSUME run \in Runs \cup Exports, LedgerTypeOK, NEW g \in Grants, NEW price \in Nat,
         NEW want \in Nat, NEW floor \in Nat \ {0}, NEW low \in Nat,
         Fit(g, price, want, floor, low)
  PROVE  /\ granted' \in [Grants -> Nat] /\ least' \in [Grants -> Nat]
         /\ granted' = [granted EXCEPT ![g] = granted'[g]]
         /\ least' = [least EXCEPT ![g] = low * price]
         /\ low = floor /\ run.profile # "speed"
              => \/ granted'[g] <= low * price
                 \/ granted'[g] <= Remaining(ledger)
<1> DEFINE u == Units(g, price, want, floor)
<1>1. u \in Nat
  <2>1. run.profile \in {"bounded", "auto", "speed"}
    BY LimitTyped
  <2>2. CASE run.profile = "speed"
    BY <2>2 DEF Units, Most
  <2>3. CASE run.profile # "speed"
    BY <2>3, UnitsBounded DEF LedgerTypeOK
  <2> QED  BY <2>2, <2>3
<1>2. granted' = [granted EXCEPT ![g] = Sat(u * price)]
      /\ least' = [least EXCEPT ![g] = low * price]
  BY DEF Fit
<1>3. ASSUME run.profile # "speed", u > floor PROVE u * price <= Remaining(ledger)
  BY <1>3, UnitsBounded DEF LedgerTypeOK
<1> HIDE DEF u
<1>4. u * price \in Nat /\ low * price \in Nat
  BY <1>1, ProductNat
<1> DEFINE cost == u * price  lowest == low * price
<1>5. cost \in Nat /\ lowest \in Nat
  BY <1>4
<1>6. ASSUME low = floor, u <= floor PROVE cost <= lowest
  BY <1>1, <1>6, ProductMonotone
<1>7. Remaining(ledger) \in Nat
  BY RemainingBounded DEF ledger, LedgerTypeOK
<1>8. granted' = [granted EXCEPT ![g] = Sat(cost)] /\ least' = [least EXCEPT ![g] = lowest]
  BY <1>2
<1>9. run.profile # "speed" /\ u > floor => cost <= Remaining(ledger)
  BY <1>3
<1> HIDE DEF cost, lowest
<1>10. Sat(cost) \in Nat /\ Sat(cost) <= cost
  BY <1>5, LedgerAssumption DEF Sat, Least
<1>11. granted'[g] = Sat(cost)
  BY <1>8 DEF LedgerTypeOK
<1>12. granted' \in [Grants -> Nat] /\ least' \in [Grants -> Nat]
  BY <1>5, <1>8, <1>10 DEF LedgerTypeOK
<1>13. low = floor /\ run.profile # "speed" => granted'[g] <= lowest \/ granted'[g] <= Remaining(ledger)
  <2>1. u <= floor \/ u > floor
    BY <1>1
  <2> QED  BY <2>1, <1>5, <1>6, <1>7, <1>9, <1>10, <1>11
<1> QED  BY <1>8, <1>11, <1>12, <1>13 DEF lowest

LEMMA InitInv == Init => IInv
<1> SUFFICES ASSUME Init PROVE IInv
  OBVIOUS
<1>1. granted = None /\ least = None /\ reserved = 0 /\ None \in [Grants -> Nat]
  BY SumNone DEF Init, LedgerInit
<1>2. pc \in {"spill", "stage"}
  BY DEF Init
<1>3. TypeOK
  BY <1>1, <1>2, ConvertAssumption DEF TypeOK, LedgerTypeOK, Init
<1>4. SlotsInUse /\ WithinPieces /\ ShapeIsLargest
  BY <1>1, <1>2 DEF SlotsInUse, WithinPieces, ShapeIsLargest, Sized
<1> QED  BY <1>3, <1>4 DEF IInv

\* Every action but Read leaves the shape and the copy alone.
LEMMA ShapeKept ==
  ASSUME ShapeIsLargest, UNCHANGED <<run, tuning, shape>>,
         pc' \in {"window", "fwindow"} => pc \in {"window", "fwindow"}
  PROVE  ShapeIsLargest'
BY DEF ShapeIsLargest, Holds, ReadAffordable, Affordable, Remaining, Base, MaxWorkers,
       DepthCap

LEMMA StageStep == IInv /\ Stage => IInv'
<1> SUFFICES ASSUME IInv, Stage PROVE IInv'
  OBVIOUS
<1>1. pc = "stage" /\ pc' = "staged" /\ UNCHANGED <<run, reserved, tuning, shape>>
  BY DEF Stage, Goto
<1>2. run \in Runs /\ LedgerTypeOK /\ reserved \in Nat
  BY DEF IInv, TypeOK, LedgerTypeOK
<1>3. Fit("stage", run.stage, run.staging, 1, 1) /\ "stage" \in Grants
  BY DEF Stage, Grants
<1>4. run.stage \in Nat /\ run.staging \in Nat
  BY <1>2, RunFields
<1>5. /\ granted' \in [Grants -> Nat] /\ least' \in [Grants -> Nat]
      /\ granted' = [granted EXCEPT !["stage"] = granted'["stage"]]
      /\ least' = [least EXCEPT !["stage"] = 1 * run.stage]
      /\ run.profile # "speed" => \/ granted'["stage"] <= 1 * run.stage
                                  \/ granted'["stage"] <= Remaining(ledger)
  BY <1>2, <1>3, <1>4, FitCharges
<1>6. granted = None /\ least = None
  BY <1>1 DEF IInv, SlotsInUse
<1>7. TypeOK'
  BY <1>1, <1>5 DEF IInv, TypeOK, LedgerTypeOK
<1>8. SlotsInUse'
  BY <1>1, <1>5, <1>6, <1>3 DEF SlotsInUse, Sized, None
<1>9. least'["stage"] = run.stage
  BY <1>3, <1>4, <1>5, <1>6 DEF None
<1>10. Remaining(ledger) <= Base(reserved) /\ Remaining(ledger) \in Nat /\ Base(reserved) \in Nat
  BY <1>2, RemainingBounded, BaseBounded DEF ledger, LedgerTypeOK
<1>11. Base(reserved)' = Base(reserved)
  BY <1>1 DEF Base
<1>12. granted'["stage"] \in Nat
  BY <1>3, <1>5
<1>13. WithinPieces'
  BY <1>1, <1>4, <1>5, <1>9, <1>10, <1>11, <1>12 DEF WithinPieces, Sized
<1>14. ShapeIsLargest'
  BY <1>1, ShapeKept DEF IInv
<1> QED  BY <1>7, <1>8, <1>13, <1>14 DEF IInv

LEMMA StagedStep == IInv /\ Staged => IInv'
<1> SUFFICES ASSUME IInv, Staged PROVE IInv'
  OBVIOUS
<1>1. pc = "staged" /\ pc' = "spill" /\ UNCHANGED <<run, reserved, tuning, shape>>
  BY DEF Staged, Goto
<1>2. granted' = None /\ least' = None
  BY <1>1 DEF Staged, Release, IInv, SlotsInUse, None
<1>3. TypeOK'
  BY <1>1, <1>2, SumNone DEF IInv, TypeOK, LedgerTypeOK
<1>4. SlotsInUse' /\ WithinPieces'
  BY <1>1, <1>2 DEF SlotsInUse, WithinPieces, Sized
<1>5. ShapeIsLargest'
  BY <1>1, ShapeKept DEF IInv
<1> QED  BY <1>3, <1>4, <1>5 DEF IInv

LEMMA ReserveSpillStep == IInv /\ ReserveSpill => IInv'
<1> SUFFICES ASSUME IInv, ReserveSpill PROVE IInv'
  OBVIOUS
<1>1. pc = "spill" /\ pc' = "encode" /\ UNCHANGED <<run, granted, tuning, shape, least>>
  BY DEF ReserveSpill, Goto
<1>2. run \in Runs /\ LedgerTypeOK /\ reserved \in Nat /\ granted \in [Grants -> Nat]
  BY DEF IInv, TypeOK, LedgerTypeOK
<1>3. reserved' \in Nat
  <2>1. Together(granted) \in Nat
    BY <1>2, RemainingBounded
  <2>2. Sat(Together(granted)) \in Nat /\ Sat(reserved + Sat(Together(granted))) \in Nat
    BY <1>2, <2>1, LedgerAssumption DEF Sat, Least
  <2>3. run.spill \in Nat /\ run.limit \in Nat \cup {Unknown}
    BY <1>2, RunFields
  <2>4. run.limit # Unknown => Least(Available, run.spill) \in Nat
    BY <2>2, <2>3 DEF Available, Minus, Most, Least
  <2> QED  BY <1>2, <2>4 DEF ReserveSpill, ReserveUpTo
<1>4. TypeOK'
  BY <1>1, <1>3 DEF IInv, TypeOK, LedgerTypeOK
<1>5. SlotsInUse' /\ WithinPieces'
  BY <1>1 DEF IInv, SlotsInUse, WithinPieces, Sized
<1>6. ShapeIsLargest'
  BY <1>1, ShapeKept DEF IInv
<1> QED  BY <1>4, <1>5, <1>6 DEF IInv

LEMMA EncodeStep == IInv /\ Encode => IInv'
<1> SUFFICES ASSUME IInv, Encode PROVE IInv'
  OBVIOUS
<1> DEFINE floor == Least(run.threads, EncodeFloor)
<1>1. /\ pc = "encode" /\ pc' \in {"read", "finest", "done"}
      /\ UNCHANGED <<run, reserved, shape>> /\ tuning' = <<reserved, granted'>>
  BY DEF Encode, Goto
<1>2. run \in Runs /\ LedgerTypeOK /\ reserved \in Nat
  BY DEF IInv, TypeOK, LedgerTypeOK
<1>3. Fit("encode", run.encode, run.threads, floor, floor) /\ "encode" \in Grants
  BY DEF Encode, Grants
<1>4. run.encode \in Nat /\ run.threads \in Nat \ {0} /\ floor \in Nat \ {0}
  BY <1>2, RunFields, ConvertAssumption DEF Least
<1> HIDE DEF floor
<1>5. /\ granted' \in [Grants -> Nat] /\ least' \in [Grants -> Nat]
      /\ granted' = [granted EXCEPT !["encode"] = granted'["encode"]]
      /\ least' = [least EXCEPT !["encode"] = floor * run.encode]
      /\ run.profile # "speed" => \/ granted'["encode"] <= floor * run.encode
                                  \/ granted'["encode"] <= Remaining(ledger)
  BY <1>2, <1>3, <1>4, FitCharges
<1>6. granted = None /\ least = None
  BY <1>1 DEF IInv, SlotsInUse
<1>7. TypeOK'
  BY <1>1, <1>2, <1>5 DEF IInv, TypeOK, LedgerTypeOK
<1>8. /\ granted' = Charged(granted'["encode"], 0, 0)
      /\ least' = Charged(least'["encode"], 0, 0)
  BY <1>5, <1>6 DEF Charged, None, Grants
<1>9. /\ granted'["read"] = 0 /\ granted'["compute"] = 0
      /\ least'["read"] = 0 /\ least'["compute"] = 0
  BY <1>8 DEF Charged, None, Grants
<1>10. SlotsInUse'
  BY <1>1, <1>8, <1>9 DEF SlotsInUse, Sized
<1>11. least'["encode"] = floor * run.encode /\ least'["encode"] \in Nat /\ granted'["encode"] \in Nat
  BY <1>3, <1>5, <1>6 DEF None
<1>12. Remaining(ledger) <= Base(reserved) /\ Remaining(ledger) \in Nat /\ Base(reserved) \in Nat
  BY <1>2, RemainingBounded, BaseBounded DEF ledger, LedgerTypeOK
<1>13. Base(reserved)' = Base(reserved)
  BY <1>1 DEF Base
<1>14. run.profile # "speed" => granted'["encode"] <= Base(reserved) + least'["encode"]
  BY <1>5, <1>11, <1>12
<1>15. WithinPieces'
  BY <1>1, <1>9, <1>11, <1>12, <1>13, <1>14 DEF WithinPieces, Sized
<1>16. ShapeIsLargest'
  BY <1>1 DEF ShapeIsLargest
<1> QED  BY <1>7, <1>10, <1>15, <1>16 DEF IInv

\* A read is charged exactly its shape; past the channel, and unless it is as
\* small as a read can be, that was affordable.
LEMMA ReadCharge ==
  ASSUME run \in Runs, LedgerTypeOK, tuning = ledger, ReadAhead
  PROVE  /\ shape' = [workers |-> Workers(tuning), depth |-> Depth(tuning)]
         /\ granted' \in [Grants -> Nat] /\ least' \in [Grants -> Nat]
         /\ granted' = [granted EXCEPT !["read"] = granted'["read"]]
         /\ least' = [least EXCEPT !["read"] = least'["read"]]
         /\ run.profile # "speed"
              => \/ granted'["read"] <= least'["read"]
                 \/ granted'["read"] <= least'["read"] + Remaining(ledger)
<1> DEFINE w == Workers(tuning)
           d == Depth(tuning)
           r == run.reader
           ch == run.channel
           p == run.batch
           s == [workers |-> w, depth |-> d]
           low == ch + IF w = 1 /\ d = MinDepth THEN MinDepth + r ELSE 0
           a == ReadAffordable(tuning)
<1>1. /\ r \in Nat /\ ch \in Nat /\ p \in Nat \ {0}
      /\ run.profile \in {"bounded", "auto", "speed"}
  BY RunFields
<1>2. shape' = s /\ Fit("read", p, Batches(s), Batches(s), low)
  BY DEF ReadAhead
<1>3. tuning \in Nat \X [Grants -> Nat]
  BY DEF ledger, LedgerTypeOK
<1>4. /\ w \in Nat \ {0} /\ d \in Nat \ {0}
      /\ w > 1 => w * (d + r) <= a
      /\ d > MinDepth => w * (d + r) <= a
      /\ MinDepth <= d /\ MinDepth \in Nat \ {0}
  <2>1. MinDepth \in Nat \ {0} /\ DepthCap \in Nat
    BY ConvertAssumption DEF DepthCap
  <2>2. Asked \in Int
    BY <1>1, RunFields, LedgerAssumption, ConvertAssumption DEF Asked, Least, Most, MaxWorkers
  <2> HIDE DEF r
  <2> QED  BY <1>3, <2>1, <2>2, ShapeLargest DEF Holds, r
<1>5. low \in Nat
  BY <1>1, <1>4
<1> DEFINE x == w * (d + r)
<1>6. x \in Nat
  BY <1>1, <1>4, ProductNat
<1>7. Batches(s) = Sat(x + ch)
  BY DEF Batches
<1> DEFINE b == Batches(s)
<1>8. b \in Nat /\ b <= x + ch
  <2> HIDE DEF x
  <2> QED  BY <1>1, <1>6, <1>7, LedgerAssumption DEF Sat, Least
<1>9. Units("read", p, b, b) = b
  <2> HIDE DEF b
  <2>0. run.profile # "speed" => Affordable(ledger, "read", p) \in Nat
    <3>1. "read" \in Grants
      BY DEF Grants
    <3> HIDE DEF p
    <3> QED  BY <1>1, <3>1, AffordableBounded DEF ledger, LedgerTypeOK
  <2> DEFINE aff == Affordable(ledger, "read", p)
  <2>1. CASE run.profile = "speed"
    BY <1>8, <2>1 DEF Units, Most
  <2>2. CASE run.profile = "auto"
    <3>1. Units("read", p, b, b) = Most(Least(aff, b), b)
      BY <2>2 DEF Units
    <3>2. aff \in Nat
      BY <2>0, <2>2
    <3> HIDE DEF aff
    <3> QED  BY <1>8, <3>1, <3>2 DEF Most, Least
  <2>3. CASE run.profile = "bounded"
    <3>1. Units("read", p, b, b) = Most(Least(Least(aff, b), b), b)
      BY <2>3 DEF Units, BoundedCap
    <3>2. aff \in Nat
      BY <2>0, <2>3
    <3> HIDE DEF aff
    <3> QED  BY <1>8, <3>1, <3>2 DEF Most, Least
  <2> QED  BY <1>1, <2>1, <2>2, <2>3
<1>10. /\ granted' = [granted EXCEPT !["read"] = Sat(b * p)]
       /\ least' = [least EXCEPT !["read"] = low * p]
  BY <1>2, <1>9 DEF Fit
<1> HIDE DEF b, s
<1> HIDE DEF low
<1>11. b * p \in Nat /\ low * p \in Nat /\ Sat(b * p) \in Nat /\ Sat(b * p) <= b * p
  <2>1. b * p \in Nat /\ low * p \in Nat
    BY <1>1, <1>5, <1>8, ProductNat
  <2> QED  BY <2>1, LedgerAssumption DEF Sat, Least
<1>12. "read" \in Grants
  BY DEF Grants
<1>13. /\ granted' \in [Grants -> Nat] /\ least' \in [Grants -> Nat]
       /\ granted'["read"] = Sat(b * p) /\ least'["read"] = low * p
  <2>1. granted \in [Grants -> Nat] /\ least \in [Grants -> Nat]
    BY DEF LedgerTypeOK
  <2> QED  BY <1>10, <1>11, <1>12, <2>1
<1>14. b * p <= (x + ch) * p
  <2> HIDE DEF x
  <2> QED  BY <1>1, <1>6, <1>8, ProductMonotone
<1>15. CASE w = 1 /\ d = MinDepth
  <2>1. x + ch = low
    BY <1>1, <1>4, <1>15 DEF low
  <2> QED  BY <1>2, <1>10, <1>11, <1>13, <1>14, <2>1 DEF s
<1>16. CASE ~(w = 1 /\ d = MinDepth)
  <2>1. low = ch
    BY <1>1, <1>16 DEF low
  <2>2. x <= a
    BY <1>4, <1>16
  <2>3. x >= 2
    <3>1. CASE w > 1
      <4>1. w * 1 <= x /\ w * 1 = w
        BY <1>1, <1>4, ProductMonotone
      <4>2. x \in Nat /\ w \in Nat
        BY <1>4, <1>6
      <4> HIDE DEF x, w
      <4> QED  BY <3>1, <4>1, <4>2
    <3>2. CASE w = 1
      <4>1. d >= 2
        <5> HIDE DEF w, d
        <5> QED  BY <1>4, <1>16, <3>2
      <4>2. x = 1 * (d + r)
        BY <3>2
      <4>3. d \in Nat /\ r \in Nat
        BY <1>1, <1>4
      <4> HIDE DEF d, r, x
      <4> QED  BY <4>1, <4>2, <4>3
    <3> QED  BY <1>4, <3>1, <3>2
  <2>4. ASSUME run.profile # "speed"
        PROVE  Sat(b * p) <= low * p + Remaining(ledger)
    <3>1. a \in Nat \ {0} /\ (a > 1 => a * p <= Remaining(ledger))
      <4>1. a = Affordable(<<reserved, granted>>, "read", p)
        BY DEF ReadAffordable, ledger
      <4> HIDE DEF a, p
      <4> QED  BY <1>1, <1>12, <2>4, <4>1, AffordableBounded DEF ledger, LedgerTypeOK
    <3> HIDE DEF x, a
    <3>2. a > 1
      BY <1>6, <2>2, <2>3, <3>1
    <3>3. x * p <= a * p /\ x * p \in Nat /\ a * p \in Nat /\ ch * p \in Nat
      BY <1>1, <1>6, <2>2, <3>1, ProductMonotone, ProductNat
    <3>4. (x + ch) * p = x * p + ch * p
      BY <1>1, <1>6
    <3>5. Remaining(ledger) \in Nat
      BY RemainingBounded DEF ledger, LedgerTypeOK
    <3>6. b * p <= x * p + ch * p
      BY <1>14, <3>4
    <3>7. x * p <= Remaining(ledger)
      BY <3>1, <3>2, <3>3, <3>5
    <3>8. low * p = ch * p
      BY <2>1
    <3> DEFINE bp == b * p  xp == x * p  cp == ch * p
    <3> SUFFICES Sat(bp) <= cp + Remaining(ledger)
      BY <3>8
    <3>9. /\ bp <= xp + cp /\ xp <= Remaining(ledger) /\ Sat(bp) <= bp
          /\ bp \in Nat /\ xp \in Nat /\ cp \in Nat /\ Sat(bp) \in Nat
      BY <3>3, <3>6, <3>7, <1>11
    <3> HIDE DEF bp, xp, cp
    <3> QED  BY <3>5, <3>9
  <2> QED  BY <1>2, <1>10, <1>13, <2>4 DEF s
<1> QED  BY <1>15, <1>16

LEMMA ReadStep == IInv /\ Read => IInv'
<1> SUFFICES ASSUME IInv, Read PROVE IInv'
  OBVIOUS
<1>1. /\ pc \in {"read", "finest"} /\ pc' \in {"window", "fwindow"}
      /\ UNCHANGED <<run, reserved, tuning>> /\ ReadAhead
  BY DEF Read, Goto
<1>2. run \in Runs /\ LedgerTypeOK /\ reserved \in Nat
  BY DEF IInv, TypeOK, LedgerTypeOK
<1> DEFINE e == granted["encode"]  le == least["encode"]
<1>3. e \in Nat /\ le \in Nat
  BY <1>2 DEF LedgerTypeOK, Grants
<1>4. /\ granted = Charged(e, 0, 0) /\ least = Charged(le, 0, 0)
      /\ tuning = ledger
  BY <1>1 DEF IInv, SlotsInUse, Sized, ledger
<1>5. /\ shape' = [workers |-> Workers(tuning), depth |-> Depth(tuning)]
      /\ granted' \in [Grants -> Nat] /\ least' \in [Grants -> Nat]
      /\ granted' = [granted EXCEPT !["read"] = granted'["read"]]
      /\ least' = [least EXCEPT !["read"] = least'["read"]]
      /\ run.profile # "speed"
           => \/ granted'["read"] <= least'["read"]
              \/ granted'["read"] <= least'["read"] + Remaining(ledger)
  BY <1>1, <1>2, <1>4, ReadCharge
<1>6. /\ granted' = Charged(e, granted'["read"], 0) /\ least' = Charged(le, least'["read"], 0)
      /\ granted'["encode"] = e /\ least'["encode"] = le
      /\ granted'["compute"] = 0 /\ least'["compute"] = 0
      /\ granted'["read"] \in Nat /\ least'["read"] \in Nat
  <2> HIDE DEF e, le
  <2>1. granted = Charged(e, 0, 0) /\ least = Charged(le, 0, 0)
    BY <1>4
  <2> QED  BY <1>5, <2>1 DEF Charged, None, Grants
<1>7. /\ shape'.workers \in 1..Asked /\ shape'.depth \in MinDepth..DepthCap
      /\ shape'.workers > 1 => Holds(shape'.workers, shape'.depth)
      /\ shape'.workers < Asked => ~Holds(shape'.workers + 1, MinDepth)
      /\ shape'.depth < DepthCap => ~Holds(shape'.workers, shape'.depth + 1)
  BY <1>2, <1>5, ShapeLargest DEF IInv, TypeOK
<1>8. TypeOK'
  <2>1. MinDepth \in Nat \ {0} /\ DepthCap \in Nat /\ Asked \in Int
    BY <1>2, RunFields, LedgerAssumption, ConvertAssumption
       DEF DepthCap, Asked, Least, Most, MaxWorkers
  <2>2. Workers(tuning) \in Nat \ {0} /\ Depth(tuning) \in Nat \ {0}
    BY <1>5, <1>7, <2>1
  <2> QED  BY <1>1, <1>2, <1>5, <2>2 DEF IInv, TypeOK, LedgerTypeOK
<1>9. SlotsInUse'
  <2>1. tuning' = <<reserved', Charged(granted'["encode"], 0, 0)>>
    BY <1>1, <1>4, <1>6 DEF ledger
  <2> QED  BY <1>1, <1>6, <2>1 DEF SlotsInUse, Sized
<1>10. WithinPieces'
  <2>1. Base(reserved)' = Base(reserved) /\ Base(reserved) \in Nat
    BY <1>1, <1>2, BaseBounded DEF Base
  <2>2. /\ Remaining(ledger) \in Nat
        /\ Remaining(ledger) > 0 => e + Remaining(ledger) = Base(reserved)
    <3>1. Together(granted) = e + 0 + 0
      <4>1. granted = Charged(e, 0, 0) /\ e \in Nat
        BY <1>3, <1>4
      <4> HIDE DEF e
      <4> QED  BY <4>1, SumHeld
    <3> QED  BY <1>2, <1>3, <3>1, RemainingBounded DEF ledger, LedgerTypeOK
  <2>3. run.profile # "speed" => e <= Base(reserved) + le
    BY <1>1 DEF IInv, WithinPieces, Sized
  <2>4. run.profile # "speed"
          => /\ granted'["read"] <= least'["read"] + Remaining(ledger)
    BY <1>5, <1>6, <2>2
  <2> HIDE DEF e, le
  <2>5. run.profile # "speed"
          => e + granted'["read"] <= Base(reserved) + le + least'["read"]
    BY <1>3, <1>6, <2>1, <2>2, <2>3, <2>4
  <2>6. run'.profile = run.profile /\ pc' \in Sized /\ pc' # "staged"
    BY <1>1 DEF Sized
  <2> QED  BY <1>3, <1>6, <2>1, <2>3, <2>5, <2>6 DEF WithinPieces
<1>11. ShapeIsLargest'
  <2>1. run' = run /\ tuning' = tuning
    BY <1>1
  <2>2. Asked' = Asked /\ DepthCap' = DepthCap
        /\ \A w, d : Holds(w, d)' = Holds(w, d)
    BY <2>1 DEF Asked, MaxWorkers, DepthCap, Holds, ReadAffordable, Affordable, Remaining, Base
  <2>3. Asked' = Least(Most(run'.workers, 1), MaxWorkers')
    BY DEF Asked
  <2> QED  BY <1>7, <2>1, <2>2, <2>3 DEF ShapeIsLargest, Asked
<1> QED  BY <1>8, <1>9, <1>10, <1>11 DEF IInv

LEMMA WindowStep == IInv /\ Window => IInv'
<1> SUFFICES ASSUME IInv, Window PROVE IInv'
  OBVIOUS
<1>1. /\ pc \in {"window", "fwindow"} /\ pc' \in {"reading", "freading"}
      /\ UNCHANGED <<run, reserved, tuning, shape>>
  BY DEF Window, Goto
<1>2. run \in Runs /\ LedgerTypeOK /\ reserved \in Nat
  BY DEF IInv, TypeOK, LedgerTypeOK
<1>3. Fit("compute", run.windowPrice, run.window, 1, 1) /\ "compute" \in Grants
  BY DEF Window, Grants
<1>4. run.windowPrice \in Nat /\ run.window \in Nat
  BY <1>2, RunFields
<1>5. /\ granted' \in [Grants -> Nat] /\ least' \in [Grants -> Nat]
      /\ granted' = [granted EXCEPT !["compute"] = granted'["compute"]]
      /\ least' = [least EXCEPT !["compute"] = 1 * run.windowPrice]
      /\ run.profile # "speed" => \/ granted'["compute"] <= 1 * run.windowPrice
                                  \/ granted'["compute"] <= Remaining(ledger)
  BY <1>2, <1>3, <1>4, FitCharges
<1> DEFINE e == granted["encode"]  le == least["encode"]
           r == granted["read"]    lr == least["read"]
<1>6. e \in Nat /\ le \in Nat /\ r \in Nat /\ lr \in Nat
  BY <1>2 DEF LedgerTypeOK, Grants
<1>7. /\ granted = Charged(e, r, 0) /\ least = Charged(le, lr, 0)
      /\ tuning = <<reserved, Charged(e, 0, 0)>>
  BY <1>1 DEF IInv, SlotsInUse, Sized
<1>8. /\ granted' = Charged(e, r, granted'["compute"])
      /\ least' = Charged(le, lr, least'["compute"])
      /\ granted'["encode"] = e /\ least'["encode"] = le
      /\ granted'["read"] = r /\ least'["read"] = lr
      /\ granted'["compute"] \in Nat /\ least'["compute"] = run.windowPrice
  <2> HIDE DEF e, le, r, lr
  <2>1. granted = Charged(e, r, 0) /\ least = Charged(le, lr, 0)
    BY <1>7
  <2>2. least' = [least EXCEPT !["compute"] = run.windowPrice]
    <3>1. 1 * run.windowPrice = run.windowPrice
      BY <1>4
    <3> QED  BY <1>5, <3>1
  <2>3. granted' = Charged(e, r, granted'["compute"])
    BY <1>5, <2>1 DEF Charged, None, Grants
  <2>4. least' = Charged(le, lr, run.windowPrice)
    BY <2>1, <2>2 DEF Charged, None, Grants
  <2>5. least'["compute"] = run.windowPrice
    BY <2>4 DEF Charged, None, Grants
  <2>6. /\ granted'["encode"] = e /\ least'["encode"] = le
        /\ granted'["read"] = r /\ least'["read"] = lr
    BY <2>3, <2>4 DEF Charged, None, Grants
  <2> QED  BY <1>3, <1>5, <2>3, <2>4, <2>5, <2>6
<1>9. TypeOK'
  BY <1>1, <1>2, <1>5 DEF IInv, TypeOK, LedgerTypeOK
<1>10. SlotsInUse'
  <2>1. tuning' = <<reserved', Charged(granted'["encode"], 0, 0)>>
    BY <1>1, <1>7, <1>8
  <2> QED  BY <1>1, <1>8, <2>1 DEF SlotsInUse, Sized
<1>11. WithinPieces'
  <2>1. Base(reserved)' = Base(reserved) /\ Base(reserved) \in Nat
    BY <1>1, <1>2, BaseBounded DEF Base
  <2>2. /\ Remaining(ledger) \in Nat
        /\ Remaining(ledger) > 0 => e + r + Remaining(ledger) = Base(reserved)
    <3>1. Together(granted) = e + r + 0
      <4>1. granted = Charged(e, r, 0) /\ e \in Nat /\ r \in Nat
        BY <1>6, <1>7
      <4> HIDE DEF e, r
      <4> QED  BY <4>1, SumHeld
    <3> QED  BY <1>2, <1>6, <3>1, RemainingBounded DEF ledger, LedgerTypeOK
  <2>3. run.profile # "speed"
          => e <= Base(reserved) + le /\ e + r <= Base(reserved) + le + lr
    BY <1>1 DEF IInv, WithinPieces, Sized
  <2> DEFINE c == granted'["compute"]  lc == least'["compute"]
  <2>4. c \in Nat /\ lc \in Nat /\ (run.profile # "speed" => c <= lc \/ c <= Remaining(ledger))
    BY <1>4, <1>5, <1>8
  <2> HIDE DEF e, le, r, lr, c, lc
  <2>5. run.profile # "speed" => e + r + c <= Base(reserved) + le + lr + lc
    BY <1>6, <2>1, <2>2, <2>3, <2>4
  <2>6. run'.profile = run.profile /\ pc' \in Sized /\ pc' # "staged"
    BY <1>1 DEF Sized
  <2> QED  BY <1>6, <1>8, <2>1, <2>3, <2>5, <2>6 DEF WithinPieces, c, lc
<1>12. ShapeIsLargest'
  BY <1>1, ShapeKept DEF IInv
<1> QED  BY <1>9, <1>10, <1>11, <1>12 DEF IInv

LEMMA EndReadStep == IInv /\ EndRead => IInv'
<1> SUFFICES ASSUME IInv, EndRead PROVE IInv'
  OBVIOUS
<1>1. /\ pc \in {"reading", "freading"} /\ pc' \in {"done", "finest"}
      /\ UNCHANGED <<run, reserved, tuning, shape>> /\ Release({"read", "compute"})
  BY DEF EndRead, Goto
<1>2. run \in Runs /\ LedgerTypeOK /\ reserved \in Nat
  BY DEF IInv, TypeOK, LedgerTypeOK
<1> DEFINE e == granted["encode"]  le == least["encode"]
<1>3. e \in Nat /\ le \in Nat
  BY <1>2 DEF LedgerTypeOK, Grants
<1>4. /\ granted = Charged(e, granted["read"], granted["compute"])
      /\ least = Charged(le, least["read"], least["compute"])
      /\ tuning = <<reserved, Charged(e, 0, 0)>>
  BY <1>1 DEF IInv, SlotsInUse, Sized
<1>5. granted' = Charged(e, 0, 0) /\ least' = Charged(le, 0, 0)
  <2> HIDE DEF e, le
  <2>1. /\ granted = Charged(e, granted["read"], granted["compute"])
        /\ least = Charged(le, least["read"], least["compute"])
    BY <1>4
  <2>2. /\ granted' = [g \in Grants |-> IF g \in {"read", "compute"} THEN 0 ELSE granted[g]]
        /\ least' = [g \in Grants |-> IF g \in {"read", "compute"} THEN 0 ELSE least[g]]
    BY <1>1 DEF Release
  <2> QED  BY <2>1, <2>2 DEF Charged, None, Grants
<1>6. /\ granted'["encode"] = e /\ granted'["read"] = 0 /\ granted'["compute"] = 0
      /\ least'["encode"] = le /\ least'["read"] = 0 /\ least'["compute"] = 0
  <2> HIDE DEF e, le
  <2>1. granted' = Charged(e, 0, 0) /\ least' = Charged(le, 0, 0)
    BY <1>5
  <2> QED  BY <2>1 DEF Charged, None, Grants
<1>7. TypeOK'
  <2>1. granted' \in [Grants -> Nat] /\ least' \in [Grants -> Nat]
    BY <1>3, <1>5, SumHeld
  <2> QED  BY <1>1, <1>2, <2>1 DEF IInv, TypeOK, LedgerTypeOK
<1>8. SlotsInUse'
  BY <1>1, <1>4, <1>5, <1>6 DEF SlotsInUse, Sized
<1>9. WithinPieces'
  <2>1. Base(reserved)' = Base(reserved) /\ Base(reserved) \in Nat
    BY <1>1, <1>2, BaseBounded DEF Base
  <2>2. run.profile # "speed" => e <= Base(reserved) + le
    BY <1>1 DEF IInv, WithinPieces, Sized
  <2>3. run'.profile = run.profile /\ pc' # "staged"
    BY <1>1
  <2> QED  BY <1>3, <1>6, <2>1, <2>2, <2>3 DEF WithinPieces
<1>10. ShapeIsLargest'
  BY <1>1, ShapeKept DEF IInv
<1> QED  BY <1>7, <1>8, <1>9, <1>10 DEF IInv

LEMMA StutterStep == IInv /\ UNCHANGED vars => IInv'
<1> SUFFICES ASSUME IInv, UNCHANGED vars PROVE IInv'
  OBVIOUS
<1>1. UNCHANGED <<run, reserved, granted, least, tuning, shape, pc>>
  BY DEF vars, ledger
<1>2. Base(reserved)' = Base(reserved)
  BY <1>1 DEF Base
<1>3. TypeOK'
  BY <1>1 DEF IInv, TypeOK, LedgerTypeOK
<1>4. SlotsInUse'
  BY <1>1 DEF IInv, SlotsInUse
<1>5. WithinPieces'
  BY <1>1, <1>2 DEF IInv, WithinPieces
<1>6. ShapeIsLargest'
  BY <1>1, ShapeKept DEF IInv
<1> QED  BY <1>3, <1>4, <1>5, <1>6 DEF IInv

LEMMA NextInv == IInv /\ [Next]_vars => IInv'
BY StageStep, StagedStep, ReserveSpillStep, EncodeStep, ReadStep, WindowStep, EndReadStep,
   StutterStep DEF Next

LEMMA Inductive == Spec => []IInv
BY InitInv, NextInv, PTL DEF Spec

-----------------------------------------------------------------------------
(***************************************************************************)
(* Every variable keeps its type, whatever the run.                        *)
(***************************************************************************)
THEOREM GrantsTyped == Spec => []TypeOK
<1>1. IInv => TypeOK
  BY DEF IInv
<1> QED  BY <1>1, Inductive, PTL

(***************************************************************************)
(* Both reads of pass 2 are sized from the ledger they are charged to, and *)
(* resolve_read_shape's closed form gives the most workers, and then the   *)
(* deepest queues, that fit, whatever the budget and the user's numbers.   *)
(***************************************************************************)
THEOREM ReadsSizedAsCharged == Spec => []SizedAsCharged
<1>1. IInv => TuningIsCurrent
  BY DEF IInv, SlotsInUse, Sized, TuningIsCurrent, ledger
<1>2. IInv => SizedAsCharged
  BY <1>1 DEF IInv, SizedAsCharged
<1> QED  BY <1>2, Inductive, PTL

(***************************************************************************)
(* A conversion's phases stay within its allowance together, but for what  *)
(* each cannot go below, and return to it when they end.                   *)
(***************************************************************************)
THEOREM ConversionWithinAllowance == Spec => []WithinAllowance
<1>1. IInv => WithinAllowance
  <2> SUFFICES ASSUME IInv, run.profile # "speed"
               PROVE  Together(granted) <= Base(reserved) + Together(least)
    BY DEF WithinAllowance
  <2>1. run \in Runs /\ LedgerTypeOK /\ reserved \in Nat /\ Base(reserved) \in Nat
    BY BaseBounded DEF IInv, TypeOK, LedgerTypeOK
  <2>2. CASE pc \in {"stage", "spill", "encode"}
    BY <2>1, <2>2, SumNone DEF IInv, SlotsInUse
  <2>3. CASE pc = "staged"
    <3>1. /\ granted = [None EXCEPT !["stage"] = granted["stage"]]
          /\ least = [None EXCEPT !["stage"] = least["stage"]]
          /\ granted["stage"] <= Base(reserved) + least["stage"]
      BY <2>3 DEF IInv, SlotsInUse, WithinPieces
    <3>2. granted["stage"] \in Nat /\ least["stage"] \in Nat
      BY <2>1 DEF LedgerTypeOK, Grants
    <3> DEFINE s == granted["stage"]  ls == least["stage"]
    <3>3. \A n \in Nat : Together([None EXCEPT !["stage"] = n]) = n
      BY DEF Together, None, Grants
    <3>4. Together(granted) = s /\ Together(least) = ls
      BY <3>1, <3>2, <3>3
    <3> QED  BY <3>1, <3>4
  <2>4. CASE pc \in Sized
    <3> DEFINE e == granted["encode"]  r == granted["read"]  c == granted["compute"]
               le == least["encode"]   lr == least["read"]   lc == least["compute"]
    <3>1. /\ granted = Charged(e, r, c) /\ least = Charged(le, lr, lc)
          /\ e + r + c <= Base(reserved) + le + lr + lc
      BY <2>4 DEF IInv, SlotsInUse, WithinPieces
    <3>2. /\ e \in Nat /\ r \in Nat /\ c \in Nat
          /\ le \in Nat /\ lr \in Nat /\ lc \in Nat
      BY <2>1 DEF LedgerTypeOK, Grants
    <3>3. Together(granted) = e + r + c /\ Together(least) = le + lr + lc
      <4>1. granted = Charged(e, r, c) /\ least = Charged(le, lr, lc)
        BY <3>1
      <4> HIDE DEF e, r, c, le, lr, lc
      <4> QED  BY <3>2, <4>1, SumHeld
    <3> HIDE DEF e, r, c, le, lr, lc
    <3> QED  BY <2>1, <3>1, <3>2, <3>3
  <2> QED  BY <2>2, <2>3, <2>4 DEF IInv, TypeOK, Sized
<1> QED  BY <1>1, Inductive, PTL

-----------------------------------------------------------------------------
(* The budget of an export *)

Sizes == Seq(Nat \ {0})
Zooms == [parts : Sizes, wave : Nat \ {0}]

LEMMA Totals ==
  ASSUME NEW n \in Nat, NEW s, DOMAIN s = 1..n, \A i \in 1..n : s[i] \in Nat
  PROVE  Total(s) \in Nat /\ \A i \in 1..n : s[i] <= Total(s)
<1> DEFINE D == 1..n
<1>1. IsFiniteSet(D) /\ Summable(s, s, D)
  <2>1. IsFiniteSet(1..n)
    BY FS_Interval
  <2> QED  BY <2>1 DEF Summable
<1>2. Total(s) = SumFunctionOnSet(s, D)
  BY DEF Total
<1>3. ASSUME NEW i \in D  PROVE s[i] <= SumFunctionOnSet(s, D)
  <2> DEFINE r == D \ {i}
  <2>1. {i} \in SUBSET D /\ r \in SUBSET D /\ {i} \cap r = {} /\ {i} \cup r = D
    BY <1>3
  <2> HIDE DEF D, r
  <2>2. SumFunctionOnSet(s, {i}) = s[i]
    BY <1>1, <1>3, Summing
  <2>3. SumFunctionOnSet(s, {i}) \in Nat /\ SumFunctionOnSet(s, r) \in Nat
    BY <1>1, <2>1, Summing
  <2>4. SumFunctionOnSet(s, {i} \cup r)
          = SumFunctionOnSet(s, {i}) + SumFunctionOnSet(s, r)
    BY <1>1, <2>1, Summing
  <2>5. SumFunctionOnSet(s, D) = s[i] + SumFunctionOnSet(s, r)
    BY ONLY <2>1, <2>2, <2>4
  <2> QED  BY <2>2, <2>3, <2>5
<1>4. SumFunctionOnSet(s, D) \in Nat
  <2> HIDE DEF D
  <2>1. \A e \in SUBSET D : SumFunctionOnSet(s, e) \in Nat
    BY <1>1, Summing
  <2> QED  BY <2>1
<1> QED  BY <1>2, <1>3, <1>4

\* Densest is the least that no member exceeds.
LEMMA Densities ==
  ASSUME NEW n \in Nat, NEW s, DOMAIN s = 1..n, \A i \in 1..n : s[i] \in Nat
  PROVE  /\ Densest(s) \in Nat /\ \A i \in 1..n : s[i] <= Densest(s)
         /\ \A b \in Nat : (\A i \in 1..n : s[i] <= b) => Densest(s) <= b
<1> DEFINE S == {0} \cup {s[i] : i \in DOMAIN s}
<1>1. Total(s) \in Nat /\ \A i \in 1..n : s[i] <= Total(s)
  BY Totals
<1>2. S \in SUBSET Nat /\ 0 \in S /\ \A i \in 1..n : s[i] \in S
  OBVIOUS
<1>3. \A x \in S : x <= Total(s)
  BY <1>1
<1>4. \A x \in S : x = 0 \/ \E i \in 1..n : x = s[i]
  OBVIOUS
<1>5. Densest(s) = Max(S)
  BY DEF Densest
<1> HIDE DEF S
<1>6. Max(S) \in S /\ \A x \in S : x <= Max(S)
  <2>1. S \in SUBSET Int /\ S # {} /\ Total(s) \in Int
    BY <1>1, <1>2
  <2> QED  BY <1>3, <2>1, Greatest
<1>7. \A b \in Nat : (\A i \in 1..n : s[i] <= b) => Max(S) <= b
  BY <1>4, <1>6
<1> QED  BY <1>2, <1>5, <1>6, <1>7

\* At most m members of at most d.
LEMMA TotalAtMost ==
  ASSUME NEW n \in Nat, NEW m \in Nat, n <= m, NEW d \in Nat, NEW s, DOMAIN s = 1..n,
         \A i \in 1..n : s[i] \in Nat /\ s[i] <= d
  PROVE  Total(s) <= m * d
<1> DEFINE D == 1..n
           ones == [i \in D |-> 1]
           most == [i \in D |-> d]
<1>1. IsFiniteSet(D) /\ Cardinality(D) = n
  <2>1. IsFiniteSet(1..n) /\ Cardinality(1..n) = IF 1 > n THEN 0 ELSE n - 1 + 1
    BY FS_Interval
  <2> QED  BY <2>1
<1>2. \A i \in D : ones[i] = 1 /\ ones[i] \in Nat /\ most[i] = d /\ most[i] = ones[i] * d
  OBVIOUS
<1>3. \A i \in D : s[i] \in Nat /\ s[i] <= most[i] /\ most[i] \in Nat
  BY <1>2
<1>4. Total(s) = SumFunctionOnSet(s, D)
  BY DEF Total
<1> HIDE DEF D, ones, most
<1>5. SumFunctionOnSet(ones, D) = n
  BY <1>1, <1>2, SumOfOnes
<1>6. SumFunctionOnSet(most, D) = SumFunctionOnSet(ones, D) * d
  BY <1>1, <1>2, SumScaled
<1>7. /\ SumFunctionOnSet(s, D) \in Nat
      /\ SumFunctionOnSet(s, D) <= SumFunctionOnSet(most, D)
  BY <1>1, <1>3, SumMonotone
<1>8. n * d <= m * d
  BY ProductMonotone
<1>9. n * d \in Nat /\ m * d \in Nat
  BY ProductNat
<1>10. SumFunctionOnSet(most, D) = n * d
  BY <1>5, <1>6
<1> QED  BY ONLY <1>4, <1>7, <1>8, <1>9, <1>10

\* No wave of a level holds more than its width of its densest partition.
LEMMA WidestBounded ==
  ASSUME NEW l \in Zooms
  PROVE  WidestWave(l) \in Nat /\ WidestWave(l) <= l.wave * Densest(l.parts)
<1> DEFINE parts == l.parts
           width == l.wave
           count == CeilDiv(Len(parts), width)
           d == Densest(parts)
           totals == [w \in DOMAIN Waves(l) |-> Total(Waves(l)[w])]
<1>1. parts \in Sizes /\ width \in Nat \ {0}
  BY DEF Zooms
<1>2. Len(parts) \in Nat /\ DOMAIN parts = 1..Len(parts)
      /\ \A i \in 1..Len(parts) : parts[i] \in Nat
  BY <1>1 DEF Sizes
<1>3. d \in Nat /\ \A i \in 1..Len(parts) : parts[i] <= d
  <2> HIDE DEF parts
  <2> QED  BY <1>2, Densities
<1>4. count \in Nat
  <2>1. Len(parts) + width - 1 \in Nat
    BY <1>1, <1>2
  <2> HIDE DEF parts, width
  <2> QED  BY <1>1, <2>1, QuotientBounds DEF CeilDiv
<1>5. /\ DOMAIN Waves(l) = 1..count
      /\ \A w \in 1..count : Waves(l)[w] =
           SubSeq(parts, (w - 1) * width + 1, Least(w * width, Len(parts)))
  BY DEF Waves
<1>6. /\ DOMAIN totals = 1..count
      /\ \A w \in 1..count : totals[w] = Total(Waves(l)[w])
  BY <1>5
<1>7. WidestWave(l) = Densest(totals)
  BY DEF WidestWave
<1> HIDE DEF parts, width, count, d, totals
<1>8. width * d \in Nat
  BY <1>1, <1>3, ProductNat
<1>9. ASSUME NEW w \in 1..count
      PROVE  totals[w] \in Nat /\ totals[w] <= width * d
  <2>1. PICK below \in Nat : below = (w - 1) * width
    <3>1. w - 1 \in Nat /\ width \in Nat
      BY <1>1, <1>4
    <3> QED  BY <3>1, ProductNat
  <2>2. w * width = below + width
    BY <1>1, <1>4, <2>1
  <2>3. \A a, b \in Nat : Least(a, b) \in Nat /\ Least(a, b) <= a /\ Least(a, b) <= b
    BY DEF Least
  <2>3a. below + width \in Nat /\ Len(parts) \in Nat
    BY <1>1, <1>2, <2>1
  <2>3b. PICK last \in Nat : last = Least(below + width, Len(parts))
    BY <2>3, <2>3a
  <2>4. last <= below + width /\ last <= Len(parts)
    BY <2>3, <2>3a, <2>3b
  <2> DEFINE s == SubSeq(parts, below + 1, last)
             n == IF below + 1 <= last THEN last - (below + 1) + 1 ELSE 0
  <2>5. n \in Nat /\ n <= width
    BY <1>1, <2>1, <2>3b, <2>4
  <2>6. \A i \in (below + 1)..last : parts[i] \in Nat /\ i \in 1..Len(parts)
    BY <1>2, <2>1, <2>3b, <2>4
  <2>7. /\ s \in Seq(Nat) /\ Len(s) = n
        /\ \A i \in 1..(last - (below + 1) + 1) : s[i] = parts[below + 1 + i - 1]
    <3>1. below + 1 \in Int /\ last \in Int
      BY <2>1, <2>3b
    <3> QED  BY <2>6, <3>1, SubSeqProperties
  <2>8. DOMAIN s = 1..n
    BY <2>7
  <2>9. \A i \in 1..n : s[i] \in Nat /\ s[i] <= d
    <3>1. SUFFICES ASSUME NEW i \in 1..n  PROVE s[i] \in Nat /\ s[i] <= d
      OBVIOUS
    <3>2. i \in 1..(last - (below + 1) + 1) /\ below + 1 + i - 1 \in (below + 1)..last
      BY <2>1, <2>3b
    <3>3. PICK j \in (below + 1)..last : j = below + 1 + i - 1
      BY <3>2
    <3>4. s[i] = parts[j]
      BY <2>7, <3>2, <3>3
    <3> QED  BY <1>3, <2>6, <3>3, <3>4
  <2>10. totals[w] = Total(s)
    BY <1>5, <1>6, <2>1, <2>2, <2>3b
  <2> HIDE DEF s, n
  <2>11. Total(s) \in Nat
    BY <2>5, <2>8, <2>9, Totals
  <2>12. Total(s) <= width * d
    BY <1>1, <1>3, <2>5, <2>8, <2>9, TotalAtMost
  <2> QED  BY <2>10, <2>11, <2>12
<1>10. Densest(totals) \in Nat /\ Densest(totals) <= width * d
  BY <1>4, <1>6, <1>8, <1>9, Densities
<1> QED  BY <1>7, <1>10 DEF width, d, parts

LEMMA ExportFields ==
  ASSUME run \in Exports
  PROVE  /\ run.held \in Nat /\ run.levels \in Seq(Sizes) /\ run.target \in Nat
         /\ run.ceiling \in Nat \ {0} /\ run.auto \in BOOLEAN /\ run.member \in Nat
         /\ run.store \in Nat /\ run.slice \in Nat /\ run.slices \in Nat \ {0}
         /\ run.fillWant \in Nat /\ run.fillFloor \in Nat \ {0}
<1>1. run \in ExportType
  BY ExportAssumption
<1>2. /\ run.held \in Nat /\ run.levels \in Seq(Sizes) /\ run.target \in Nat
      /\ run.ceiling \in Nat \ {0} /\ run.auto \in BOOLEAN /\ run.member \in Nat
  BY <1>1, Zenon DEF ExportType, Sizes
<1>3. /\ run.store \in Nat /\ run.slice \in Nat /\ run.slices \in Nat \ {0}
      /\ run.fillWant \in Nat /\ run.fillFloor \in Nat \ {0}
  BY <1>1, Zenon DEF ExportType
<1> QED  BY <1>2, <1>3

\* What a saturated number can afford twice is not saturated.
LEMMA WaveAffordable ==
  ASSUME run \in Exports, reserved \in Nat, granted \in [Grants -> Nat],
         NEW parts \in Sizes
  PROVE  /\ Wave(parts) \in Nat \ {0}
         /\ /\ run.auto /\ run.member > 0 /\ run.profile # "speed"
            /\ Wave(parts) > 1 /\ parts # <<>>
            => Wave(parts) * (Densest(parts) * run.member)
                 <= Share("wave", Remaining(ledger))
<1> DEFINE d == Densest(parts)
           m == run.member
           c == run.ceiling
           price == Sat(d * m)
           aff == Affordable(ledger, "wave", price)
           rem == Remaining(ledger)
           share == Share("wave", rem)
<1>1. c \in Nat \ {0} /\ m \in Nat /\ run.profile \in {"bounded", "auto", "speed"}
  BY ExportFields, LimitTyped
<1>2. d \in Nat
  <2>1. Len(parts) \in Nat /\ DOMAIN parts = 1..Len(parts)
        /\ \A i \in 1..Len(parts) : parts[i] \in Nat
    BY DEF Sizes
  <2> QED  BY <2>1, Densities
<1>3. d * m \in Nat
  <2> HIDE DEF d, m
  <2> QED  BY <1>1, <1>2, ProductNat
<1>4. price \in Nat /\ (price < Top => price = d * m)
  <2> DEFINE p == d * m
  <2>1. p \in Nat
    BY <1>3
  <2>2. price = Sat(p)
    OBVIOUS
  <2> HIDE DEF p, price
  <2>3. price \in Nat /\ (price < Top => price = p)
    BY <2>1, <2>2, LedgerAssumption DEF Sat, Least
  <2> QED  BY <2>3 DEF p
<1>4a. price <= Top
  <2> DEFINE p == d * m
  <2>1. p \in Nat
    BY <1>3
  <2>2. price = Sat(p)
    OBVIOUS
  <2> HIDE DEF p, price
  <2> QED  BY <2>1, <2>2, LedgerAssumption DEF Sat, Least
<1>5. "wave" \in Grants
  BY DEF Grants
<1>6. rem \in Nat /\ rem <= Top
  <2>1. Remaining(ledger) \in Nat /\ Remaining(ledger) <= Base(reserved)
    BY RemainingBounded DEF ledger
  <2>2. Base(reserved) \in Nat /\ Base(reserved) <= Top /\ Top \in Nat
    BY BaseBounded, LedgerAssumption
  <2> HIDE DEF rem
  <2> QED  BY <2>1, <2>2 DEF rem
<1>7. share \in Nat /\ share <= rem
  <2> HIDE DEF rem
  <2> QED  BY <1>5, <1>6, ShareBounded
<1>8. aff \in Nat \ {0}
  <2>1. CASE run.profile = "speed"
    BY <2>1, LedgerAssumption DEF Affordable
  <2>2. CASE run.profile # "speed"
    <3> HIDE DEF price
    <3> QED  BY <1>4, <1>5, <2>2, AffordableBounded DEF ledger
  <2> QED  BY <2>1, <2>2
<1>9. ASSUME run.profile # "speed", aff > 1  PROVE aff * price <= share
  <2> HIDE DEF price
  <2> QED  BY <1>4, <1>5, <1>9, AffordableBounded DEF ledger
<1>10. \/ Wave(parts) = c
       \/ Wave(parts) = Least(c, aff)
  BY DEF Wave
<1>11. /\ run.auto /\ m > 0 /\ parts # <<>>
       => Wave(parts) = Least(c, aff)
  <2>1. m > 0 => m # 0
    BY <1>1
  <2> QED  BY <2>1 DEF Wave
<1> DEFINE size == Wave(parts)
<1> HIDE DEF d, m, c, price, aff, rem, share, size
<1>12. size \in Nat \ {0}
  BY <1>1, <1>8, <1>10 DEF Least, size
<1>13. ASSUME run.auto, m > 0, run.profile # "speed", size > 1, parts # <<>>
       PROVE  size * (d * m) <= share
  <2>1. size <= aff /\ aff > 1
    BY <1>1, <1>8, <1>11, <1>13 DEF Least, size
  <2>2. aff * price <= share
    BY <1>9, <1>13, <2>1
  <2>3. price < Top
    <3>1. 2 * price <= aff * price /\ aff * price \in Nat
      BY <1>4, <1>8, <2>1, ProductMonotone, ProductNat
    <3>2. Top \in Nat \ {0}
      BY LedgerAssumption
    <3> DEFINE q == aff * price
    <3> HIDE DEF q
    <3>3. 2 * price <= q /\ q \in Nat /\ q <= share
      BY <2>2, <3>1 DEF q
    <3> QED  BY <1>4, <1>6, <1>7, <3>2, <3>3
  <2>4. price = d * m
    BY <1>4, <2>3
  <2>5. size * price <= aff * price /\ size * price \in Nat /\ aff * price \in Nat
    BY <1>4, <1>8, <1>12, <2>1, ProductMonotone, ProductNat
  <2>6. size * price <= share
    BY <1>7, <2>2, <2>5
  <2> QED  BY <2>4, <2>6
<1> QED  BY <1>12, <1>13 DEF d, m, rem, share, size

\* So what a wave of more than one partition holds was affordable.
LEMMA WidestAffordable ==
  ASSUME run \in Exports, reserved \in Nat, granted \in [Grants -> Nat],
         NEW parts \in Sizes, NEW l, l = [parts |-> parts, wave |-> Wave(parts)],
         run.auto, run.member > 0, run.profile # "speed", l.wave > 1
  PROVE  WidestWave(l) * run.member <= Share("wave", Remaining(ledger))
<1> DEFINE d == Densest(parts)
           m == run.member
           width == Wave(parts)
           widest == WidestWave(l)
           share == Share("wave", Remaining(ledger))
<1>1. width \in Nat \ {0} /\ width > 1
      /\ (parts # <<>> => width * (d * m) <= share)
  BY WaveAffordable
<1>2. l \in Zooms /\ l.parts = parts /\ l.wave = width
  BY <1>1 DEF Zooms
<1>3. widest \in Nat /\ widest <= width * d
  BY <1>2, WidestBounded
<1>4. /\ Len(parts) \in Nat /\ DOMAIN parts = 1..Len(parts)
      /\ \A i \in 1..Len(parts) : parts[i] \in Nat
  BY DEF Sizes
<1>5. d \in Nat /\ (parts = <<>> => d <= 0)
  <2>1. d \in Nat /\ \A b \in Nat : (\A i \in 1..Len(parts) : parts[i] <= b) => d <= b
    BY <1>4, Densities
  <2>2. parts = <<>> => \A i \in 1..Len(parts) : FALSE
    OBVIOUS
  <2> HIDE DEF d
  <2> QED  BY <2>1, <2>2
<1>6. m \in Nat
  BY ExportFields
<1>7. share \in Nat
  <2>1. Remaining(ledger) \in Nat /\ "wave" \in Grants
    BY RemainingBounded DEF ledger, Grants
  <2> QED  BY <2>1, ShareBounded
<1> HIDE DEF d, m, width, widest, share
<1>8. widest * m <= (width * d) * m /\ widest * m \in Nat
  <2>1. width * d \in Nat
    BY <1>1, <1>5, ProductNat
  <2> QED  BY <1>3, <1>6, <2>1, ProductMonotone, ProductNat
<1>9. CASE parts # <<>>
  <2>1. (width * d) * m = width * (d * m)
    BY <1>1, <1>5, <1>6
  <2>2. width * (d * m) \in Nat
    BY <1>1, <1>5, <1>6, ProductNat
  <2> DEFINE a == widest * m  b == width * (d * m)
  <2>3. a \in Nat /\ b \in Nat /\ a <= b /\ b <= share
    BY <1>1, <1>8, <1>9, <2>1, <2>2
  <2> HIDE DEF a, b
  <2>4. a <= share
    BY <1>7, <2>3
  <2> QED  BY <2>4 DEF a, m, widest, share
<1>10. CASE parts = <<>>
  <2>1. d = 0
    BY <1>5, <1>10
  <2>2. width * d = 0
    BY <1>1, <2>1
  <2>3. widest = 0
    BY <1>3, <2>2
  <2>4. widest * m = 0
    BY <1>6, <2>3
  <2> QED  BY <1>7, <2>4 DEF m, widest, share
<1> QED  BY <1>9, <1>10

\* plan_partitions makes partitions of at least one member.
LEMMA PartitionsTyped ==
  ASSUME run \in Exports, NEW tiles \in Sizes
  PROVE  Partitions(tiles) \in Sizes
<1> DEFINE n == Len(tiles)
           S == [shut : Sizes, open : Nat]
           a == [shut |-> <<>>, open |-> 0]
           g == [k \in 1..n |-> [acc \in S |-> Add(acc, tiles[k])]]
           Steps(f) == [i \in 0..n |-> IF i = 0 THEN a ELSE Add(f[i - 1], tiles[i])]
           cut == CHOOSE f : f = Steps(f)
<1>1. n \in Nat /\ \A k \in 1..n : tiles[k] \in Nat \ {0}
  BY DEF Sizes
<1>2. ASSUME NEW acc \in S, NEW t \in Nat \ {0}  PROVE Add(acc, t) \in S
  <2>1. acc.shut \in Sizes /\ acc.open \in Nat /\ acc.open + t \in Nat \ {0}
    OBVIOUS
  <2>2. Append(acc.shut, acc.open + t) \in Sizes
    BY <2>1 DEF Sizes
  <2>3. [shut |-> Append(acc.shut, acc.open + t), open |-> 0] \in S
    BY <2>2
  <2>4. [acc EXCEPT !.open = acc.open + t] \in S
    BY <2>1
  <2> HIDE DEF S
  <2> QED  BY <2>3, <2>4 DEF Add
<1>3. a \in S
  BY DEF Sizes
<1>4. \A k \in 1..n : \A acc \in S : g[k][acc] = Add(acc, tiles[k])
  OBVIOUS
<1>5. Keeps(g, n, S)
  <2> HIDE DEF S, g, n
  <2> QED  BY <1>1, <1>2, <1>4 DEF Keeps
<1>6. \E f : f = Steps(f)
  <2>1. PICK f : Folded(f, n, S, a, g)
    <3> HIDE DEF S, g, n, a
    <3> QED  BY <1>1, <1>3, <1>5, Folding
  <2>2. f \in [0..n -> S] /\ f[0] = a /\ \A k \in 1..n : f[k] = g[k][f[k - 1]]
    BY <2>1 DEF Folded
  <2>3. ASSUME NEW i \in 0..n
        PROVE  f[i] = IF i = 0 THEN a ELSE Add(f[i - 1], tiles[i])
    <3>1. CASE i = 0
      BY <2>2, <3>1
    <3>2. CASE i # 0
      <4>1. i \in 1..n /\ i - 1 \in 0..n
        BY <1>1, <3>2
      <4>2. f[i - 1] \in S /\ f[i] = g[i][f[i - 1]]
        BY <2>2, <4>1
      <4>3. g[i][f[i - 1]] = Add(f[i - 1], tiles[i])
        <5> HIDE DEF S, g, n
        <5> QED  BY <1>4, <4>1, <4>2
      <4> QED  BY <3>2, <4>2, <4>3
    <3> QED  BY <3>1, <3>2
  <2>4. f = Steps(f)
    <3> HIDE DEF S, g, a
    <3> QED  BY <2>2, <2>3
  <2> QED  BY <2>4
<1>7. cut = Steps(cut)
  <2> HIDE DEF Steps
  <2> QED  BY <1>6
<1>8. cut[n] \in S
  <2> HIDE DEF S, cut, n, a
  <2>0. cut = [i \in 0..n |-> IF i = 0 THEN a ELSE Add(cut[i - 1], tiles[i])]
    BY <1>7
  <2>1. cut[0] = a
    BY <1>1, <2>0
  <2>2. \A k \in 1..n : cut[k] = Add(cut[k - 1], tiles[k])
    BY <1>1, <2>0
  <2>3. \A k \in 1..n : cut[k - 1] \in S => cut[k] \in S
    BY <1>1, <1>2, <2>2
  <2>4. \A k \in 0..n : cut[k] \in S
    BY <1>1, <1>3, <2>1, <2>3, FoldingStays
  <2> QED  BY <1>1, <2>4
<1>9. Partitions(tiles) = IF cut[n].open > 0 THEN Append(cut[n].shut, cut[n].open)
                          ELSE cut[n].shut
  BY DEF Partitions
<1> HIDE DEF cut, n
<1>10. cut[n].open \in Nat /\ cut[n].shut \in Sizes
  BY <1>8
<1>11. cut[n].open > 0 => Append(cut[n].shut, cut[n].open) \in Sizes
  BY <1>10 DEF Sizes
<1> QED  BY <1>9, <1>10, <1>11

\* The members of a group's levels.
InGroup(ls, g) == Total([i \in DOMAIN g |-> Members(ls[g[i]])])

LEMMA MembersTyped ==
  ASSUME NEW l \in Zooms
  PROVE  Members(l) \in Nat
<1>1. l.parts \in Sizes
  BY DEF Zooms
<1>2. Len(l.parts) \in Nat /\ DOMAIN l.parts = 1..Len(l.parts)
      /\ \A i \in 1..Len(l.parts) : l.parts[i] \in Nat
  BY <1>1 DEF Sizes
<1> QED  BY <1>2, Totals DEF Members

LEMMA InGroupTyped ==
  ASSUME NEW ls \in Seq(Zooms), NEW g \in Seq(1..Len(ls))
  PROVE  InGroup(ls, g) \in Nat
<1> DEFINE n == Len(g)
           f == [i \in DOMAIN g |-> Members(ls[g[i]])]
<1>1. n \in Nat /\ DOMAIN g = 1..n /\ \A i \in 1..n : ls[g[i]] \in Zooms
  OBVIOUS
<1>2. \A i \in 1..n : f[i] \in Nat
  BY <1>1, MembersTyped
<1>3. DOMAIN f = 1..n
  BY <1>1
<1> HIDE DEF f, n
<1>4. Total(f) \in Nat
  BY <1>1, <1>2, <1>3, Totals
<1> QED  BY <1>4 DEF InGroup, f

LEMMA InGroupAppend ==
  ASSUME NEW ls \in Seq(Zooms), NEW g \in Seq(1..Len(ls)), NEW k \in 1..Len(ls)
  PROVE  InGroup(ls, Append(g, k)) = InGroup(ls, g) + Members(ls[k])
<1> DEFINE n == Len(g)
           h == Append(g, k)
           f == [i \in DOMAIN g |-> Members(ls[g[i]])]
           e == [i \in DOMAIN h |-> Members(ls[h[i]])]
<1>1. n \in Nat /\ DOMAIN g = 1..n /\ \A i \in 1..n : g[i] \in 1..Len(ls)
  OBVIOUS
<1>2. PICK m \in Nat : m = n + 1
  BY <1>1
<1>3. DOMAIN h = 1..m /\ h[m] = k /\ \A i \in 1..n : h[i] = g[i]
  BY <1>1, <1>2
<1>4. \A i \in 1..n : f[i] = Members(ls[g[i]]) /\ f[i] \in Nat
  BY <1>1, MembersTyped
<1>5. \A i \in 1..n : e[i] = f[i]
  BY <1>1, <1>2, <1>3, <1>4
<1>6. e[m] = Members(ls[k]) /\ Members(ls[k]) \in Nat
  BY <1>1, <1>2, <1>3, MembersTyped
<1>7. DOMAIN f = 1..n /\ DOMAIN e = 1..m
  BY <1>1, <1>3
<1>8. InGroup(ls, g) = SumFunctionOnSet(f, 1..n) /\ InGroup(ls, h) = SumFunctionOnSet(e, 1..m)
  BY <1>7 DEF InGroup, Total
<1> HIDE DEF f, e, h, n
<1>9. \A i \in 1..m : e[i] \in Nat
  <2>1. \A i \in 1..m : i \in 1..n \/ i = m
    BY <1>1, <1>2
  <2> QED  BY <1>4, <1>5, <1>6, <2>1
<1>10. m \in 1..m /\ m - 1 = n
  BY <1>1, <1>2
<1>11. SumFunctionOnSet(e, 1..m) = SumFunctionOnSet(e, 1..(m - 1)) + e[m]
  BY <1>9, <1>10, PrefixSums
<1>12. IsFiniteSet(1..n)
  BY <1>1, FS_Interval
<1>13. SumFunctionOnSet(e, 1..n) = SumFunctionOnSet(f, 1..n)
  BY <1>4, <1>5, <1>12, SameSum
<1>14. InGroup(ls, h) = InGroup(ls, g) + Members(ls[k])
  BY <1>6, <1>8, <1>10, <1>11, <1>13
<1> QED  BY <1>14 DEF h

LEMMA InGroupEmpty ==
  ASSUME NEW ls
  PROVE  InGroup(ls, <<>>) = 0
<1> DEFINE f == [i \in DOMAIN <<>> |-> Members(ls[<<>>[i]])]
<1>1. DOMAIN f = 1..0 /\ \A i \in 1..0 : f[i] \in Nat
  OBVIOUS
<1> HIDE DEF f
<1>2. SumFunctionOnSet(f, 1..0) = 0
  BY <1>1, PrefixSums
<1> QED  BY <1>1, <1>2 DEF InGroup, Total, f

\* Every group has a level, and if it has more their members are within the cap.
SoundGroups(ls, cap, gs) ==
  \A i \in DOMAIN gs : /\ gs[i] # <<>>
                       /\ Len(gs[i]) = 1 \/ InGroup(ls, gs[i]) <= cap

\* A group that is open has the sum of its members at hand.
Joined(ls, cap) ==
  {acc \in [groups : Seq(Seq(1..Len(ls))), open : BOOLEAN, sum : Nat] :
     /\ SoundGroups(ls, cap, acc.groups)
     /\ acc.open => /\ acc.groups # <<>>
                    /\ acc.sum = InGroup(ls, Last(acc.groups))}

LEMMA GroupReplaced ==
  ASSUME NEW S, NEW gs \in Seq(S), gs # <<>>, NEW g \in S
  PROVE  LET new == Front(gs) \o <<g>>
         IN  /\ new \in Seq(S) /\ DOMAIN new = DOMAIN gs /\ Len(gs) \in DOMAIN gs
             /\ new # <<>> /\ Last(new) = g /\ new[Len(gs)] = g
             /\ \A i \in DOMAIN gs : i # Len(gs) => new[i] = gs[i]
<1> DEFINE n == Len(gs)
           f == Front(gs)
           new == f \o <<g>>
<1>1. n \in Nat \ {0} /\ DOMAIN gs = 1..n /\ \A i \in 1..n : gs[i] \in S
  <2>1. n \in Nat /\ DOMAIN gs = 1..n /\ \A i \in 1..n : gs[i] \in S
    OBVIOUS
  <2>2. n # 0
    OBVIOUS
  <2> QED  BY <2>1, <2>2
<1>2. f = SubSeq(gs, 1, n - 1)
  BY DEF Front
<1>3. /\ SubSeq(gs, 1, n - 1) \in Seq(S)
      /\ Len(SubSeq(gs, 1, n - 1)) = IF 1 <= n - 1 THEN n - 1 - 1 + 1 ELSE 0
      /\ \A i \in 1..(n - 1 - 1 + 1) : SubSeq(gs, 1, n - 1)[i] = gs[1 + i - 1]
  <2>1. 1 \in Int /\ n - 1 \in Int /\ \A i \in 1..(n - 1) : gs[i] \in S
    BY <1>1
  <2> QED  BY <2>1, SubSeqProperties
<1> HIDE DEF f
<1>4. f \in Seq(S) /\ Len(f) = n - 1 /\ \A i \in 1..(n - 1) : f[i] = gs[i]
  <2>1. Len(f) = n - 1
    BY <1>1, <1>2, <1>3
  <2>2. \A i \in 1..(n - 1) : i \in 1..(n - 1 - 1 + 1) /\ 1 + i - 1 = i
    BY <1>1
  <2>3. \A i \in 1..(n - 1) : f[i] = gs[i]
    BY <1>2, <1>3, <2>2
  <2> QED  BY <1>2, <1>3, <2>1, <2>3
<1>4a. PICK m \in Nat : m = Len(f)
  <2>1. f \in Seq(S)
    BY <1>4
  <2>2. Len(f) \in Nat
    BY ONLY <2>1
  <2> QED  BY ONLY <2>2
<1> HIDE DEF n
<1>4b. m + 1 = n /\ \A i \in 1..m : f[i] = gs[i]
  <2>1. m = n - 1
    BY <1>4, <1>4a
  <2>2. n \in Nat \ {0}
    BY <1>1
  <2>3. m + 1 = n /\ \A i \in 1..m : i \in 1..(n - 1)
    BY ONLY <2>1, <2>2
  <2> QED  BY <1>4, <2>3
<1>5. <<g>> \in Seq(S) /\ Len(<<g>>) = 1 /\ <<g>>[1] = g
  OBVIOUS
<1>6. /\ new \in Seq(S) /\ Len(new) = Len(f) + 1
      /\ \A i \in 1..(Len(f) + 1) : new[i] = IF i <= Len(f) THEN f[i] ELSE <<g>>[i - Len(f)]
  BY <1>4, <1>5, ConcatProperties
<1>6a. /\ new \in Seq(S) /\ Len(new) = m + 1
       /\ \A i \in 1..(m + 1) : new[i] = IF i <= m THEN f[i] ELSE <<g>>[i - m]
  BY <1>4a, <1>6
<1> HIDE DEF new
<1>7. Len(new) = n
  BY <1>4b, <1>6a
<1>8. new[n] = g
  <2>1. n \in 1..(m + 1) /\ ~(n <= m) /\ n - m = 1
    BY <1>4a, <1>4b
  <2> QED  BY <1>5, <1>6a, <2>1
<1>9. \A i \in 1..n : i # n => new[i] = gs[i]
  <2> SUFFICES ASSUME NEW i \in 1..n, i # n  PROVE new[i] = gs[i]
    OBVIOUS
  <2>1. i \in 1..(m + 1) /\ i <= m /\ i \in 1..m
    BY <1>1, <1>4a, <1>4b
  <2> QED  BY <1>4b, <1>6a, <2>1
<1>10. DOMAIN new = 1..n
  BY <1>6a, <1>7
<1>11. new # <<>>
  BY <1>1, <1>7
<1>12. Last(new) = g
  BY <1>7, <1>8 DEF Last
<1>13. n \in DOMAIN gs /\ DOMAIN new = DOMAIN gs
  BY <1>1, <1>10
<1>14. \A i \in DOMAIN gs : i # n => new[i] = gs[i]
  BY <1>1, <1>9
<1> QED  BY <1>6a, <1>8, <1>11, <1>12, <1>13, <1>14 DEF new, f, n

LEMMA JoinSound ==
  ASSUME NEW ls \in Seq(Zooms), NEW cap \in Nat, NEW acc \in Joined(ls, cap),
         NEW k \in 1..Len(ls)
  PROVE  Join(ls, cap, acc, k) \in Joined(ls, cap)
<1> DEFINE gs == acc.groups
           T == Seq(1..Len(ls))
           mine == Members(ls[k])
<1>1. /\ gs \in Seq(T) /\ acc.open \in BOOLEAN /\ acc.sum \in Nat
      /\ SoundGroups(ls, cap, gs)
      /\ acc.open => gs # <<>> /\ acc.sum = InGroup(ls, Last(gs))
  BY DEF Joined
<1>2. mine \in Nat
  <2>1. ls[k] \in Zooms
    OBVIOUS
  <2> QED  BY <2>1, MembersTyped
<1>3. SingleWave(ls[k]) \in BOOLEAN
  BY DEF SingleWave
<1>4. CASE acc.open /\ SingleWave(ls[k]) /\ acc.sum + mine <= cap
  <2> DEFINE g == Append(Last(gs), k)
             new == Front(gs) \o <<g>>
  <2>1. gs # <<>> /\ acc.sum = InGroup(ls, Last(gs))
    BY <1>1, <1>4
  <2>2. Last(gs) \in T
    <3>1. Len(gs) \in 1..Len(gs)
      <4>1. Len(gs) \in Nat /\ Len(gs) # 0
        BY <1>1, <2>1
      <4> QED  BY <4>1
    <3> HIDE DEF gs, T
    <3> QED  BY <1>1, <3>1 DEF Last
  <2>3. g \in T /\ g # <<>> /\ InGroup(ls, g) = acc.sum + mine
    <3>1. InGroup(ls, g) = InGroup(ls, Last(gs)) + mine
      BY <2>2, InGroupAppend
    <3>2. g \in T /\ g # <<>>
      <4> HIDE DEF gs
      <4> QED  BY <2>2, AppendProperties
    <3> QED  BY <2>1, <3>1, <3>2
  <2>4. Join(ls, cap, acc, k) = [groups |-> new, open |-> TRUE, sum |-> acc.sum + mine]
    BY <1>4 DEF Join
  <2> HIDE DEF gs, T, mine, g
  <2>5. /\ new \in Seq(T) /\ DOMAIN new = DOMAIN gs /\ new # <<>> /\ Last(new) = g
        /\ new[Len(gs)] = g /\ \A i \in DOMAIN gs : i # Len(gs) => new[i] = gs[i]
    BY <1>1, <2>1, <2>3, GroupReplaced
  <2> HIDE DEF new
  <2>6. SoundGroups(ls, cap, new)
    <3> SUFFICES ASSUME NEW i \in DOMAIN gs
                 PROVE  new[i] # <<>> /\ (Len(new[i]) = 1 \/ InGroup(ls, new[i]) <= cap)
      BY <2>5 DEF SoundGroups
    <3>1. CASE i = Len(gs)
      BY <1>4, <2>3, <2>5, <3>1
    <3>2. CASE i # Len(gs)
      BY <1>1, <2>5, <3>2 DEF SoundGroups
    <3> QED  BY <3>1, <3>2
  <2>7. acc.sum + mine \in Nat
    BY <1>1, <1>2
  <2> QED  BY <2>3, <2>4, <2>5, <2>6, <2>7 DEF Joined, T
<1>5. CASE ~(acc.open /\ SingleWave(ls[k]) /\ acc.sum + mine <= cap)
  <2> DEFINE g == <<k>>
             new == Append(gs, g)
             o == SingleWave(ls[k]) /\ mine <= cap
  <2>1. g \in T /\ Len(g) = 1 /\ g # <<>>
    OBVIOUS
  <2>2. InGroup(ls, g) = mine
    <3>1. <<>> \in T /\ g = Append(<<>>, k)
      OBVIOUS
    <3>2. InGroup(ls, Append(<<>>, k)) = InGroup(ls, <<>>) + mine
      BY <3>1, InGroupAppend
    <3>3. InGroup(ls, <<>>) = 0
      BY InGroupEmpty
    <3> HIDE DEF mine, g
    <3> QED  BY <1>2, <3>1, <3>2, <3>3
  <2>3. Join(ls, cap, acc, k) = [groups |-> new, open |-> o, sum |-> mine]
    BY <1>5 DEF Join
  <2>4. o \in BOOLEAN
    OBVIOUS
  <2> HIDE DEF gs, T, mine, g, o
  <2>5. /\ new \in Seq(T) /\ new # <<>> /\ Len(new) = Len(gs) + 1
        /\ \A i \in 1..Len(gs) : new[i] = gs[i]
        /\ new[Len(gs) + 1] = g
    BY <1>1, <2>1, AppendProperties
  <2>6. Last(new) = g
    BY <2>5 DEF Last
  <2>7. Len(gs) \in Nat /\ DOMAIN gs = 1..Len(gs)
    BY <1>1
  <2> HIDE DEF new
  <2>8. DOMAIN new = 1..(Len(gs) + 1)
    BY <2>5
  <2>9. SoundGroups(ls, cap, new)
    <3> SUFFICES ASSUME NEW i \in 1..(Len(gs) + 1)
                 PROVE  new[i] # <<>> /\ (Len(new[i]) = 1 \/ InGroup(ls, new[i]) <= cap)
      BY <2>8 DEF SoundGroups
    <3>1. CASE i = Len(gs) + 1
      BY <2>1, <2>5, <3>1
    <3>2. CASE i # Len(gs) + 1
      <4>1. i \in 1..Len(gs)
        BY <2>7, <3>2
      <4> QED  BY <1>1, <2>5, <2>7, <4>1 DEF SoundGroups
    <3> QED  BY <3>1, <3>2
  <2> QED  BY <1>2, <2>2, <2>3, <2>4, <2>5, <2>6, <2>9 DEF Joined, T
<1> QED  BY <1>4, <1>5

\* plan_level_groups: the groups it makes of the levels.
LEMMA GroupsSound ==
  ASSUME NEW ls \in Seq(Zooms), NEW cap \in Nat
  PROVE  Groups(ls, cap) \in Seq(Seq(1..Len(ls))) /\ SoundGroups(ls, cap, Groups(ls, cap))
<1> DEFINE n == Len(ls)
           S == Joined(ls, cap)
           a == [groups |-> <<>>, open |-> FALSE, sum |-> 0]
           g == [k \in 1..n |-> [acc \in S |-> Join(ls, cap, acc, k)]]
           Steps(f) == [i \in 0..n |-> IF i = 0 THEN a ELSE Join(ls, cap, f[i - 1], i)]
           cut == CHOOSE f : f = Steps(f)
<1>1. n \in Nat
  OBVIOUS
<1>2. CASE cap = 0
  <2> DEFINE gs == [i \in 1..n |-> <<i>>]
  <2>1. Groups(ls, cap) = gs
    BY <1>2 DEF Groups
  <2>2. \A i \in 1..n : <<i>> \in Seq(1..n) /\ <<i>> # <<>> /\ Len(<<i>>) = 1
    OBVIOUS
  <2>3. gs \in Seq(Seq(1..n))
    BY <1>1, <2>2
  <2>4. DOMAIN gs = 1..n /\ \A i \in 1..n : gs[i] = <<i>>
    OBVIOUS
  <2> HIDE DEF gs, n
  <2>5. SoundGroups(ls, cap, gs)
    BY <2>2, <2>4 DEF SoundGroups
  <2> QED  BY <2>1, <2>3, <2>5 DEF n
<1>3. CASE cap # 0
  <2>1. a \in S
    <3>1. <<>> \in Seq(Seq(1..Len(ls))) /\ DOMAIN <<>> = {}
      OBVIOUS
    <3> QED  BY <3>1 DEF Joined, SoundGroups
  <2>2. \A k \in 1..n : \A acc \in S : g[k][acc] = Join(ls, cap, acc, k)
    OBVIOUS
  <2>3. \A k \in 1..n : \A acc \in S : Join(ls, cap, acc, k) \in S
    BY JoinSound
  <2>4. Keeps(g, n, S)
    <3> HIDE DEF S, g, n
    <3> QED  BY <2>2, <2>3 DEF Keeps
  <2>5. \E f : f = Steps(f)
    <3>1. PICK f : Folded(f, n, S, a, g)
      <4> HIDE DEF S, g, n, a
      <4> QED  BY <1>1, <2>1, <2>4, Folding
    <3>2. f \in [0..n -> S] /\ f[0] = a /\ \A k \in 1..n : f[k] = g[k][f[k - 1]]
      BY <3>1 DEF Folded
    <3>3. ASSUME NEW i \in 0..n
          PROVE  f[i] = IF i = 0 THEN a ELSE Join(ls, cap, f[i - 1], i)
      <4>1. CASE i = 0
        BY <3>2, <4>1
      <4>2. CASE i # 0
        <5>1. i \in 1..n /\ i - 1 \in 0..n
          BY <1>1, <4>2
        <5>2. f[i - 1] \in S /\ f[i] = g[i][f[i - 1]]
          BY <3>2, <5>1
        <5>3. g[i][f[i - 1]] = Join(ls, cap, f[i - 1], i)
          <6> HIDE DEF S, g, n
          <6> QED  BY <2>2, <5>1, <5>2
        <5> QED  BY <4>2, <5>2, <5>3
      <4> QED  BY <4>1, <4>2
    <3>4. f = Steps(f)
      <4> HIDE DEF S, g, a
      <4> QED  BY <3>2, <3>3
    <3> QED  BY <3>4
  <2>6. cut = Steps(cut)
    <3> HIDE DEF Steps
    <3> QED  BY <2>5
  <2>7. cut[n] \in S
    <3> HIDE DEF S, cut, n, a
    <3>1. cut = [i \in 0..n |-> IF i = 0 THEN a ELSE Join(ls, cap, cut[i - 1], i)]
      BY <2>6
    <3>2. cut[0] = a
      BY <1>1, <3>1
    <3>3. \A k \in 1..n : cut[k] = Join(ls, cap, cut[k - 1], k)
      BY <1>1, <3>1
    <3>4. \A k \in 1..n : cut[k - 1] \in S => cut[k] \in S
      BY <1>1, <2>3, <3>3
    <3>5. \A k \in 0..n : cut[k] \in S
      BY <1>1, <2>1, <3>2, <3>4, FoldingStays
    <3> QED  BY <1>1, <3>5
  <2>8. Groups(ls, cap) = cut[n].groups
    BY <1>3 DEF Groups
  <2> HIDE DEF cut, n
  <2> QED  BY <2>7, <2>8 DEF Joined
<1> QED  BY <1>2, <1>3

\* A partition has members, so a group has no more partitions than members.
LEMMA PartsHold ==
  ASSUME NEW l \in Zooms
  PROVE  /\ Len(l.parts) \in Nat /\ Len(l.parts) <= Members(l)
         /\ Len(l.parts) = 0 => Members(l) = 0
<1> DEFINE s == l.parts
           D == 1..Len(s)
           ones == [i \in D |-> 1]
<1>1. s \in Sizes
  BY DEF Zooms
<1>2. Len(s) \in Nat /\ DOMAIN s = D /\ \A i \in D : s[i] \in Nat /\ 1 <= s[i]
  BY <1>1 DEF Sizes
<1>3. IsFiniteSet(D) /\ Cardinality(D) = Len(s)
  <2>1. PICK n \in Nat : n = Len(s)
    BY <1>2
  <2>2. IsFiniteSet(1..n) /\ Cardinality(1..n) = IF 1 > n THEN 0 ELSE n - 1 + 1
    BY FS_Interval
  <2> QED  BY <2>1, <2>2
<1>4. \A i \in D : ones[i] = 1 /\ ones[i] \in Nat /\ s[i] \in Nat /\ ones[i] <= s[i]
  BY <1>2
<1>5. Members(l) = SumFunctionOnSet(s, D)
  BY <1>2 DEF Members, Total
<1> HIDE DEF s, D, ones
<1>6. SumFunctionOnSet(ones, D) = Len(s)
  BY <1>3, <1>4, SumOfOnes
<1>7. SumFunctionOnSet(ones, D) <= SumFunctionOnSet(s, D)
  BY <1>3, <1>4, SumMonotone
<1>8. ASSUME Len(s) = 0  PROVE Members(l) = 0
  <2>1. D = 1..0
    BY <1>8 DEF D
  <2>2. SumFunctionOnSet(s, 1..0) = 0
    <3>1. \A i \in 1..0 : s[i] \in Nat
      OBVIOUS
    <3> QED  BY <3>1, PrefixSums
  <2> QED  BY <1>5, <2>1, <2>2
<1> QED  BY <1>2, <1>5, <1>6, <1>7, <1>8 DEF s

PartsIn(ls, g) == Total([i \in DOMAIN g |-> Len(ls[g[i]].parts)])

LEMMA PartsInGroup ==
  ASSUME NEW ls \in Seq(Zooms), NEW g \in Seq(1..Len(ls)), InGroup(ls, g) <= 1
  PROVE  PartsIn(ls, g) = 1 \/ InGroup(ls, g) = 0
<1> DEFINE n == Len(g)
           f == [i \in DOMAIN g |-> Len(ls[g[i]].parts)]
           e == [i \in DOMAIN g |-> Members(ls[g[i]])]
<1>1. n \in Nat /\ DOMAIN g = 1..n /\ \A i \in 1..n : ls[g[i]] \in Zooms
  OBVIOUS
<1>2. \A i \in 1..n : f[i] = Len(ls[g[i]].parts) /\ e[i] = Members(ls[g[i]])
  BY <1>1
<1>3. \A i \in 1..n : /\ f[i] \in Nat /\ e[i] \in Nat /\ f[i] <= e[i]
                      /\ f[i] = 0 => e[i] = 0
  BY <1>1, <1>2, PartsHold, MembersTyped
<1>4. PartsIn(ls, g) = Total(f) /\ InGroup(ls, g) = Total(e)
  BY DEF PartsIn, InGroup
<1>5. DOMAIN f = 1..n /\ DOMAIN e = 1..n
  BY <1>1
<1> HIDE DEF n, f, e
<1>6. Total(f) \in Nat /\ Total(e) \in Nat /\ \A i \in 1..n : f[i] <= Total(f)
  BY <1>1, <1>3, <1>5, Totals
<1>7. Total(f) <= Total(e)
  <2>1. IsFiniteSet(1..n)
    BY <1>1, FS_Interval
  <2>2. SumFunctionOnSet(f, 1..n) <= SumFunctionOnSet(e, 1..n)
    BY <1>3, <2>1, SumMonotone
  <2> QED  BY <1>5, <2>2 DEF Total
<1>8. CASE Total(f) = 0
  <2>1. \A i \in 1..n : e[i] \in Nat /\ e[i] <= 0
    BY <1>3, <1>6, <1>8
  <2>2. Total(e) <= n * 0
    <3>1. 0 \in Nat /\ n <= n
      BY <1>1
    <3> QED  BY <1>1, <1>5, <2>1, <3>1, TotalAtMost
  <2>3. n * 0 = 0
    BY <1>1
  <2> QED  BY <1>4, <1>6, <2>2, <2>3
<1>9. CASE Total(f) # 0
  BY <1>4, <1>6, <1>7, <1>9
<1> QED  BY <1>8, <1>9

\* HeldAtOnce and OnePartition, of levels that are given.
HeldIn(ls, g) == IF Len(g) = 1 THEN WidestWave(ls[g[1]]) ELSE InGroup(ls, g)
OneIn(ls, g) == \/ Len(g) = 1 /\ ls[g[1]].wave = 1
                \/ PartsIn(ls, g) = 1

\* Levels and groups whose waves fit s, members priced at m.
WavesFit(ls, s, m) ==
  \A k \in DOMAIN ls : ls[k].wave > 1 => WidestWave(ls[k]) * m <= s
GroupsFit(ls, gs, s, m) ==
  \A i \in DOMAIN gs : OneIn(ls, gs[i]) \/ HeldIn(ls, gs[i]) * m <= s

\* The width is the export's to choose, and memory is negotiated.
Negotiated == run.auto /\ run.member > 0 /\ run.profile # "speed"

LEMMA CapTyped ==
  ASSUME run \in Exports, reserved \in Nat, granted \in [Grants -> Nat]
  PROVE  /\ GroupCap \in Nat
         /\ Negotiated => GroupCap <= Affordable(ledger, "wave", run.member)
<1> DEFINE w == Sat(run.ceiling * run.target)
           aff == Affordable(ledger, "wave", run.member)
<1>1. run.ceiling \in Nat /\ run.target \in Nat /\ run.member \in Nat
      /\ run.profile \in {"bounded", "auto", "speed"}
  BY ExportFields, LimitTyped
<1>2. w \in Nat
  <2>1. run.ceiling * run.target \in Nat
    BY <1>1, ProductNat
  <2> DEFINE p == run.ceiling * run.target
  <2> HIDE DEF p
  <2>2. Sat(p) \in Nat
    BY <2>1, LedgerAssumption DEF Sat, Least, p
  <2> QED  BY <2>2 DEF p
<1>3. aff \in Nat
  <2>1. CASE run.profile = "speed"
    BY <2>1, LedgerAssumption DEF Affordable
  <2>2. CASE run.profile # "speed"
    <3>1. "wave" \in Grants
      BY DEF Grants
    <3> QED  BY <1>1, <2>2, <3>1, AffordableBounded DEF ledger
  <2> QED  BY <2>1, <2>2
<1>4. GroupCap = w \/ GroupCap = Least(w, aff)
  BY DEF GroupCap
<1>5. Negotiated => GroupCap = Least(w, aff)
  <2>1. run.member > 0 => run.member # 0
    BY <1>1
  <2> QED  BY <2>1 DEF GroupCap, Negotiated
<1> HIDE DEF w, aff
<1>6. Least(w, aff) \in Nat /\ Least(w, aff) <= aff
  BY <1>2, <1>3 DEF Least
<1> QED  BY <1>2, <1>4, <1>5, <1>6 DEF aff

\* What plan_level_groups puts together was affordable together.
LEMMA GroupAffordable ==
  ASSUME run \in Exports, reserved \in Nat, granted \in [Grants -> Nat], Negotiated,
         NEW ls \in Seq(Zooms), NEW gs \in Seq(Seq(1..Len(ls))),
         SoundGroups(ls, GroupCap, gs),
         WavesFit(ls, Share("wave", Remaining(ledger)), run.member)
  PROVE  GroupsFit(ls, gs, Share("wave", Remaining(ledger)), run.member)
<1> DEFINE m == run.member
           share == Share("wave", Remaining(ledger))
           aff == Affordable(ledger, "wave", m)
<1>1. m \in Nat \ {0} /\ run.profile # "speed"
  BY ExportFields DEF Negotiated
<1>2. "wave" \in Grants
  BY DEF Grants
<1>3. aff \in Nat \ {0} /\ (aff > 1 => aff * m <= share)
  <2> HIDE DEF m
  <2> QED  BY <1>1, <1>2, AffordableBounded DEF ledger
<1>4. share \in Nat
  <2>1. Remaining(ledger) \in Nat
    BY RemainingBounded DEF ledger
  <2> QED  BY <1>2, <2>1, ShareBounded
<1>5. GroupCap \in Nat /\ GroupCap <= aff
  BY CapTyped
<1> HIDE DEF m, share, aff
<1>6. SUFFICES ASSUME NEW i \in DOMAIN gs, ~OneIn(ls, gs[i])
               PROVE  HeldIn(ls, gs[i]) * m <= share
  BY DEF GroupsFit, m, share
<1>7. PICK g \in Seq(1..Len(ls)) : g = gs[i]
  OBVIOUS
<1>8. g # <<>> /\ (Len(g) = 1 \/ InGroup(ls, g) <= GroupCap)
  BY <1>7 DEF SoundGroups
<1>9. CASE Len(g) = 1
  <2>1. g[1] \in 1..Len(ls) /\ g[1] \in DOMAIN ls /\ ls[g[1]] \in Zooms
    <3>1. 1 \in DOMAIN g
      BY <1>9
    <3>2. g[1] \in 1..Len(ls) /\ DOMAIN ls = 1..Len(ls)
      BY <3>1
    <3> QED  BY <3>2
  <2>2. ls[g[1]].wave \in Nat \ {0} /\ ls[g[1]].wave # 1
    BY <1>6, <1>7, <1>9, <2>1 DEF OneIn, Zooms
  <2>3. WidestWave(ls[g[1]]) * m <= share
    <3>1. ls[g[1]].wave > 1
      <4>1. \A x \in Nat \ {0} : x # 1 => x > 1
        OBVIOUS
      <4> QED  BY <2>2, <4>1
    <3>2. \A k \in DOMAIN ls : ls[k].wave > 1 => WidestWave(ls[k]) * m <= share
      BY DEF WavesFit, m, share
    <3> QED  BY <2>1, <3>1, <3>2
  <2> QED  BY <1>7, <1>9, <2>3 DEF HeldIn
<1>10. CASE Len(g) # 1
  <2> DEFINE sum == InGroup(ls, g)
  <2>1. sum \in Nat
    BY InGroupTyped
  <2>2. sum <= GroupCap /\ HeldIn(ls, g) = sum
    BY <1>8, <1>10 DEF HeldIn
  <2>3. ASSUME sum <= 1  PROVE sum = 0
    <3>1. PartsIn(ls, g) = 1 \/ sum = 0
      BY <2>3, PartsInGroup
    <3>2. PartsIn(ls, g) # 1
      BY <1>6, <1>7 DEF OneIn
    <3> QED  BY <3>1, <3>2
  <2> HIDE DEF sum
  <2>4. CASE sum <= 1
    <3>1. sum * m = 0
      BY <1>1, <2>3, <2>4
    <3> QED  BY <1>4, <1>7, <2>2, <3>1
  <2>5. CASE sum > 1
    <3>1. sum <= aff /\ aff > 1
      BY <1>3, <1>5, <2>1, <2>2, <2>5
    <3>2. sum * m <= aff * m /\ sum * m \in Nat /\ aff * m \in Nat
      BY <1>1, <1>3, <2>1, <3>1, ProductMonotone, ProductNat
    <3> DEFINE x == sum * m  y == aff * m
    <3>3. x <= y /\ x \in Nat /\ y \in Nat /\ y <= share
      BY <1>3, <3>1, <3>2
    <3> HIDE DEF x, y
    <3>4. x <= share
      BY <1>4, <3>3
    <3> QED  BY <1>7, <2>2, <3>4 DEF x
  <2> QED  BY <2>1, <2>4, <2>5
<1> QED  BY <1>9, <1>10

-----------------------------------------------------------------------------
(* The invariant: what an export holds in each of its phases. *)

\* What it found in force, and no other grant of a conversion.
Ended(f) ==
  f["stage"] = 0 /\ f["encode"] = run.held /\ f["read"] = 0 /\ f["compute"] = 0

Slots(p, f, e) ==
  /\ Ended(f) /\ Ended(e)
  /\ f["store"] <= e["store"] /\ f["gzip"] <= e["gzip"]
  /\ p # "filling" => f["fill"] = 0 /\ e["fill"] = 0
  /\ p \notin {"draining", "failed"} =>
       f["wave"] = 0 /\ f["level"] = 0 /\ e["wave"] = 0 /\ e["level"] = 0
  /\ p = "plan" => f["store"] = 0 /\ f["gzip"] = 0 /\ next = 1
  /\ p = "draining" => next <= Len(group)

\* What a wave or a group may hold, planned from the ledger as it was found.
Allowed == Share("wave", Minus(Base(0), run.held))

Plans ==
  /\ Negotiated => WavesFit(plan, Allowed, run.member)
                   /\ GroupsFit(plan, group, Allowed, run.member)
  /\ \A i \in DOMAIN group : group[i] # <<>>

ExportIInv ==
  /\ ExportTypeOK /\ reserved = 0 /\ Slots(phase, granted, least)
  /\ Plans /\ WithinAllowance

LEMMA ExportSum ==
  ASSUME NEW f \in [Grants -> Nat], Ended(f)
  PROVE  Together(f) = run.held + f["store"] + f["gzip"] + f["fill"] + f["wave"] + f["level"]
<1>1. /\ f["stage"] \in Nat /\ f["encode"] \in Nat /\ f["read"] \in Nat
      /\ f["compute"] \in Nat /\ f["store"] \in Nat /\ f["gzip"] \in Nat
      /\ f["fill"] \in Nat /\ f["wave"] \in Nat /\ f["level"] \in Nat
  BY DEF Grants
<1> QED  BY <1>1 DEF Together, Ended

\* At rest only what is granted whole is held, and it cannot go below that.
LEMMA RestWithin ==
  ASSUME run \in Exports, NEW p, NEW f \in [Grants -> Nat], NEW e \in [Grants -> Nat],
         NEW r \in Nat, Slots(p, f, e), p \notin {"filling", "draining", "failed"}
  PROVE  Together(f) <= Base(r) + Together(e)
<1>1. Base(r) \in Nat /\ run.held \in Nat
  BY BaseBounded, ExportFields
<1>2. /\ Together(f) = run.held + f["store"] + f["gzip"] + f["fill"] + f["wave"] + f["level"]
      /\ Together(e) = run.held + e["store"] + e["gzip"] + e["fill"] + e["wave"] + e["level"]
  BY ExportSum DEF Slots
<1>3. /\ f["store"] \in Nat /\ f["gzip"] \in Nat /\ e["store"] \in Nat /\ e["gzip"] \in Nat
      /\ f["store"] <= e["store"] /\ f["gzip"] <= e["gzip"]
      /\ f["fill"] = 0 /\ f["wave"] = 0 /\ f["level"] = 0
      /\ e["fill"] = 0 /\ e["wave"] = 0 /\ e["level"] = 0
  BY DEF Slots, Grants
<1> HIDE DEF Base, Together
<1> QED  BY <1>1, <1>2, <1>3

\* Every action after Plan leaves the plan alone.
LEMMA PlansKept ==
  ASSUME Plans, UNCHANGED <<run, plan, group>>
  PROVE  Plans'
<1>1. Negotiated' = Negotiated /\ Allowed' = Allowed
  BY DEF Negotiated, Allowed, Share, Minus, Base
<1>2. run'.member = run.member /\ plan' = plan /\ group' = group
  OBVIOUS
<1> HIDE DEF Negotiated, Allowed
<1>3. (Negotiated => /\ WavesFit(plan, Allowed, run.member)
                     /\ GroupsFit(plan, group, Allowed, run.member))'
  BY <1>1, <1>2 DEF Plans
<1> QED  BY <1>2, <1>3 DEF Plans

LEMMA ExportInitInv == ExportInit => ExportIInv
<1> SUFFICES ASSUME ExportInit  PROVE ExportIInv
  OBVIOUS
<1>1. /\ run \in Exports /\ reserved = 0 /\ plan = <<>> /\ group = <<>> /\ next = 1
      /\ phase = "plan" /\ granted = [None EXCEPT !["encode"] = run.held]
      /\ least = [None EXCEPT !["encode"] = run.held]
  BY DEF ExportInit
<1>2. run.held \in Nat
  BY <1>1, ExportFields
<1>3. granted \in [Grants -> Nat] /\ least = granted
  BY <1>1, <1>2 DEF None, Grants
<1>4. Slots(phase, granted, least)
  BY <1>1, <1>2, <1>3 DEF Slots, Ended, None, Grants
<1>5. ExportTypeOK
  <2>1. plan \in Seq([parts : Seq(Nat \ {0}), wave : Nat \ {0}])
        /\ group \in Seq(Seq(DOMAIN plan)) /\ next \in 1..Len(group) + 1
    BY <1>1
  <2> QED  BY <1>1, <1>3, <2>1 DEF ExportTypeOK, LedgerTypeOK
<1>6. Plans
  BY <1>1 DEF Plans, WavesFit, GroupsFit
<1>7. WithinAllowance
  BY <1>1, <1>3, <1>4, RestWithin DEF WithinAllowance
<1> QED  BY <1>1, <1>4, <1>5, <1>6, <1>7 DEF ExportIInv

\* Planning, what remains is what the export found.
LEMMA FoundRemaining ==
  ASSUME ExportIInv, phase = "plan"
  PROVE  Share("wave", Remaining(ledger)) = Allowed
<1>1. /\ run \in Exports /\ reserved = 0 /\ granted \in [Grants -> Nat]
      /\ Slots(phase, granted, least)
  BY DEF ExportIInv, ExportTypeOK, LedgerTypeOK
<1>2. run.held \in Nat
  BY <1>1, ExportFields
<1>3. Together(granted) = run.held
  <2>1. Together(granted) = run.held + granted["store"] + granted["gzip"] + granted["fill"]
                              + granted["wave"] + granted["level"]
    BY <1>1, ExportSum DEF Slots
  <2>2. /\ granted["store"] = 0 /\ granted["gzip"] = 0 /\ granted["fill"] = 0
        /\ granted["wave"] = 0 /\ granted["level"] = 0
    BY <1>1 DEF Slots
  <2> HIDE DEF Together
  <2> QED  BY <1>2, <2>1, <2>2
<1>4. Base(0) \in Nat /\ Base(0) <= Top /\ Top \in Nat
  BY <1>1, BaseBounded, LedgerAssumption
<1>5. Remaining(ledger) = Minus(Base(0), Sat(run.held))
  BY <1>1, <1>3 DEF Remaining, ledger
<1> HIDE DEF Base
<1>6. Remaining(ledger) = Minus(Base(0), run.held)
  BY <1>2, <1>4, <1>5 DEF Minus, Most, Sat, Least
<1> QED  BY <1>6 DEF Allowed

LEMMA PlanStep == ExportIInv /\ Plan => ExportIInv'
<1> SUFFICES ASSUME ExportIInv, Plan  PROVE ExportIInv'
  OBVIOUS
<1>1. /\ run \in Exports /\ reserved = 0 /\ granted \in [Grants -> Nat]
      /\ least \in [Grants -> Nat] /\ Slots(phase, granted, least) /\ phase = "plan"
  BY DEF ExportIInv, ExportTypeOK, LedgerTypeOK, Plan
<1>2. /\ UNCHANGED <<run, reserved, granted, least, next>>
      /\ phase' \in {"failed", "store"}
  BY DEF Plan, ledger
<1> DEFINE n == Len(run.levels)
           parts(k) == Partitions(run.levels[k])
<1>3. n \in Nat /\ \A k \in 1..n : run.levels[k] \in Sizes
  BY <1>1, ExportFields
<1>4. \A k \in 1..n : parts(k) \in Sizes
  BY <1>1, <1>3, PartitionsTyped
<1>5. PICK ls : ls = plan' /\ ls = [k \in 1..n |-> [parts |-> parts(k), wave |-> Wave(parts(k))]]
  BY DEF Plan
<1>6. group' = Groups(ls, GroupCap)
  BY <1>5 DEF Plan
<1> HIDE DEF parts, n
<1>7. \A k \in 1..n : Wave(parts(k)) \in Nat \ {0}
  BY <1>1, <1>4, WaveAffordable
<1>8. ls \in Seq(Zooms) /\ DOMAIN ls = 1..n /\ Len(ls) = n
      /\ \A k \in 1..n : ls[k] = [parts |-> parts(k), wave |-> Wave(parts(k))]
  <2>1. \A k \in 1..n : [parts |-> parts(k), wave |-> Wave(parts(k))] \in Zooms
    BY <1>4, <1>7 DEF Zooms
  <2> QED  BY <1>3, <1>5, <2>1
<1>9. GroupCap \in Nat
  BY <1>1, CapTyped
<1>10. PICK gs \in Seq(Seq(1..Len(ls))) : gs = group' /\ SoundGroups(ls, GroupCap, gs)
  BY <1>6, <1>8, <1>9, GroupsSound
<1>11. ASSUME Negotiated
       PROVE  WavesFit(ls, Allowed, run.member) /\ GroupsFit(ls, gs, Allowed, run.member)
  <2>1. run.auto /\ run.member > 0 /\ run.profile # "speed"
    BY <1>11 DEF Negotiated
  <2>2. WavesFit(ls, Share("wave", Remaining(ledger)), run.member)
    <3> SUFFICES ASSUME NEW k \in DOMAIN ls, ls[k].wave > 1
                 PROVE  WidestWave(ls[k]) * run.member <= Share("wave", Remaining(ledger))
      BY DEF WavesFit
    <3>1. k \in 1..n
      BY <1>8
    <3> QED  BY <1>1, <1>4, <1>8, <2>1, <3>1, WidestAffordable
  <2>3. GroupsFit(ls, gs, Share("wave", Remaining(ledger)), run.member)
    BY <1>1, <1>8, <1>10, <1>11, <2>2, GroupAffordable
  <2> QED  BY <1>1, <2>2, <2>3, FoundRemaining
<1>12. Plans'
  <2>1. Negotiated' = Negotiated /\ Allowed' = Allowed /\ run'.member = run.member
    BY <1>2 DEF Negotiated, Allowed, Share, Minus, Base
  <2>2. \A i \in DOMAIN gs : gs[i] # <<>>
    BY <1>10 DEF SoundGroups
  <2> HIDE DEF Negotiated, Allowed
  <2>3. (Negotiated => /\ WavesFit(plan, Allowed, run.member)
                       /\ GroupsFit(plan, group, Allowed, run.member))'
    BY <1>5, <1>10, <1>11, <2>1
  <2> QED  BY <1>10, <2>2, <2>3 DEF Plans
<1>13. Slots(phase, granted, least)'
  <2>1. next' = next /\ run' = run
    BY <1>2
  <2>2. phase' \notin {"plan", "filling"}
    BY <1>2
  <2> QED  BY <1>1, <1>2, <2>1, <2>2 DEF Slots, Ended
<1>14. ExportTypeOK'
  <2>1. plan' \in Seq([parts : Seq(Nat \ {0}), wave : Nat \ {0}])
        /\ DOMAIN plan' = 1..Len(ls)
    BY <1>5, <1>8 DEF Zooms, Sizes
  <2>2. group' \in Seq(Seq(DOMAIN plan'))
    BY <1>10, <2>1
  <2>3. next' = 1
    BY <1>1, <1>2 DEF Slots
  <2>4. next' \in 1..Len(group') + 1
    <3>1. Len(gs) \in Nat
      BY ONLY <1>10
    <3> QED  BY <1>10, <2>3, <3>1
  <2> QED  BY <1>1, <1>2, <2>1, <2>2, <2>4 DEF ExportTypeOK, LedgerTypeOK
<1>15. WithinAllowance'
  BY <1>2 DEF ExportIInv, WithinAllowance, Base
<1> QED  BY <1>1, <1>2, <1>12, <1>13, <1>14, <1>15 DEF ExportIInv

\* What every step but planning leaves to be shown.
LEMMA ExportFrame ==
  ASSUME ExportIInv, UNCHANGED <<run, reserved, plan, group>>,
         granted' \in [Grants -> Nat], least' \in [Grants -> Nat],
         next' \in 1..Len(group) + 1,
         phase' \in {"store", "gzip", "fill", "filling", "groups", "draining", "done", "failed"}
  PROVE  ExportTypeOK' /\ reserved' = 0 /\ Plans'
<1>1. ExportTypeOK /\ reserved = 0 /\ Plans
  BY DEF ExportIInv
<1>2. Plans'
  BY <1>1, PlansKept
<1>3. ExportTypeOK'
  BY <1>1 DEF ExportTypeOK, LedgerTypeOK
<1> QED  BY <1>1, <1>2, <1>3

LEMMA RestStep ==
  ASSUME ExportIInv, UNCHANGED <<run, reserved, plan, group>>,
         granted' \in [Grants -> Nat], least' \in [Grants -> Nat],
         next' \in 1..Len(group) + 1,
         phase' \in {"store", "gzip", "fill", "groups", "done"},
         Slots(phase, granted, least)'
  PROVE  ExportIInv'
<1>1. ExportTypeOK' /\ reserved' = 0 /\ Plans'
  BY ExportFrame
<1>2. run \in Exports
  BY DEF ExportIInv, ExportTypeOK
<1>3. PICK p, f, e : p = phase' /\ f = granted' /\ e = least'
  OBVIOUS
<1>4. Slots(p, f, e)
  BY <1>3 DEF Slots, Ended
<1>5. Together(f) <= Base(0) + Together(e)
  BY <1>2, <1>3, <1>4, RestWithin
<1>6. WithinAllowance'
  <2>1. Base(reserved)' = Base(0)
    BY <1>1 DEF Base
  <2> QED  BY <1>3, <1>5, <2>1 DEF WithinAllowance, Together
<1> QED  BY <1>1, <1>6 DEF ExportIInv

\* What is asked for and cannot be had for less is granted under any profile.
LEMMA FitWhole ==
  ASSUME run \in Exports, LedgerTypeOK, NEW g \in Grants, NEW price \in Nat,
         NEW n \in Nat \ {0}, Fit(g, price, n, n, n)
  PROVE  granted'[g] <= least'[g]
<1> DEFINE u == Units(g, price, n, n)
           aff == Affordable(ledger, g, price)
<1>1. run.profile \in {"bounded", "auto", "speed"}
  BY LimitTyped
<1>2. run.profile # "speed" => aff \in Nat
  BY AffordableBounded DEF LedgerTypeOK, ledger
<1>3. u = n
  <2>1. CASE run.profile = "speed"
    BY <2>1 DEF Units, Most
  <2>2. CASE run.profile = "auto"
    <3>1. u = Most(Least(aff, n), n)
      BY <2>2 DEF Units
    <3> HIDE DEF u, aff
    <3> QED  BY <1>2, <2>2, <3>1 DEF Most, Least
  <2>3. CASE run.profile = "bounded"
    <3>1. u = Most(Least(Least(aff, n), BoundedCap(g, n, n)), n)
      BY <2>3 DEF Units
    <3>2. BoundedCap(g, n, n) = n
      BY DEF BoundedCap
    <3> HIDE DEF u, aff
    <3> QED  BY <1>2, <2>3, <3>1, <3>2 DEF Most, Least
  <2> QED  BY <1>1, <2>1, <2>2, <2>3
<1> DEFINE cost == n * price
<1>4. cost \in Nat
  BY ProductNat
<1>5. granted' = [granted EXCEPT ![g] = Sat(cost)] /\ least' = [least EXCEPT ![g] = cost]
  BY <1>3 DEF Fit
<1> HIDE DEF u, cost
<1>6. granted'[g] = Sat(cost) /\ least'[g] = cost
  BY <1>5 DEF LedgerTypeOK
<1>7. Sat(cost) <= cost
  BY <1>4, LedgerAssumption DEF Sat, Least
<1> QED  BY <1>6, <1>7

LEMMA StoreStep == ExportIInv /\ GrantStore => ExportIInv'
<1> SUFFICES ASSUME ExportIInv, GrantStore  PROVE ExportIInv'
  OBVIOUS
<1>1. /\ run \in Exports /\ LedgerTypeOK /\ Slots(phase, granted, least)
      /\ granted \in [Grants -> Nat] /\ least \in [Grants -> Nat]
      /\ next \in 1..Len(group) + 1
  BY DEF ExportIInv, ExportTypeOK, LedgerTypeOK
<1>2. /\ phase = "store" /\ phase' = "gzip" /\ UNCHANGED <<run, reserved, plan, group, next>>
      /\ Fit("store", run.store, 1, 1, 1)
  BY DEF GrantStore
<1>3. run.store \in Nat /\ "store" \in Grants /\ 1 \in Nat \ {0}
  BY <1>1, ExportFields DEF Grants
<1>4. /\ granted' \in [Grants -> Nat] /\ least' \in [Grants -> Nat]
      /\ granted' = [granted EXCEPT !["store"] = granted'["store"]]
      /\ least' = [least EXCEPT !["store"] = 1 * run.store]
  BY <1>1, <1>2, <1>3, FitCharges
<1>5. granted'["store"] <= least'["store"]
  BY <1>1, <1>2, <1>3, FitWhole
<1>6. Slots(phase, granted, least)'
  BY <1>1, <1>2, <1>4, <1>5 DEF Slots, Ended, Grants
<1> QED  BY <1>1, <1>2, <1>4, <1>6, RestStep

LEMMA GzipStep == ExportIInv /\ GrantGzip => ExportIInv'
<1> SUFFICES ASSUME ExportIInv, GrantGzip  PROVE ExportIInv'
  OBVIOUS
<1>1. /\ run \in Exports /\ LedgerTypeOK /\ Slots(phase, granted, least)
      /\ granted \in [Grants -> Nat] /\ least \in [Grants -> Nat]
      /\ next \in 1..Len(group) + 1
  BY DEF ExportIInv, ExportTypeOK, LedgerTypeOK
<1>2. /\ phase = "gzip" /\ phase' \in {"fill", "groups"}
      /\ UNCHANGED <<run, reserved, plan, group, next>>
      /\ Fit("gzip", run.slice, run.slices, run.slices, run.slices)
  BY DEF GrantGzip
<1>3. run.slice \in Nat /\ run.slices \in Nat \ {0} /\ "gzip" \in Grants
  BY <1>1, ExportFields DEF Grants
<1>4. /\ granted' \in [Grants -> Nat] /\ least' \in [Grants -> Nat]
      /\ granted' = [granted EXCEPT !["gzip"] = granted'["gzip"]]
      /\ least' = [least EXCEPT !["gzip"] = run.slices * run.slice]
  BY <1>1, <1>2, <1>3, FitCharges
<1>5. granted'["gzip"] <= least'["gzip"]
  BY <1>1, <1>2, <1>3, FitWhole
<1>6. Slots(phase, granted, least)'
  BY <1>1, <1>2, <1>4, <1>5 DEF Slots, Ended, Grants
<1> QED  BY <1>1, <1>2, <1>4, <1>6, RestStep

LEMMA FillStep == ExportIInv /\ GrantFill => ExportIInv'
<1> SUFFICES ASSUME ExportIInv, GrantFill  PROVE ExportIInv'
  OBVIOUS
<1>1. /\ run \in Exports /\ LedgerTypeOK /\ Slots(phase, granted, least)
      /\ granted \in [Grants -> Nat] /\ least \in [Grants -> Nat] /\ reserved = 0
      /\ next \in 1..Len(group) + 1
  BY DEF ExportIInv, ExportTypeOK, LedgerTypeOK
<1>2. /\ phase = "fill" /\ phase' = "filling"
      /\ UNCHANGED <<run, reserved, plan, group, next>>
      /\ Fit("fill", 1, run.fillWant, run.fillFloor, run.fillFloor)
  BY DEF GrantFill
<1>3. /\ run.fillWant \in Nat /\ run.fillFloor \in Nat \ {0} /\ "fill" \in Grants /\ 1 \in Nat
      /\ run.held \in Nat
  BY <1>1, ExportFields DEF Grants
<1>4. /\ granted' \in [Grants -> Nat] /\ least' \in [Grants -> Nat]
      /\ granted' = [granted EXCEPT !["fill"] = granted'["fill"]]
      /\ least' = [least EXCEPT !["fill"] = run.fillFloor * 1]
      /\ run.profile # "speed" => \/ granted'["fill"] <= run.fillFloor * 1
                                  \/ granted'["fill"] <= Remaining(ledger)
  BY <1>1, <1>2, <1>3, FitCharges
<1>5. Slots(phase, granted, least)'
  BY <1>1, <1>2, <1>4 DEF Slots, Ended, Grants
<1>6. ExportTypeOK' /\ reserved' = 0 /\ Plans'
  BY <1>1, <1>2, <1>4, ExportFrame
<1>7. PICK f \in [Grants -> Nat], e \in [Grants -> Nat] : f = granted' /\ e = least'
  BY <1>4
<1>8. ASSUME run.profile # "speed"  PROVE Together(f) <= Base(0) + Together(e)
  <2>1. /\ Together(granted) = run.held + granted["store"] + granted["gzip"]
                                 + granted["fill"] + granted["wave"] + granted["level"]
        /\ Together(granted) \in Nat /\ Remaining(ledger) \in Nat /\ Base(0) \in Nat
        /\ Remaining(ledger) > 0 => Together(granted) + Remaining(ledger) = Base(0)
    BY <1>1, ExportSum, RemainingBounded, BaseBounded DEF Slots, ledger
  <2>2. /\ granted["fill"] = 0 /\ granted["wave"] = 0 /\ granted["level"] = 0
        /\ least["wave"] = 0 /\ least["level"] = 0
        /\ granted["store"] \in Nat /\ granted["gzip"] \in Nat /\ least["store"] \in Nat
        /\ least["gzip"] \in Nat
        /\ granted["store"] <= least["store"] /\ granted["gzip"] <= least["gzip"]
    BY <1>1, <1>2 DEF Slots, Grants
  <2>3. /\ f["store"] = granted["store"] /\ f["gzip"] = granted["gzip"] /\ f["wave"] = 0
        /\ f["level"] = 0 /\ e["store"] = least["store"] /\ e["gzip"] = least["gzip"]
        /\ e["wave"] = 0 /\ e["level"] = 0 /\ e["fill"] = run.fillFloor
        /\ f["fill"] \in Nat
        /\ f["fill"] <= run.fillFloor \/ f["fill"] <= Remaining(ledger)
    BY <1>1, <1>3, <1>4, <1>7, <1>8, <2>2 DEF Grants
  <2>4. Ended(f) /\ Ended(e)
    BY <1>2, <1>5, <1>7 DEF Slots, Ended
  <2>5. /\ Together(f) = run.held + f["store"] + f["gzip"] + f["fill"] + f["wave"] + f["level"]
        /\ Together(e) = run.held + e["store"] + e["gzip"] + e["fill"] + e["wave"] + e["level"]
    BY <2>4, ExportSum
  <2> HIDE DEF Together, Base, Remaining
  <2> QED  BY <1>3, <2>1, <2>2, <2>3, <2>5
<1>9. WithinAllowance'
  <2>1. Base(reserved)' = Base(0) /\ run' = run
    BY <1>2, <1>6 DEF Base
  <2> QED  BY <1>7, <1>8, <2>1 DEF WithinAllowance, Together
<1> QED  BY <1>5, <1>6, <1>9 DEF ExportIInv

\* What is given back leaves the other slots as they were.
LEMMA Released ==
  ASSUME LedgerTypeOK, NEW gs \in SUBSET Grants, Release(gs)
  PROVE  /\ granted' \in [Grants -> Nat] /\ least' \in [Grants -> Nat]
         /\ \A g \in gs : granted'[g] = 0 /\ least'[g] = 0
         /\ \A g \in Grants \ gs : granted'[g] = granted[g] /\ least'[g] = least[g]
BY DEF Release, LedgerTypeOK

LEMMA EndFillStep == ExportIInv /\ EndFill => ExportIInv'
<1> SUFFICES ASSUME ExportIInv, EndFill  PROVE ExportIInv'
  OBVIOUS
<1>1. /\ run \in Exports /\ LedgerTypeOK /\ Slots(phase, granted, least)
      /\ next \in 1..Len(group) + 1
  BY DEF ExportIInv, ExportTypeOK
<1>2. /\ phase = "filling" /\ phase' \in {"groups", "failed"}
      /\ UNCHANGED <<run, reserved, plan, group, next>> /\ Release({"fill"})
  BY DEF EndFill
<1>3. /\ granted' \in [Grants -> Nat] /\ least' \in [Grants -> Nat]
      /\ \A g \in {"fill"} : granted'[g] = 0 /\ least'[g] = 0
      /\ \A g \in Grants \ {"fill"} : granted'[g] = granted[g] /\ least'[g] = least[g]
  <2>1. {"fill"} \in SUBSET Grants
    BY DEF Grants
  <2> QED  BY <1>1, <1>2, <2>1, Released
<1>4. Slots(phase, granted, least)'
  BY <1>1, <1>2, <1>3 DEF Slots, Ended, Grants
<1>5. CASE phase' = "groups"
  BY <1>1, <1>2, <1>3, <1>4, <1>5, RestStep
<1>6. CASE phase' = "failed"
  <2>1. ExportTypeOK' /\ reserved' = 0 /\ Plans'
    BY <1>1, <1>2, <1>3, <1>6, ExportFrame
  <2>2. PICK f \in [Grants -> Nat], e \in [Grants -> Nat] : f = granted' /\ e = least'
    BY <1>3
  <2>3. Slots("groups", f, e)
    BY <1>1, <1>2, <1>3, <2>2 DEF Slots, Ended, Grants
  <2>4. Together(f) <= Base(0) + Together(e)
    BY <1>1, <2>3, RestWithin
  <2>5. Base(reserved)' = Base(0)
    BY <1>2, <2>1 DEF Base
  <2>6. WithinAllowance'
    BY <2>2, <2>4, <2>5 DEF WithinAllowance, Together
  <2> QED  BY <1>4, <2>1, <2>6 DEF ExportIInv
<1> QED  BY <1>2, <1>5, <1>6

LEMMA EndLevelStep == ExportIInv /\ EndLevel => ExportIInv'
<1> SUFFICES ASSUME ExportIInv, EndLevel  PROVE ExportIInv'
  OBVIOUS
<1>1. /\ run \in Exports /\ LedgerTypeOK /\ Slots(phase, granted, least)
      /\ next \in 1..Len(group) + 1 /\ WithinAllowance
      /\ group \in Seq(Seq(DOMAIN plan)) /\ reserved = 0
  BY DEF ExportIInv, ExportTypeOK
<1>2. phase = "draining" /\ UNCHANGED <<run, reserved, plan, group>>
  BY DEF EndLevel
<1>3. CASE Release({"wave", "level"}) /\ next' = next + 1 /\ phase' = "groups"
  <2>1. /\ granted' \in [Grants -> Nat] /\ least' \in [Grants -> Nat]
        /\ \A g \in {"wave", "level"} : granted'[g] = 0 /\ least'[g] = 0
        /\ \A g \in Grants \ {"wave", "level"} :
             granted'[g] = granted[g] /\ least'[g] = least[g]
    <3>1. {"wave", "level"} \in SUBSET Grants
      BY DEF Grants
    <3> QED  BY <1>1, <1>3, <3>1, Released
  <2>2. Slots(phase, granted, least)'
    BY <1>1, <1>2, <1>3, <2>1 DEF Slots, Ended, Grants
  <2>3. next' \in 1..Len(group) + 1
    <3>1. next <= Len(group)
      BY <1>1, <1>2 DEF Slots
    <3>2. Len(group) \in Nat
      BY ONLY <1>1
    <3> QED  BY <1>1, <1>3, <3>1, <3>2
  <2> QED  BY <1>1, <1>2, <1>3, <2>1, <2>2, <2>3, RestStep
<1>4. CASE phase' = "failed" /\ UNCHANGED <<granted, least, next>>
  <2>1. granted' \in [Grants -> Nat] /\ least' \in [Grants -> Nat]
    BY <1>1, <1>4 DEF LedgerTypeOK
  <2>2. ExportTypeOK' /\ reserved' = 0 /\ Plans'
    BY <1>1, <1>2, <1>4, <2>1, ExportFrame
  <2>3. Slots(phase, granted, least)'
    BY <1>1, <1>2, <1>4 DEF Slots, Ended
  <2>4. WithinAllowance'
    BY <1>1, <1>2, <1>4 DEF WithinAllowance, Base
  <2> QED  BY <2>2, <2>3, <2>4 DEF ExportIInv
<1> QED  BY <1>3, <1>4 DEF EndLevel

LEMMA DrawGroupStep == ExportIInv /\ DrawGroup => ExportIInv'
<1> SUFFICES ASSUME ExportIInv, DrawGroup  PROVE ExportIInv'
  OBVIOUS
<1>1. /\ run \in Exports /\ LedgerTypeOK /\ Slots(phase, granted, least)
      /\ next \in 1..Len(group) + 1 /\ WithinAllowance
      /\ group \in Seq(Seq(DOMAIN plan)) /\ Len(group) \in Nat
  BY DEF ExportIInv, ExportTypeOK
<1>2. /\ phase = "groups" /\ next <= Len(group)
      /\ UNCHANGED <<run, reserved, granted, least, plan, group>>
      /\ \/ next' = next + 1 /\ phase' = phase
         \/ phase' = "failed" /\ next' = next
  BY DEF DrawGroup, ledger
<1>3. granted' \in [Grants -> Nat] /\ least' \in [Grants -> Nat]
  BY <1>1, <1>2 DEF LedgerTypeOK
<1>4. next' \in 1..Len(group) + 1
  BY <1>1, <1>2
<1>5. ExportTypeOK' /\ reserved' = 0 /\ Plans'
  BY <1>1, <1>2, <1>3, <1>4, ExportFrame
<1>6. Slots(phase, granted, least)'
  BY <1>1, <1>2 DEF Slots, Ended
<1>7. WithinAllowance'
  BY <1>1, <1>2 DEF WithinAllowance, Base
<1> QED  BY <1>5, <1>6, <1>7 DEF ExportIInv

LEMMA FinishStep == ExportIInv /\ Finish => ExportIInv'
<1> SUFFICES ASSUME ExportIInv, Finish  PROVE ExportIInv'
  OBVIOUS
<1>1. /\ run \in Exports /\ LedgerTypeOK /\ Slots(phase, granted, least)
      /\ next \in 1..Len(group) + 1
  BY DEF ExportIInv, ExportTypeOK
<1>2. /\ phase = "groups" /\ phase' = "done"
      /\ UNCHANGED <<run, reserved, plan, group, next>> /\ Release({"store", "gzip"})
  BY DEF Finish
<1>3. /\ granted' \in [Grants -> Nat] /\ least' \in [Grants -> Nat]
      /\ \A g \in {"store", "gzip"} : granted'[g] = 0 /\ least'[g] = 0
      /\ \A g \in Grants \ {"store", "gzip"} :
           granted'[g] = granted[g] /\ least'[g] = least[g]
  <2>1. {"store", "gzip"} \in SUBSET Grants
    BY DEF Grants
  <2> QED  BY <1>1, <1>2, <2>1, Released
<1>4. Slots(phase, granted, least)'
  BY <1>1, <1>2, <1>3 DEF Slots, Ended, Grants
<1> QED  BY <1>1, <1>2, <1>3, <1>4, RestStep

LEMMA ExportStutter == ExportIInv /\ UNCHANGED exportVars => ExportIInv'
<1> SUFFICES ASSUME ExportIInv, UNCHANGED exportVars  PROVE ExportIInv'
  OBVIOUS
<1>1. UNCHANGED <<run, reserved, granted, least, plan, group, next, phase>>
  BY DEF exportVars, ledger
<1>2. ExportTypeOK' /\ reserved' = 0
  BY <1>1 DEF ExportIInv, ExportTypeOK, LedgerTypeOK
<1>3. Plans'
  BY <1>1, PlansKept DEF ExportIInv
<1>4. Slots(phase, granted, least)'
  BY <1>1 DEF ExportIInv, Slots, Ended
<1>5. WithinAllowance'
  BY <1>1 DEF ExportIInv, WithinAllowance, Base
<1> QED  BY <1>2, <1>3, <1>4, <1>5 DEF ExportIInv

\* What of a level's members is held beside its wave: one, or within what remains.
LEMMA LevelUnits ==
  ASSUME run \in Exports, NEW r \in Nat, NEW f \in [Grants -> Nat], NEW n \in Nat,
         NEW u, u = CASE run.profile = "speed" -> n
                      [] run.profile = "auto" ->
                           Least(Affordable(<<r, f>>, "level", run.member), n)
                      [] run.profile = "bounded" -> 0
  PROVE  /\ u * run.member \in Nat
         /\ run.profile # "speed" => \/ u * run.member <= run.member
                                     \/ u * run.member <= Remaining(<<r, f>>)
<1> DEFINE m == run.member
           aff == Affordable(<<r, f>>, "level", m)
           rem == Remaining(<<r, f>>)
<1>1. m \in Nat /\ run.profile \in {"bounded", "auto", "speed"}
  BY ExportFields, LimitTyped
<1>2. CASE run.profile = "speed"
  <2>1. u = n
    BY <1>2
  <2> HIDE DEF m
  <2>2. u * m \in Nat
    BY <1>1, <2>1, ProductNat
  <2> QED  BY <1>2, <2>2 DEF m
<1>3. CASE run.profile = "bounded"
  <2>1. u = 0
    BY <1>3
  <2>2. u * m = 0
    BY <1>1, <2>1
  <2> QED  BY <1>1, <2>2
<1>4. CASE run.profile = "auto"
  <2>1. u = Least(aff, n)
    BY <1>4
  <2>2. "level" \in Grants
    BY DEF Grants
  <2>3. aff \in Nat \ {0} /\ (aff > 1 => aff * m <= rem)
    <3> HIDE DEF m
    <3> QED  BY <1>1, <1>4, <2>2, AffordableBounded
  <2>4. rem \in Nat
    BY RemainingBounded
  <2> HIDE DEF m, aff, rem
  <2>5. u \in Nat /\ u <= aff
    <3>1. aff \in Nat
      BY <2>3
    <3>2. \A x, y \in Nat : Least(x, y) \in Nat /\ Least(x, y) <= x
      BY DEF Least
    <3> QED  BY <2>1, <3>1, <3>2
  <2>6. u * m \in Nat /\ u * m <= aff * m /\ aff * m \in Nat
    <3>1. u \in Nat /\ aff \in Nat /\ m \in Nat /\ u <= aff
      BY <1>1, <2>3, <2>5
    <3>2. u * m \in Nat /\ aff * m \in Nat
      BY <3>1, ProductNat
    <3>3. u * m <= aff * m
      BY <3>1, ProductMonotone
    <3> QED  BY <3>2, <3>3
  <2>7. CASE aff = 1
    <3>1. aff * m = m
      BY <1>1, <2>7
    <3> QED  BY <2>6, <3>1 DEF m
  <2>8. CASE aff # 1
    <3> DEFINE a == u * m  b == aff * m
    <3>0. aff > 1
      <4>1. aff \in Nat \ {0}
        BY <2>3
      <4> QED  BY ONLY <2>8, <4>1
    <3>1. a \in Nat /\ b \in Nat /\ a <= b /\ b <= rem
      BY <2>3, <2>6, <3>0
    <3> HIDE DEF a, b
    <3>2. a <= rem
      BY <2>4, <3>1
    <3> QED  BY <2>6, <3>2 DEF a, m, rem
  <2> QED  BY <2>7, <2>8
<1> QED  BY <1>1, <1>2, <1>3, <1>4

\* A wave that could be narrower fits the allowance.
LEMMA WaveFits ==
  ASSUME ExportIInv, NEW l \in Zooms, NEW k \in DOMAIN plan, l = plan[k],
         run.auto, l.wave # 1, run.member # 0, run.profile # "speed"
  PROVE  WidestWave(l) * run.member <= Base(0)
<1>1. run \in Exports
  BY DEF ExportIInv, ExportTypeOK
<1>2. run.member \in Nat /\ run.held \in Nat /\ Base(0) \in Nat
  BY <1>1, ExportFields, BaseBounded
<1>3. Negotiated
  <2>1. run.member > 0
    BY <1>2
  <2> QED  BY <2>1 DEF Negotiated
<1>4. l.wave > 1
  <2>1. l.wave \in Nat \ {0}
    BY DEF Zooms
  <2>2. \A x \in Nat \ {0} : x # 1 => x > 1
    OBVIOUS
  <2> QED  BY <2>1, <2>2
<1>5. WidestWave(l) * run.member <= Allowed
  <2>1. \A i \in DOMAIN plan : plan[i].wave > 1 => WidestWave(plan[i]) * run.member <= Allowed
    BY <1>3 DEF ExportIInv, Plans, WavesFit
  <2> QED  BY <1>4, <2>1
<1> DEFINE left == Minus(Base(0), run.held)
<1>6. left \in Nat /\ left <= Base(0)
  <2> HIDE DEF Base
  <2> QED  BY <1>2 DEF Minus, Most
<1>7. Allowed \in Nat /\ Allowed <= left
  <2>1. "wave" \in Grants
    BY DEF Grants
  <2> HIDE DEF left
  <2>2. Share("wave", left) \in Nat /\ Share("wave", left) <= left
    BY <1>6, <2>1, ShareBounded
  <2> QED  BY <2>2 DEF Allowed, left
<1>8. WidestWave(l) * run.member \in Nat
  <2>1. WidestWave(l) \in Nat
    BY WidestBounded
  <2> QED  BY <1>2, <2>1, ProductNat
<1> DEFINE cost == WidestWave(l) * run.member
<1>9. cost \in Nat /\ cost <= Allowed
  BY <1>5, <1>8
<1> HIDE DEF cost, left, Base, Allowed
<1>10. cost <= Base(0)
  BY <1>2, <1>6, <1>7, <1>9
<1> QED  BY <1>10 DEF cost

LEMMA LevelStep == ExportIInv /\ GrantLevel => ExportIInv'
<1> SUFFICES ASSUME ExportIInv, GrantLevel  PROVE ExportIInv'
  OBVIOUS
<1>1. /\ run \in Exports /\ LedgerTypeOK /\ Slots(phase, granted, least)
      /\ granted \in [Grants -> Nat] /\ least \in [Grants -> Nat] /\ reserved = 0
      /\ next \in 1..Len(group) + 1 /\ WithinAllowance /\ Plans
      /\ group \in Seq(Seq(DOMAIN plan)) /\ plan \in Seq(Zooms)
  BY DEF ExportIInv, ExportTypeOK, LedgerTypeOK, Zooms, Sizes
<1>2. /\ phase = "groups" /\ next <= Len(group) /\ phase' = "draining"
      /\ UNCHANGED <<run, reserved, plan, group, next>>
  BY DEF GrantLevel
<1> DEFINE m == run.member
           l == plan[group[next][1]]
           cost == WidestWave(l) * m
           low == IF ~run.auto \/ l.wave = 1 THEN cost ELSE 0
           mid == [granted EXCEPT !["wave"] = Sat(cost)]
           units == CASE run.profile = "speed" -> Members(l)
                      [] run.profile = "auto" ->
                           Least(Affordable(<<reserved, mid>>, "level", m), Members(l))
                      [] run.profile = "bounded" -> 0
           rest == units * m
<1>3. \/ UNCHANGED <<granted, least>>
      \/ /\ m # 0
         /\ granted' = [mid EXCEPT !["level"] = Sat(rest)]
         /\ least' = [least EXCEPT !["wave"] = low, !["level"] = m]
  BY DEF GrantLevel
<1>4. CASE UNCHANGED <<granted, least>>
  <2>1. ExportTypeOK' /\ reserved' = 0 /\ Plans'
    BY <1>1, <1>2, <1>4, ExportFrame
  <2>2. Slots(phase, granted, least)'
    BY <1>1, <1>2, <1>4 DEF Slots, Ended
  <2>3. WithinAllowance'
    BY <1>1, <1>2, <1>4 DEF WithinAllowance, Base
  <2> QED  BY <2>1, <2>2, <2>3 DEF ExportIInv
<1>5. CASE /\ m # 0
           /\ granted' = [mid EXCEPT !["level"] = Sat(rest)]
           /\ least' = [least EXCEPT !["wave"] = low, !["level"] = m]
  <2>1. m \in Nat /\ run.auto \in BOOLEAN /\ run.held \in Nat
    BY <1>1, ExportFields
  <2>2. group[next][1] \in DOMAIN plan /\ l \in Zooms
    <3>1. next \in 1..Len(group)
      <4>1. Len(group) \in Nat
        BY ONLY <1>1
      <4> QED  BY <1>1, <1>2, <4>1
    <3>2. group[next] \in Seq(DOMAIN plan) /\ Len(group[next]) = 1
      BY <1>1, <3>1 DEF GrantLevel, OwnStore
    <3>3. group[next][1] \in DOMAIN plan
      BY <3>2
    <3> QED  BY <1>1, <3>3
  <2>3. cost \in Nat
    <3>1. WidestWave(l) \in Nat
      BY <2>2, WidestBounded
    <3> QED  BY <2>1, <3>1, ProductNat
  <2>4. Members(l) \in Nat
    BY <2>2, MembersTyped
  <2>5. low \in Nat /\ (run.profile # "speed" => cost <= low \/ cost <= Base(0))
    <3>1. CASE ~run.auto \/ l.wave = 1
      <4>1. low = cost
        BY <3>1
      <4> HIDE DEF low, cost
      <4> QED  BY <2>3, <4>1
    <3>2. CASE run.auto /\ l.wave # 1
      <4>1. low = 0
        BY <3>2
      <4>2. run.profile # "speed" => cost <= Base(0)
        BY <1>5, <2>2, <3>2, WaveFits
      <4> HIDE DEF low, cost
      <4> QED  BY <4>1, <4>2
    <3> QED  BY <2>1, <3>1, <3>2
  <2> HIDE DEF cost, low
  <2>6. Sat(cost) \in Nat /\ Sat(cost) <= cost
    BY <2>3, LedgerAssumption DEF Sat, Least
  <2>7. mid \in [Grants -> Nat] /\ mid["wave"] = Sat(cost)
        /\ \A g \in Grants : g # "wave" => mid[g] = granted[g]
    BY <1>1, <2>6 DEF Grants
  <2> HIDE DEF mid
  <2>8. /\ rest \in Nat
        /\ run.profile # "speed" => rest <= m \/ rest <= Remaining(<<reserved, mid>>)
    <3>1. reserved \in Nat
      BY <1>1
    <3> HIDE DEF l
    <3> QED  BY <1>1, <2>4, <2>7, <3>1, LevelUnits
  <2> HIDE DEF rest, l
  <2>9. Sat(rest) \in Nat /\ Sat(rest) <= rest
    BY <2>8, LedgerAssumption DEF Sat, Least
  <2>10. PICK f, e : f = granted' /\ e = least'
    OBVIOUS
  <2>11. /\ f \in [Grants -> Nat] /\ f["level"] = Sat(rest)
         /\ \A g \in Grants : g # "level" => f[g] = mid[g]
    BY <1>5, <2>7, <2>9, <2>10 DEF Grants
  <2>12. /\ e \in [Grants -> Nat] /\ e["level"] = m /\ e["wave"] = low
         /\ \A g \in Grants \ {"level", "wave"} : e[g] = least[g]
    BY <1>1, <1>5, <2>1, <2>5, <2>10 DEF Grants
  <2> HIDE DEF m
  <2>13. /\ Ended(f) /\ f["store"] = granted["store"] /\ f["gzip"] = granted["gzip"]
         /\ f["fill"] = 0 /\ f["wave"] = Sat(cost)
    BY <1>1, <1>2, <2>7, <2>11 DEF Slots, Ended, Grants
  <2>14. /\ Ended(e) /\ e["store"] = least["store"] /\ e["gzip"] = least["gzip"] /\ e["fill"] = 0
    BY <1>1, <1>2, <2>12 DEF Slots, Ended, Grants
  <2>15. /\ Ended(mid) /\ mid["store"] = granted["store"] /\ mid["gzip"] = granted["gzip"]
         /\ mid["fill"] = 0 /\ mid["level"] = 0
    BY <1>1, <1>2, <2>7 DEF Slots, Ended, Grants
  <2>16. granted["store"] <= least["store"] /\ granted["gzip"] <= least["gzip"]
    BY <1>1 DEF Slots
  <2>17. Slots(phase, granted, least)'
    <3>1. f["store"] <= e["store"] /\ f["gzip"] <= e["gzip"]
      BY <2>13, <2>14, <2>16
    <3> QED  BY <1>2, <2>10, <2>13, <2>14, <3>1 DEF Slots, Ended
  <2>18. ExportTypeOK' /\ reserved' = 0 /\ Plans'
    BY <1>1, <1>2, <2>10, <2>11, <2>12, ExportFrame
  <2>19. ASSUME run.profile # "speed"  PROVE Together(f) <= Base(0) + Together(e)
    <3>1. /\ Together(f) = run.held + f["store"] + f["gzip"] + f["fill"] + f["wave"] + f["level"]
          /\ Together(e) = run.held + e["store"] + e["gzip"] + e["fill"] + e["wave"] + e["level"]
          /\ Together(mid) = run.held + mid["store"] + mid["gzip"] + mid["fill"] + mid["wave"]
                               + mid["level"]
      BY <2>7, <2>11, <2>12, <2>13, <2>14, <2>15, ExportSum
    <3> DEFINE rem == Remaining(<<reserved, mid>>)
    <3>2. rem \in Nat /\ Base(0) \in Nat /\ (rem > 0 => Together(mid) + rem = Base(0))
      BY <1>1, <2>7, RemainingBounded, BaseBounded
    <3>3. /\ granted["store"] \in Nat /\ granted["gzip"] \in Nat
          /\ least["store"] \in Nat /\ least["gzip"] \in Nat
      BY <1>1 DEF Grants
    <3>4. Sat(rest) <= m \/ Sat(rest) <= rem
      BY <2>1, <2>8, <2>9, <2>19, <3>2
    <3>5. Sat(cost) <= low \/ Sat(cost) <= Base(0)
      BY <2>3, <2>5, <2>6, <2>19, <3>2
    <3> HIDE DEF rem, Together, Base
    <3>6. PICK st \in Nat, gz \in Nat, st0 \in Nat, gz0 \in Nat, w \in Nat, v \in Nat :
            /\ st = granted["store"] /\ gz = granted["gzip"]
            /\ st0 = least["store"] /\ gz0 = least["gzip"] /\ w = Sat(cost) /\ v = Sat(rest)
      BY <2>6, <2>9, <3>3
    <3>7. /\ Together(f) = run.held + st + gz + 0 + w + v
          /\ Together(e) = run.held + st0 + gz0 + 0 + low + m
          /\ Together(mid) = run.held + st + gz + 0 + w + 0
      BY <2>7, <2>11, <2>12, <2>13, <2>14, <2>15, <3>1, <3>6
    <3>8. st <= st0 /\ gz <= gz0 /\ (v <= m \/ v <= rem) /\ (w <= low \/ w <= Base(0))
      BY <2>16, <3>4, <3>5, <3>6
    <3> QED  BY <2>1, <2>5, <3>2, <3>6, <3>7, <3>8
  <2>20. WithinAllowance'
    <3>1. Base(reserved)' = Base(0) /\ run' = run
      BY <1>2, <2>18 DEF Base
    <3> QED  BY <2>10, <2>19, <3>1 DEF WithinAllowance, Together
  <2> QED  BY <2>17, <2>18, <2>20 DEF ExportIInv
<1> QED  BY <1>3, <1>4, <1>5

LEMMA ExportInductive == ExportSpec => []ExportIInv
<1>1. ExportIInv /\ [ExportNext]_exportVars => ExportIInv'
  BY PlanStep, StoreStep, GzipStep, FillStep, EndFillStep, LevelStep, EndLevelStep,
     DrawGroupStep, FinishStep, ExportStutter DEF ExportNext
<1> QED  BY <1>1, ExportInitInv, PTL DEF ExportSpec

(***************************************************************************)
(* An export's ledger, plan and groups keep their types, whatever the      *)
(* tiles of its zooms.                                                     *)
(***************************************************************************)
THEOREM ExportTyped == ExportSpec => []ExportTypeOK
<1>1. ExportIInv => ExportTypeOK
  BY DEF ExportIInv
<1> QED  BY <1>1, ExportInductive, PTL

(***************************************************************************)
(* However plan_partitions cuts the tiles, what a group of                 *)
(* plan_level_groups holds at once, in waves of memory_safe_level_wave or  *)
(* whole, was affordable as the export found the ledger, unless it is one  *)
(* partition or the user gave the width.                                   *)
(***************************************************************************)
THEOREM PlansFit == ExportSpec => []PlannedFits
<1>1. ExportIInv => PlannedFits
  <2> SUFFICES ASSUME ExportIInv, run.auto, run.member > 0, run.profile # "speed",
                      NEW i \in DOMAIN group, ~OnePartition(group[i])
               PROVE  HeldAtOnce(group[i]) * run.member <= Allowed
    BY DEF PlannedFits, Allowed
  <2>1. GroupsFit(plan, group, Allowed, run.member)
    BY DEF ExportIInv, Plans, Negotiated
  <2>2. OneIn(plan, group[i]) = OnePartition(group[i])
        /\ HeldIn(plan, group[i]) = HeldAtOnce(group[i])
    BY DEF OneIn, PartsIn, OnePartition, HeldIn, InGroup, HeldAtOnce
  <2> QED  BY <2>1, <2>2 DEF GroupsFit
<1> QED  BY <1>1, ExportInductive, PTL

(***************************************************************************)
(* An export's grants stay together within its allowance, but for what     *)
(* each cannot go below: the member store's buffer, the gzip cache, the    *)
(* fill's floor, one member, a wave that cannot be narrower.               *)
(***************************************************************************)
THEOREM ExportWithinAllowance == ExportSpec => []WithinAllowance
<1>1. ExportIInv => WithinAllowance
  BY DEF ExportIInv
<1> QED  BY <1>1, ExportInductive, PTL

-----------------------------------------------------------------------------
(* The levels it assigns *)

\* Arithmetic: quotients, products and remainders of naturals.
LEMMA QuotientNat ==
  ASSUME NEW a \in Nat, NEW b \in Nat \ {0}
  PROVE  a \div b \in Nat /\ a \div b <= a
OBVIOUS

LEMMA ProductPositive ==
  ASSUME NEW a \in Nat \ {0}, NEW b \in Nat \ {0}
  PROVE  a * b \in Nat \ {0}
OBVIOUS

-----------------------------------------------------------------------------
(* Type correctness *)

\* A block starts where the last one ended and ends within the table.
LEMMA BlockBounds ==
  ASSUME AssignTypeOK, NEW l \in wave
  PROVE  /\ l \in Coarse
         /\ BlockEnd(l) \in 0..RowCount
         /\ start[l] <= BlockEnd(l)
         /\ start[l] < RowCount => start[l] < BlockEnd(l)
         /\ Block(l) \subseteq Positions
<1>1. l \in Coarse /\ start[l] \in 0..RowCount /\ RowCount \in Nat
  BY TableAssumption DEF AssignTypeOK
<1>2. Cardinality(wave) \in Nat \ {0}
  <2>1. wave \subseteq 0..(Finest - 1) /\ IsFiniteSet(0..(Finest - 1))
    BY FS_Interval, TableAssumption DEF AssignTypeOK, Coarse
  <2>2. IsFiniteSet(wave)
    BY <2>1, FS_Subset
  <2> QED  BY <2>2, FS_CardinalityType, FS_EmptySet
<1>3. BlockChunks \in Nat \ {0}
  BY <1>2, QuotientNat, BuildAssumption DEF BlockChunks
<1>4. Chunk * BlockChunks \in Nat \ {0}
  BY <1>3, ProductPositive, BuildAssumption
<1>5. /\ BlockEnd(l) \in 0..RowCount /\ start[l] <= BlockEnd(l)
      /\ start[l] < RowCount => start[l] < BlockEnd(l)
  BY <1>1, <1>4 DEF BlockEnd
<1> QED  BY <1>1, <1>5 DEF Block, Positions

\* The level a feature starts from.
LEMMA FirstLevel ==
  ASSUME row \in [Positions -> Features], NEW p \in Positions
  PROVE  AtFirst(p) \in 0..Finest
<1>1. row[p] \in Features /\ Finest \in Nat
  BY TableAssumption
<1>2. row[p].entry = Missing \/ row[p].entry \in Nat
  BY <1>1, TableAssumption
<1> QED  BY <1>1, <1>2 DEF AtFirst, Laddered

\* A fold takes the least of a level and the wave's.
LEMMA LoweredIsLeast ==
  ASSUME AssignTypeOK, NEW p \in Positions
  PROVE  LET levels == {minLevel[p]} \cup {l \in wave : p \in Winners(l)}
         IN  /\ Lowered(p) \in levels
             /\ \A k \in levels : Lowered(p) <= k
             /\ Lowered(p) \in 0..Finest
<1> DEFINE levels == {minLevel[p]} \cup {l \in wave : p \in Winners(l)}
<1>1. levels \in SUBSET (0..Finest) /\ levels # {} /\ Finest \in Nat
  <2>1. Finest \in Nat /\ minLevel[p] \in 0..Finest
    BY TableAssumption DEF AssignTypeOK
  <2>2. wave \subseteq 0..Finest
    BY <2>1 DEF AssignTypeOK, Coarse
  <2> QED  BY <2>1, <2>2
<1>2. \E m \in levels : \A k \in levels : m <= k
  <2>1. levels \in SUBSET Nat
    BY <1>1
  <2> QED  BY <1>1, <2>1, Smallest
<1>3. Lowered(p) = CHOOSE l \in levels : \A k \in levels : l <= k
  BY DEF Lowered
<1> HIDE DEF levels
<1>4. Lowered(p) \in levels /\ \A k \in levels : Lowered(p) <= k
  BY <1>2, <1>3
<1>5. Lowered(p) \in 0..Finest
  BY <1>1, <1>4
<1> QED  BY <1>4, <1>5 DEF levels

LEMMA TypeInit == AssignInit => AssignTypeOK
<1> SUFFICES ASSUME AssignInit PROVE AssignTypeOK
  OBVIOUS
<1>1. row \in [Positions -> Features] /\ config \in Configs
  BY DEF AssignInit
<1>2. 0 \in 0..Finest /\ 0 \in 0..RowCount
  BY TableAssumption
<1>3. minLevel \in [Positions -> 0..Finest]
  BY <1>1, FirstLevel DEF AssignInit
<1> QED  BY <1>1, <1>2, <1>3 DEF AssignInit, AssignTypeOK

LEMMA TypeStep ==
  AssignTypeOK /\ [AssignNext]_<<Input, assignVars>> => AssignTypeOK'
<1> SUFFICES ASSUME AssignTypeOK, [AssignNext]_<<Input, assignVars>>
             PROVE  AssignTypeOK'
  OBVIOUS
<1> USE DEF Input, assignVars, building
<1>0. RowCount \in Nat /\ Finest \in Nat /\ 0 \in 0..RowCount
  BY TableAssumption
<1>1. CASE StartWave
  <2>1. PICK last \in planned..(Finest - 1) :
          wave' = planned..last /\ planned' = last + 1
    BY <1>1 DEF StartWave
  <2>2. planned \in 0..Finest
    BY DEF AssignTypeOK
  <2>3. wave' \subseteq Coarse /\ planned' \in 0..Finest
    BY <2>1, <2>2, <1>0 DEF Coarse
  <2> QED  BY <2>3, <1>1 DEF AssignTypeOK, StartWave, Slices
<1>2. CASE EndWave
  <2>1. wave' \subseteq Coarse /\ folded' \subseteq Slices'
    BY <1>2 DEF EndWave
  <2> QED  BY <2>1, <1>0, <1>2 DEF AssignTypeOK, EndWave
<1>3. ASSUME NEW l \in Coarse, NextBlock(l)  PROVE AssignTypeOK'
  <2>1. l \in wave
    BY <1>3 DEF NextBlock
  <2>2. BlockEnd(l) \in 0..RowCount /\ Block(l) \subseteq Positions
    BY <2>1, BlockBounds
  <2>3. start' \in [Coarse -> 0..RowCount]
    BY <1>3, <2>2 DEF NextBlock, AssignTypeOK
  <2>4. freely' \in [Coarse -> SUBSET Positions]
    BY <1>3, <2>2 DEF NextBlock, AssignTypeOK
  <2>5. classified' \in [Coarse -> SUBSET (0..RowCount)]
    BY <1>3 DEF NextBlock, AssignTypeOK
  <2> QED  BY <2>3, <2>4, <2>5, <1>3 DEF NextBlock, AssignTypeOK, Slices
<1>4. ASSUME NEW l \in Coarse, NEW c \in 0..RowCount, Classify(l, c)
      PROVE  AssignTypeOK'
  BY <1>4 DEF Classify, AssignTypeOK, Slices
<1>5. ASSUME NEW l \in Coarse, NEW s \in 0..(Shards - 1), Contest(l, s)
      PROVE  AssignTypeOK'
  <2>1. PICK p \in Ahead(l, s) :
          /\ grid' = [grid EXCEPT ![l] = AfterContest(l, p)]
          /\ drained' = [drained EXCEPT ![l][s] = p]
    BY <1>5 DEF Contest
  <2>2. p \in Positions
    BY <1>5, BlockBounds DEF Contest, Ahead
  <2>3. p \in 0..RowCount
    BY <2>2, <1>0 DEF Positions
  <2>4. AfterContest(l, p) \subseteq Positions
    BY <2>2 DEF AfterContest, AssignTypeOK
  <2>5. grid' \in [Coarse -> SUBSET Positions]
    BY <2>1, <2>4 DEF AssignTypeOK
  <2>6. drained' \in [Coarse -> [0..(Shards - 1) -> 0..RowCount]]
    BY <2>1, <2>3 DEF AssignTypeOK
  <2> QED  BY <2>5, <2>6, <1>5 DEF Contest, AssignTypeOK, Slices
<1>6. ASSUME NEW r \in 0..RowCount, Fold(r)  PROVE AssignTypeOK'
  <2>1. minLevel' \in [Positions -> 0..Finest]
    BY <1>6, LoweredIsLeast DEF Fold, AssignTypeOK
  <2>2. folded' \subseteq Slices'
    BY <1>6 DEF Fold, AssignTypeOK, Slices
  <2> QED  BY <2>1, <2>2, <1>6 DEF Fold, AssignTypeOK
<1>7. CASE UNCHANGED <<Input, assignVars>>
  BY <1>7 DEF AssignTypeOK, Slices
<1> QED  BY <1>1, <1>2, <1>3, <1>4, <1>5, <1>6, <1>7 DEF AssignNext

\* Every variable always holds a value of its kind.
THEOREM AssignTyped == AssignSpec => []AssignTypeOK
<1> QED  BY TypeInit, TypeStep, PTL DEF AssignSpec

-----------------------------------------------------------------------------
(* The order of priorities *)

LEMMA AboveAsymmetric ==
  ASSUME NEW a, NEW b,
         \A k \in 1..5 : a[k] \in Int /\ b[k] \in Int,
         Above(a, b)
  PROVE  ~Above(b, a)
<1>1. PICK k \in 1..5 : a[k] > b[k] /\ \A j \in 1..5 : j < k => a[j] = b[j]
  BY DEF Above
<1>2. SUFFICES ASSUME Above(b, a)  PROVE FALSE
  OBVIOUS
<1>3. PICK m \in 1..5 : b[m] > a[m] /\ \A j \in 1..5 : j < m => b[j] = a[j]
  BY <1>2 DEF Above
<1>4. k < m \/ k = m \/ m < k
  OBVIOUS
<1> QED  BY <1>1, <1>3, <1>4

LEMMA AboveTransitive ==
  ASSUME NEW a, NEW b, NEW c,
         \A k \in 1..5 : a[k] \in Int /\ b[k] \in Int /\ c[k] \in Int,
         Above(a, b), Above(b, c)
  PROVE  Above(a, c)
<1>1. PICK k \in 1..5 : a[k] > b[k] /\ \A j \in 1..5 : j < k => a[j] = b[j]
  BY DEF Above
<1>2. PICK m \in 1..5 : b[m] > c[m] /\ \A j \in 1..5 : j < m => b[j] = c[j]
  BY DEF Above
<1>3. CASE k < m
  <2>1. a[k] > c[k] /\ \A j \in 1..5 : j < k => a[j] = c[j]
    BY <1>1, <1>2, <1>3
  <2> QED  BY <2>1 DEF Above
<1>4. CASE k = m
  <2>1. a[k] > c[k] /\ \A j \in 1..5 : j < k => a[j] = c[j]
    BY <1>1, <1>2, <1>4
  <2> QED  BY <2>1 DEF Above
<1>5. CASE m < k
  <2>1. a[m] > c[m] /\ \A j \in 1..5 : j < m => a[j] = c[j]
    BY <1>1, <1>2, <1>5
  <2> QED  BY <2>1 DEF Above
<1> QED  BY <1>3, <1>4, <1>5

\* Of two that differ, the first component that does decides.
LEMMA AboveTotal ==
  ASSUME NEW a, NEW b,
         \A k \in 1..5 : a[k] \in Int /\ b[k] \in Int,
         ~Above(a, b), ~Above(b, a)
  PROVE  \A k \in 1..5 : a[k] = b[k]
<1>1. SUFFICES ASSUME NEW n \in 1..5, a[n] # b[n]  PROVE FALSE
  OBVIOUS
<1> DEFINE apart == {k \in 1..5 : a[k] # b[k]}
<1>2. PICK k \in apart : \A j \in apart : k <= j
  <2>1. apart \in SUBSET Nat /\ apart # {}
    BY <1>1
  <2> HIDE DEF apart
  <2> QED  BY <2>1, Smallest
<1>3. \A j \in 1..5 : j < k => a[j] = b[j] /\ b[j] = a[j]
  BY <1>2
<1>4. a[k] > b[k] \/ b[k] > a[k]
  BY <1>2
<1> QED  BY <1>2, <1>3, <1>4 DEF Above

LEMMA PriorityInts ==
  ASSUME AssignTypeOK, NEW p \in Positions
  PROVE  \A k \in 1..5 : Priority(p)[k] \in Int
<1>1. row[p] \in Features /\ config \in Configs
  BY DEF AssignTypeOK
<1>2. /\ row[p].index \in Indices /\ row[p].diag \in Nat
      /\ row[p].key = Missing \/ row[p].key \in Int
  BY <1>1, TableAssumption
<1>3. row[p].index \in Nat /\ Hash[row[p].index] \in Nat
  BY <1>2, TableAssumption
<1> QED  BY <1>2, <1>3 DEF Priority

\* Better is a strict order of the positions, and total.
LEMMA BetterOrder ==
  ASSUME AssignTypeOK, NEW p \in Positions, NEW q \in Positions
  PROVE  /\ ~(Better(p, q) /\ Better(q, p))
         /\ p # q => Better(p, q) \/ Better(q, p)
<1>1. p \in Int /\ q \in Int
  BY DEF Positions
<1>2. ~(Beats(p, q) /\ Beats(q, p))
  BY PriorityInts, AboveAsymmetric DEF Beats
<1> QED  BY <1>1, <1>2 DEF Better

LEMMA BetterTransitive ==
  ASSUME AssignTypeOK,
         NEW p \in Positions, NEW q \in Positions, NEW r \in Positions,
         Better(p, q), Better(q, r)
  PROVE  Better(p, r)
<1> DEFINE a == Priority(p)
           b == Priority(q)
           c == Priority(r)
<1>1. \A k \in 1..5 : a[k] \in Int /\ b[k] \in Int /\ c[k] \in Int
  BY PriorityInts
<1>2. p \in Int /\ q \in Int /\ r \in Int
  BY DEF Positions
<1>3. /\ Above(a, b) \/ (~Above(a, b) /\ ~Above(b, a) /\ p < q)
      /\ Above(b, c) \/ (~Above(b, c) /\ ~Above(c, b) /\ q < r)
  BY DEF Better, Beats
<1>4. Better(p, r) <=> Above(a, c) \/ (~Above(c, a) /\ p < r)
  BY DEF Better, Beats
<1> HIDE DEF a, b, c
<1>5. CASE Above(a, b) /\ Above(b, c)
  BY <1>1, <1>4, <1>5, AboveTransitive
<1>6. CASE Above(a, b) /\ ~Above(b, c)
  <2>1. \A k \in 1..5 : b[k] = c[k]
    BY <1>1, <1>3, <1>6, AboveTotal
  <2> QED  BY <1>4, <1>6, <2>1 DEF Above
<1>7. CASE ~Above(a, b) /\ Above(b, c)
  <2>1. \A k \in 1..5 : a[k] = b[k]
    BY <1>1, <1>3, <1>7, AboveTotal
  <2> QED  BY <1>4, <1>7, <2>1 DEF Above
<1>8. CASE ~Above(a, b) /\ ~Above(b, c)
  <2>1. \A k \in 1..5 : a[k] = b[k] /\ b[k] = c[k]
    BY <1>1, <1>3, <1>8, AboveTotal
  <2>2. ~Above(c, a)
    BY <1>1, <2>1 DEF Above
  <2> QED  BY <1>2, <1>3, <1>4, <1>8, <2>2
<1> QED  BY <1>5, <1>6, <1>7, <1>8

-----------------------------------------------------------------------------
(* Shards *)

\* What contests a cell belongs to a shard, and rivals to the same.
LEMMA ShardBounds ==
  ASSUME AssignTypeOK, NEW l \in Coarse, NEW p \in Positions, Contests(l, p)
  PROVE  ShardOf(l, p) \in 0..(Shards - 1)
<1>1. row[p] \in Features /\ config \in Configs /\ l \in 0..Finest
  BY TableAssumption DEF AssignTypeOK, Coarse
<1>2. row[p].at \in Int /\ row[p].kind \in Kinds
  BY <1>1, TableAssumption
<1>3. Effective(l, p) \in Kinds
  BY <1>2 DEF Effective, Kinds
<1>4. config.factor[Effective(l, p)] \in Nat /\ Gsd[l] \in Nat
  BY <1>1, <1>3, TableAssumption
<1>5. Width(l, Effective(l, p)) \in Nat \ {0}
  <2>1. Width(l, Effective(l, p)) \in Nat
    BY <1>4 DEF Width
  <2> QED  BY <2>1 DEF Contests
<1>6. Cell(l, p)[2] \in Int
  <2> DEFINE w == Width(l, Effective(l, p))
  <2>1. Cell(l, p)[2] = row[p].at \div w
    BY DEF Cell
  <2> HIDE DEF w
  <2>2. w \in Nat \ {0}
    BY <1>5 DEF w
  <2> QED  BY <1>2, <2>1, <2>2
<1> DEFINE d == CASE row[p].kind = "point" -> 0
                  [] row[p].kind = "line" -> 1
                  [] OTHER -> 2
<1>7. d \in Nat
  OBVIOUS
<1>8. ShardOf(l, p) = (Cell(l, p)[2] + d) % Shards
  BY DEF ShardOf
<1> HIDE DEF d
<1> QED  BY <1>6, <1>7, <1>8, BuildAssumption

LEMMA RivalsShareShard ==
  ASSUME NEW l, NEW p, NEW q, Cell(l, p) = Cell(l, q)
  PROVE  ShardOf(l, p) = ShardOf(l, q)
<1>1. row[p].kind = row[q].kind /\ Cell(l, p)[2] = Cell(l, q)[2]
  BY DEF Cell
<1> QED  BY <1>1 DEF ShardOf

-----------------------------------------------------------------------------
(* The contests: a grid has the best of each cell so far *)

\* What a level's shards have contested.
Done(l) == {p \in Positions : Contests(l, p) /\ p <= drained[l][ShardOf(l, p)]}

GridInv(l) ==
  /\ grid[l] \subseteq Done(l)
  /\ \A w, v \in grid[l] : w # v => ~Rivals(l, w, v)
  /\ \A q \in Done(l) :
       q \in grid[l] \/ \E w \in grid[l] : Rivals(l, w, q) /\ Better(w, q)
  /\ \A q \in Positions : Contests(l, q) /\ q <= start[l] => q \in Done(l)
  /\ freely[l] = {p \in Positions : p <= start[l] /\ WinsAlways(l, p)}

GridsInv == \A l \in Coarse : GridInv(l)

\* The table and the options are never written, nor is what is asked of them.
LEMMA TableFixed ==
  ASSUME UNCHANGED <<row, config>>
  PROVE  /\ \A l, p : /\ Contests(l, p)' = Contests(l, p)
                      /\ WinsAlways(l, p)' = WinsAlways(l, p)
                      /\ ShardOf(l, p)' = ShardOf(l, p)
         /\ \A l, p, q : Rivals(l, p, q)' = Rivals(l, p, q)
         /\ \A p, q : Better(p, q)' = Better(p, q)
         /\ \A p : AtFirst(p)' = AtFirst(p) /\ Laddered(p)' = Laddered(p)
BY DEF Contests, WinsAlways, ShardOf, Rivals, Better, Beats, AtFirst, Laddered,
       Eligible, Unthinned, Effective, Width, Gate, Cell, Priority

\* A level is as it was if its part of the state is.
LEMMA GridKept ==
  ASSUME UNCHANGED <<row, config>>, NEW l, GridInv(l),
         start'[l] = start[l], drained'[l] = drained[l],
         grid'[l] = grid[l], freely'[l] = freely[l]
  PROVE  GridInv(l)'
<1>1. Done(l)' = Done(l)
  BY TableFixed DEF Done
<1>2. freely'[l] = {p \in Positions : p <= start'[l] /\ WinsAlways(l, p)'}
  BY TableFixed DEF GridInv
<1>3. \A w, v \in grid'[l] : w # v => ~Rivals(l, w, v)'
  BY TableFixed DEF GridInv
<1>4. \A q \in Done(l)' :
        q \in grid'[l] \/ \E w \in grid'[l] : Rivals(l, w, q)' /\ Better(w, q)'
  BY <1>1, TableFixed DEF GridInv
<1>5. \A q \in Positions : Contests(l, q)' /\ q <= start'[l] => q \in Done(l)'
  BY <1>1, TableFixed DEF GridInv
<1> QED  BY <1>1, <1>2, <1>3, <1>4, <1>5 DEF GridInv

\* Before a wave, and after it, nothing is contested.
AtRest(l) == /\ start[l] = 0 /\ grid[l] = {} /\ freely[l] = {}
             /\ drained[l] = [s \in 0..(Shards - 1) |-> 0]

LEMMA GridAtRest ==
  AssignTypeOK => \A l \in Coarse : AtRest(l) => GridInv(l)
<1> SUFFICES ASSUME AssignTypeOK, NEW l \in Coarse, AtRest(l)
             PROVE  GridInv(l)
  OBVIOUS
<1> USE DEF AtRest
<1>1. ASSUME NEW p \in Positions, Contests(l, p)
      PROVE  ~(p <= drained[l][ShardOf(l, p)])
  <2>1. drained[l][ShardOf(l, p)] = 0
    BY <1>1, ShardBounds
  <2> QED  BY <2>1 DEF Positions
<1>2. Done(l) = {}
  BY <1>1 DEF Done
<1>3. \A p \in Positions : ~(p <= start[l])
  BY DEF Positions
<1> QED  BY <1>2, <1>3 DEF GridInv

LEMMA GridAtRestNext ==
  AssignTypeOK' => \A l \in Coarse : AtRest(l)' => GridInv(l)'
<1>1. (AssignTypeOK => \A l \in Coarse : AtRest(l) => GridInv(l))'
  BY GridAtRest, PTL
<1> QED  BY <1>1 DEF Coarse

\* One contest: the rest of a level's cells is as it was.
LEMMA GridContest ==
  ASSUME AssignTypeOK, NEW l \in Coarse, NEW s \in 0..(Shards - 1),
         GridInv(l), Contest(l, s)
  PROVE  GridInv(l)'
<1>1. PICK p \in Ahead(l, s) :
        /\ \A q \in Ahead(l, s) : p <= q
        /\ grid' = [grid EXCEPT ![l] = AfterContest(l, p)]
        /\ drained' = [drained EXCEPT ![l][s] = p]
  BY DEF Contest
<1>2. /\ l \in wave /\ start' = start /\ freely' = freely
      /\ row' = row /\ config' = config
  BY DEF Contest, Input
<1>3. /\ p \in Positions /\ Contests(l, p) /\ ShardOf(l, p) = s
      /\ p > drained[l][s]
  BY <1>1, <1>2, BlockBounds DEF Ahead
<1>4. grid'[l] = AfterContest(l, p) /\ drained'[l] = [drained[l] EXCEPT ![s] = p]
  BY <1>1 DEF AssignTypeOK
<1>5. Done(l)' = Done(l) \cup {p}
  <2>0. Done(l)' = {q \in Positions :
                      Contests(l, q) /\ q <= drained'[l][ShardOf(l, q)]}
    BY <1>2, TableFixed DEF Done
  <2>1. ASSUME NEW q \in Positions, Contests(l, q), ShardOf(l, q) # s
        PROVE  drained'[l][ShardOf(l, q)] = drained[l][ShardOf(l, q)]
    BY <1>4, <2>1, ShardBounds DEF AssignTypeOK
  <2>2. drained'[l][s] = p
    BY <1>4 DEF AssignTypeOK
  <2>3. drained[l][s] \in Nat
    <3>1. drained[l][s] \in 0..RowCount
      BY DEF AssignTypeOK
    <3> QED  BY <3>1
  <2>4. ASSUME NEW q \in Positions, Contests(l, q), ShardOf(l, q) = s, q <= p
        PROVE  q = p \/ q <= drained[l][s]
    <3>1. CASE q <= start[l]
      BY <2>4, <3>1 DEF GridInv, Done
    <3>2. CASE ~(q <= start[l]) /\ q > drained[l][s]
      <4>1. p \in Int /\ q \in Int /\ start[l] \in Int /\ BlockEnd(l) \in Int
        <5>1. start[l] \in 0..RowCount /\ BlockEnd(l) \in 0..RowCount
          BY <1>2, BlockBounds DEF AssignTypeOK
        <5> QED  BY <1>3, <5>1 DEF Positions
      <4>2. p <= BlockEnd(l)
        BY <1>1 DEF Ahead, Block
      <4>3. q \in Block(l)
        BY <2>4, <3>2, <4>1, <4>2 DEF Block
      <4>4. q \in Ahead(l, s)
        BY <2>4, <3>2, <4>3 DEF Ahead
      <4> QED  BY <1>1, <2>4, <4>1, <4>4
    <3> QED  BY <2>3, <3>1, <3>2 DEF Positions
  <2>5. ASSUME NEW q \in Positions, Contests(l, q)
        PROVE  q <= drained'[l][ShardOf(l, q)] <=>
               q = p \/ q <= drained[l][ShardOf(l, q)]
    <3>1. CASE ShardOf(l, q) # s
      BY <1>3, <2>1, <2>5, <3>1
    <3>2. CASE ShardOf(l, q) = s
      <4>1. p \in Int /\ q \in Int
        BY <1>3 DEF Positions
      <4> QED  BY <1>3, <2>2, <2>3, <2>4, <2>5, <3>2, <4>1
    <3> QED  BY <3>1, <3>2
  <2> QED  BY <1>3, <2>0, <2>5 DEF Done
<1> DEFINE incumbents == {w \in grid[l] : Cell(l, w) = Cell(l, p)}
<1>6. ASSUME NEW w \in incumbents
      PROVE  /\ w \in Positions /\ w # p
             /\ Rivals(l, w, p) /\ Rivals(l, p, w)
             /\ Beats(p, w) <=> Better(p, w)
  <2>1. w \in Done(l) /\ Cell(l, w) = Cell(l, p)
    BY DEF GridInv
  <2>2. w <= drained[l][s] /\ w \in Positions /\ Contests(l, w)
    BY <1>3, <2>1, RivalsShareShard DEF Done
  <2>3. w < p
    <3>1. drained[l][s] \in 0..RowCount
      BY DEF AssignTypeOK
    <3>2. drained[l][s] \in Int
      BY <3>1
    <3> QED  BY <1>3, <2>2, <3>2 DEF Positions
  <2>4. ~(p < w)
    BY <1>3, <2>2, <2>3 DEF Positions
  <2> QED  BY <1>3, <2>1, <2>2, <2>3, <2>4 DEF Rivals, Better
<1>7. grid[l] \subseteq Positions
  BY DEF AssignTypeOK
<1>8. CASE \E w \in incumbents : ~Beats(p, w)
  <2>1. grid'[l] = grid[l]
    BY <1>4, <1>8 DEF AfterContest
  <2>2. PICK w \in grid[l] : Rivals(l, w, p) /\ Better(w, p)
    <3>1. PICK w \in incumbents : ~Better(p, w)
      BY <1>6, <1>8
    <3> QED  BY <1>3, <1>6, <3>1, BetterOrder
  <2>3. \A q \in Done(l) \cup {p} :
          q \in grid[l] \/ \E v \in grid[l] : Rivals(l, v, q) /\ Better(v, q)
    BY <2>2 DEF GridInv
  <2>4. grid'[l] \subseteq Done(l)'
    BY <1>5, <2>1 DEF GridInv
  <2>5. \A v, u \in grid'[l] : v # u => ~Rivals(l, v, u)'
    BY <1>2, <2>1, TableFixed DEF GridInv
  <2>6. \A q \in Done(l)' :
          q \in grid'[l] \/ \E v \in grid'[l] : Rivals(l, v, q)' /\ Better(v, q)'
    BY <1>2, <1>5, <2>1, <2>3, TableFixed
  <2>7. \A q \in Positions : Contests(l, q)' /\ q <= start'[l] => q \in Done(l)'
    BY <1>2, <1>5, TableFixed DEF GridInv
  <2>8. freely'[l] = {q \in Positions : q <= start'[l] /\ WinsAlways(l, q)'}
    BY <1>2, TableFixed DEF GridInv
  <2> QED  BY <2>4, <2>5, <2>6, <2>7, <2>8 DEF GridInv
<1>9. CASE \A w \in incumbents : Beats(p, w)
  <2>1. grid'[l] = (grid[l] \ incumbents) \cup {p}
    BY <1>4, <1>9 DEF AfterContest
  <2>2. \A w \in incumbents : Rivals(l, p, w) /\ Better(p, w)
    BY <1>6, <1>9
  <2>3. ASSUME NEW w \in grid[l] \ incumbents
        PROVE  ~Rivals(l, w, p) /\ ~Rivals(l, p, w)
    BY <2>3 DEF Rivals
  <2>4. \A v, u \in grid'[l] : v # u => ~Rivals(l, v, u)
    BY <2>1, <2>3 DEF GridInv
  <2>5. ASSUME NEW q \in Done(l) \cup {p}
        PROVE  q \in grid'[l] \/ \E v \in grid'[l] : Rivals(l, v, q) /\ Better(v, q)
    <3>1. CASE q = p
      BY <2>1, <3>1
    <3>2. CASE q \in grid[l]
      BY <2>1, <2>2, <3>2
    <3>3. CASE q # p /\ q \notin grid[l]
      <4>1. PICK w \in grid[l] : Rivals(l, w, q) /\ Better(w, q)
        BY <3>3 DEF GridInv
      <4>2. CASE w \notin incumbents
        BY <2>1, <4>1, <4>2
      <4>3. CASE w \in incumbents
        <5>1. w \in Positions /\ q \in Positions
          BY <1>3, <1>7 DEF Done
        <5>2. Better(p, q)
          BY <1>3, <2>2, <4>1, <4>3, <5>1, BetterTransitive
        <5>3. Rivals(l, p, q)
          BY <1>3, <4>1, <4>3 DEF Rivals
        <5> QED  BY <2>1, <5>2, <5>3
      <4> QED  BY <4>2, <4>3
    <3> QED  BY <3>1, <3>2, <3>3
  <2>6. grid'[l] \subseteq Done(l)'
    BY <1>5, <2>1 DEF GridInv
  <2>7. \A v, u \in grid'[l] : v # u => ~Rivals(l, v, u)'
    BY <1>2, <2>4, TableFixed
  <2>8. \A q \in Done(l)' :
          q \in grid'[l] \/ \E v \in grid'[l] : Rivals(l, v, q)' /\ Better(v, q)'
    BY <1>2, <1>5, <2>5, TableFixed
  <2>9. \A q \in Positions : Contests(l, q)' /\ q <= start'[l] => q \in Done(l)'
    BY <1>2, <1>5, TableFixed DEF GridInv
  <2>10. freely'[l] = {q \in Positions : q <= start'[l] /\ WinsAlways(l, q)'}
    BY <1>2, TableFixed DEF GridInv
  <2> QED  BY <2>6, <2>7, <2>8, <2>9, <2>10 DEF GridInv
<1> QED  BY <1>8, <1>9

\* The shards are through with a block.
LEMMA GridNextBlock ==
  ASSUME AssignTypeOK, NEW l \in Coarse, GridInv(l), NextBlock(l)
  PROVE  GridInv(l)'
<1>1. /\ l \in wave /\ drained' = drained /\ grid' = grid
      /\ row' = row /\ config' = config
      /\ \A s \in 0..(Shards - 1) : Ahead(l, s) = {}
      /\ start'[l] = BlockEnd(l)
      /\ freely'[l] = freely[l] \cup {p \in Block(l) : WinsAlways(l, p)}
  BY DEF NextBlock, Input, AssignTypeOK
<1>2. /\ start[l] \in Nat /\ BlockEnd(l) \in Nat /\ start[l] <= BlockEnd(l)
      /\ BlockEnd(l) <= RowCount /\ RowCount \in Nat
  <2>1. start[l] \in 0..RowCount /\ BlockEnd(l) \in 0..RowCount
    BY <1>1, BlockBounds DEF AssignTypeOK
  <2> QED  BY <1>1, <2>1, BlockBounds, TableAssumption
<1>3. Done(l)' = Done(l)
  BY <1>1, TableFixed DEF Done
<1>4. \A p : p \in Block(l) <=> p \in Positions /\ p > start[l] /\ p <= BlockEnd(l)
  BY <1>2 DEF Block, Positions
<1>5. ASSUME NEW q \in Positions, Contests(l, q), q <= BlockEnd(l)
      PROVE  q \in Done(l)
  <2>1. CASE q <= start[l]
    BY <1>5, <2>1 DEF GridInv
  <2>2. CASE ~(q <= start[l])
    <3>1. ShardOf(l, q) \in 0..(Shards - 1)
      BY <1>5, ShardBounds
    <3>2. q \in Block(l)
      BY <1>2, <1>4, <1>5, <2>2 DEF Positions
    <3>3. ~(q > drained[l][ShardOf(l, q)])
      BY <1>1, <1>5, <3>1, <3>2 DEF Ahead
    <3>4. drained[l][ShardOf(l, q)] \in 0..RowCount
      BY <3>1 DEF AssignTypeOK
    <3>5. q <= drained[l][ShardOf(l, q)]
      BY <3>3, <3>4 DEF Positions
    <3> QED  BY <1>5, <3>5 DEF Done
  <2> QED  BY <2>1, <2>2
<1>6. freely'[l] = {p \in Positions : p <= BlockEnd(l) /\ WinsAlways(l, p)}
  <2>1. freely[l] = {p \in Positions : p <= start[l] /\ WinsAlways(l, p)}
    BY DEF GridInv
  <2>2. \A p \in Positions :
          p <= BlockEnd(l) <=> p <= start[l] \/ p \in Block(l)
    BY <1>2, <1>4 DEF Positions
  <2> QED  BY <1>1, <1>4, <2>1, <2>2
<1>7. freely'[l] = {p \in Positions : p <= start'[l] /\ WinsAlways(l, p)'}
  BY <1>1, <1>6, TableFixed
<1>8. \A q \in Positions : Contests(l, q)' /\ q <= start'[l] => q \in Done(l)'
  BY <1>1, <1>3, <1>5, TableFixed
<1>9. \A w, v \in grid'[l] : w # v => ~Rivals(l, w, v)'
  BY <1>1, TableFixed DEF GridInv
<1>10. \A q \in Done(l)' :
         q \in grid'[l] \/ \E w \in grid'[l] : Rivals(l, w, q)' /\ Better(w, q)'
  BY <1>1, <1>3, TableFixed DEF GridInv
<1>11. grid'[l] \subseteq Done(l)'
  BY <1>1, <1>3 DEF GridInv
<1> QED  BY <1>7, <1>8, <1>9, <1>10, <1>11 DEF GridInv

LEMMA GridsInit == AssignInit => GridsInv
<1> SUFFICES ASSUME AssignInit, NEW l \in Coarse  PROVE GridInv(l)
  BY DEF GridsInv
<1>1. AssignTypeOK
  BY TypeInit
<1> QED  BY <1>1, GridAtRest DEF AssignInit, AtRest

LEMMA GridsStep ==
  AssignTypeOK /\ AssignTypeOK' /\ GridsInv /\ [AssignNext]_<<Input, assignVars>>
    => GridsInv'
<1> SUFFICES ASSUME AssignTypeOK, AssignTypeOK', GridsInv,
                    [AssignNext]_<<Input, assignVars>>, NEW k \in Coarse
             PROVE  GridInv(k)'
  BY DEF GridsInv, Coarse
<1> USE DEF Input, assignVars, building
<1>0. GridInv(k)
  BY DEF GridsInv
<1>1. CASE StartWave
  BY <1>0, <1>1, GridKept DEF StartWave
<1>2. CASE EndWave
  <2>1. AtRest(k)'
    BY <1>2 DEF EndWave, AtRest
  <2> QED  BY <2>1, GridAtRestNext
<1>3. ASSUME NEW l \in Coarse, NextBlock(l)  PROVE GridInv(k)'
  <2>1. CASE l = k
    BY <1>0, <1>3, <2>1, GridNextBlock
  <2>2. CASE l # k
    <3>1. /\ start'[k] = start[k] /\ drained'[k] = drained[k]
          /\ grid'[k] = grid[k] /\ freely'[k] = freely[k]
      BY <1>3, <2>2 DEF NextBlock, AssignTypeOK
    <3> QED  BY <1>0, <1>3, <3>1, GridKept DEF NextBlock
  <2> QED  BY <2>1, <2>2
<1>4. ASSUME NEW l \in Coarse, NEW c \in 0..RowCount, Classify(l, c)
      PROVE  GridInv(k)'
  BY <1>0, <1>4, GridKept DEF Classify
<1>5. ASSUME NEW l \in Coarse, NEW s \in 0..(Shards - 1), Contest(l, s)
      PROVE  GridInv(k)'
  <2>1. CASE l = k
    BY <1>0, <1>5, <2>1, GridContest
  <2>2. CASE l # k
    <3>1. /\ start'[k] = start[k] /\ drained'[k] = drained[k]
          /\ grid'[k] = grid[k] /\ freely'[k] = freely[k]
      BY <1>5, <2>2 DEF Contest, AssignTypeOK
    <3> QED  BY <1>0, <1>5, <3>1, GridKept DEF Contest
  <2> QED  BY <2>1, <2>2
<1>6. ASSUME NEW r \in 0..RowCount, Fold(r)  PROVE GridInv(k)'
  BY <1>0, <1>6, GridKept DEF Fold
<1>7. CASE UNCHANGED <<Input, assignVars>>
  BY <1>0, <1>7, GridKept
<1> QED  BY <1>1, <1>2, <1>3, <1>4, <1>5, <1>6, <1>7 DEF AssignNext

\* Once a level is through the table, its winners are what survives there.
LEMMA WinnersSurvive ==
  ASSUME AssignTypeOK, GridsInv, NEW l \in Coarse, start[l] = RowCount,
         NEW p \in Positions
  PROVE  p \in Winners(l) <=> Survives(l, p)
<1>1. GridInv(l)
  BY DEF GridsInv
<1>2. \A q \in Positions : q <= start[l]
  BY TableAssumption DEF Positions
<1>3. \A q \in Positions : Contests(l, q) <=> q \in Done(l)
  BY <1>1, <1>2 DEF GridInv, Done
<1>4. p \in freely[l] <=> WinsAlways(l, p)
  BY <1>1, <1>2 DEF GridInv
<1>5. grid[l] \subseteq Positions
  BY DEF AssignTypeOK
<1>6. ASSUME p \in grid[l], NEW q \in Positions, q # p, Rivals(l, p, q)
      PROVE  Better(p, q)
  <2>1. q \notin grid[l]
    BY <1>1, <1>6 DEF GridInv
  <2>2. q \in Done(l)
    BY <1>3, <1>6 DEF Rivals
  <2>3. PICK w \in grid[l] : Rivals(l, w, q) /\ Better(w, q)
    BY <1>1, <2>1, <2>2 DEF GridInv
  <2>4. Rivals(l, p, w)
    BY <1>6, <2>3 DEF Rivals
  <2>5. w = p
    BY <1>1, <1>6, <2>4 DEF GridInv
  <2> QED  BY <2>3, <2>5
<1>7. ASSUME Contests(l, p), p \notin grid[l]
      PROVE  \E q \in Positions : q # p /\ Rivals(l, p, q) /\ ~Better(p, q)
  <2>1. PICK w \in grid[l] : Rivals(l, w, p) /\ Better(w, p)
    BY <1>1, <1>3, <1>7 DEF GridInv
  <2>2. w \in Positions /\ w # p /\ ~Better(p, w)
    BY <1>5, <1>7, <2>1, BetterOrder
  <2>3. Rivals(l, p, w)
    BY <2>1 DEF Rivals
  <2> QED  BY <2>2, <2>3
<1>8. p \in grid[l] => Contests(l, p)
  BY <1>1, <1>3 DEF GridInv
<1> QED  BY <1>4, <1>6, <1>7, <1>8 DEF Winners, Survives

-----------------------------------------------------------------------------
(* The levels so far *)

\* The levels that a position's own has taken into account.
Seen(p) == {l \in Coarse : /\ l < planned
                           /\ l \in wave => (p - 1) \div FoldChunk \in folded}

LevelsInv ==
  /\ \A l \in wave : l < planned
  /\ wave = {} => folded = {}
  /\ \A p \in Positions :
       /\ \/ minLevel[p] = AtFirst(p)
          \/ \E l \in Seen(p) : minLevel[p] = l /\ Survives(l, p)
       /\ \A l \in Seen(p) : Survives(l, p) => minLevel[p] <= l

LEMMA SurvivesFixed ==
  ASSUME UNCHANGED <<row, config>>
  PROVE  \A l, p : Survives(l, p)' = Survives(l, p)
BY TableFixed DEF Survives

\* What leaves the levels alone, and what they have taken into account.
LEMMA LevelsKept ==
  ASSUME LevelsInv, UNCHANGED <<row, config, minLevel>>,
         \A p \in Positions : Seen(p)' = Seen(p),
         \A l \in wave' : l < planned', wave' = {} => folded' = {}
  PROVE  LevelsInv'
<1>1. ASSUME NEW p \in Positions
      PROVE  /\ \/ minLevel'[p] = AtFirst(p)'
                \/ \E l \in Seen(p)' : minLevel'[p] = l /\ Survives(l, p)'
             /\ \A l \in Seen(p)' : Survives(l, p)' => minLevel'[p] <= l
  BY SurvivesFixed, TableFixed DEF LevelsInv
<1> QED  BY <1>1 DEF LevelsInv

LEMMA LevelsFold ==
  ASSUME AssignTypeOK, GridsInv, LevelsInv, NEW r, Fold(r)
  PROVE  LevelsInv'
<1>1. /\ Built /\ r \in Slices \ folded /\ folded' = folded \cup {r}
      /\ row' = row /\ config' = config /\ wave' = wave /\ planned' = planned
      /\ minLevel' = [p \in Positions |-> IF p \in Slice(r) THEN Lowered(p)
                                                            ELSE minLevel[p]]
  BY DEF Fold, Input
<1>2. ASSUME NEW p \in Positions
      PROVE  /\ \/ minLevel'[p] = AtFirst(p)'
                \/ \E l \in Seen(p)' : minLevel'[p] = l /\ Survives(l, p)'
             /\ \A l \in Seen(p)' : Survives(l, p)' => minLevel'[p] <= l
  <2>1. Seen(p)' = {l \in Coarse : /\ l < planned
                                   /\ l \in wave =>
                                        (p - 1) \div FoldChunk \in folded \cup {r}}
    BY <1>1 DEF Seen
  <2>2. CASE p \notin Slice(r)
    <3>1. Seen(p)' = Seen(p)
      BY <2>1, <2>2 DEF Seen, Slice
    <3>2. minLevel'[p] = minLevel[p]
      BY <1>1, <2>2
    <3> QED  BY <1>1, <3>1, <3>2, SurvivesFixed, TableFixed DEF LevelsInv
  <2>3. CASE p \in Slice(r)
    <3> DEFINE levels == {minLevel[p]} \cup {l \in wave : p \in Winners(l)}
    <3>1. /\ Lowered(p) \in levels /\ \A k \in levels : Lowered(p) <= k
          /\ Lowered(p) \in 0..Finest
      BY LoweredIsLeast
    <3>2. \A l \in wave : l \in Coarse /\ l < planned
      BY DEF LevelsInv, AssignTypeOK
    <3>3. \A l \in wave : p \in Winners(l) <=> Survives(l, p)
      BY <1>1, <3>2, WinnersSurvive DEF Built
    <3>4. Seen(p)' = {l \in Coarse : l < planned}
      BY <2>1, <2>3 DEF Slice
    <3>5. minLevel'[p] = Lowered(p)
      BY <1>1, <2>3
    <3>6. Seen(p) \subseteq Seen(p)' /\ Seen(p)' \subseteq Seen(p) \cup wave
      BY <3>4 DEF Seen
    <3>7. minLevel[p] \in 0..Finest
      BY DEF AssignTypeOK
    <3>8. CASE Lowered(p) = minLevel[p]
      <4>1. \/ minLevel'[p] = AtFirst(p)'
            \/ \E l \in Seen(p)' : minLevel'[p] = l /\ Survives(l, p)'
        BY <1>1, <3>5, <3>6, <3>8, SurvivesFixed, TableFixed DEF LevelsInv
      <4>2. \A l \in Seen(p)' : Survives(l, p)' => minLevel'[p] <= l
        BY <1>1, <3>1, <3>3, <3>5, <3>6, <3>8, SurvivesFixed DEF LevelsInv
      <4> QED  BY <4>1, <4>2
    <3>9. CASE Lowered(p) \in wave /\ p \in Winners(Lowered(p))
      <4>1. \E l \in Seen(p)' : minLevel'[p] = l /\ Survives(l, p)'
        BY <1>1, <3>2, <3>3, <3>4, <3>5, <3>9, SurvivesFixed
      <4>2. ASSUME NEW l \in Seen(p), Survives(l, p)  PROVE Lowered(p) <= l
        <5>1. Lowered(p) <= minLevel[p] /\ minLevel[p] <= l
          BY <3>1, <4>2 DEF LevelsInv
        <5>2. l \in Int
          BY DEF Seen, Coarse
        <5>3. Lowered(p) \in Int /\ minLevel[p] \in Int
          BY <3>1, <3>7
        <5> QED  BY <5>1, <5>2, <5>3
      <4>3. \A l \in Seen(p)' : Survives(l, p)' => minLevel'[p] <= l
        BY <1>1, <3>1, <3>3, <3>5, <3>6, <4>2, SurvivesFixed
      <4> QED  BY <4>1, <4>3
    <3> QED  BY <3>1, <3>8, <3>9
  <2> QED  BY <2>2, <2>3
<1>3. wave # {}
  BY <1>1 DEF Built
<1> QED  BY <1>1, <1>2, <1>3 DEF LevelsInv

LEMMA LevelsInit == AssignInit => LevelsInv
<1> SUFFICES ASSUME AssignInit  PROVE LevelsInv
  OBVIOUS
<1>1. \A p : Seen(p) = {}
  BY DEF AssignInit, Seen, Coarse
<1> QED  BY <1>1 DEF AssignInit, LevelsInv

LEMMA LevelsStep ==
  AssignTypeOK /\ GridsInv /\ LevelsInv /\ [AssignNext]_<<Input, assignVars>>
    => LevelsInv'
<1> SUFFICES ASSUME AssignTypeOK, GridsInv, LevelsInv,
                    [AssignNext]_<<Input, assignVars>>
             PROVE  LevelsInv'
  OBVIOUS
<1> USE DEF Input, assignVars, building
<1>1. CASE StartWave
  <2>1. PICK last \in planned..(Finest - 1) :
          wave' = planned..last /\ planned' = last + 1
    BY <1>1 DEF StartWave
  <2>2. planned \in Nat /\ last \in Nat /\ planned <= last
    <3>1. planned \in 0..Finest
      BY DEF AssignTypeOK
    <3> QED  BY <3>1, <2>1, TableAssumption
  <2>3. /\ wave = {} /\ folded' = folded
        /\ row' = row /\ config' = config /\ minLevel' = minLevel
    BY <1>1 DEF StartWave
  <2>4. folded = {}
    BY <2>3 DEF LevelsInv
  <2>5. ASSUME NEW p \in Positions  PROVE Seen(p)' = Seen(p)
    <3>1. Seen(p)' = {l \in Coarse : l < last + 1 /\ ~(l \in planned..last)}
      BY <2>1, <2>3, <2>4 DEF Seen
    <3>2. Seen(p) = {l \in Coarse : l < planned}
      BY <2>3 DEF Seen
    <3>3. \A l \in Coarse :
            l < last + 1 /\ ~(l \in planned..last) <=> l < planned
      BY <2>2, TableAssumption DEF Coarse
    <3> QED  BY <3>1, <3>2, <3>3
  <2>6. (\A l \in wave' : l < planned') /\ (wave' = {} => folded' = {})
    BY <2>1, <2>2, <2>3, <2>4
  <2> QED  BY <2>3, <2>5, <2>6, LevelsKept
<1>2. CASE EndWave
  <2>1. /\ folded = Slices /\ wave' = {} /\ folded' = {} /\ planned' = planned
        /\ row' = row /\ config' = config /\ minLevel' = minLevel
    BY <1>2 DEF EndWave
  <2>2. \A p \in Positions : Seen(p)' = Seen(p)
    BY <2>1 DEF Seen, Slices
  <2> QED  BY <2>1, <2>2, LevelsKept
<1>3. ASSUME UNCHANGED <<row, config, minLevel, wave, planned, folded>>
      PROVE  LevelsInv'
  <2>1. \A p \in Positions : Seen(p)' = Seen(p)
    BY <1>3 DEF Seen
  <2>2. (\A l \in wave' : l < planned') /\ (wave' = {} => folded' = {})
    BY <1>3 DEF LevelsInv
  <2> QED  BY <1>3, <2>1, <2>2, LevelsKept
<1>4. ASSUME NEW l \in Coarse, NextBlock(l)  PROVE LevelsInv'
  BY <1>3, <1>4 DEF NextBlock
<1>5. ASSUME NEW l \in Coarse, NEW c \in 0..RowCount, Classify(l, c)
      PROVE  LevelsInv'
  BY <1>3, <1>5 DEF Classify
<1>6. ASSUME NEW l \in Coarse, NEW s \in 0..(Shards - 1), Contest(l, s)
      PROVE  LevelsInv'
  BY <1>3, <1>6 DEF Contest
<1>7. ASSUME NEW r \in 0..RowCount, Fold(r)  PROVE LevelsInv'
  BY <1>7, LevelsFold
<1>8. CASE UNCHANGED <<Input, assignVars>>
  BY <1>3, <1>8
<1> QED  BY <1>1, <1>2, <1>4, <1>5, <1>6, <1>7, <1>8 DEF AssignNext

\* What the levels amount to once all are planned and folded.
LEMMA SerialAtEnd == AssignTypeOK /\ LevelsInv => LevelsAreSerial
<1> SUFFICES ASSUME AssignTypeOK, LevelsInv, Assigned, NEW p \in Positions
             PROVE  IF Laddered(p) THEN minLevel[p] = AtFirst(p)
                    ELSE /\ minLevel[p] \in Coarse => Survives(minLevel[p], p)
                         /\ \A l \in Coarse : l < minLevel[p] => ~Survives(l, p)
  BY DEF LevelsAreSerial
<1>1. Seen(p) = Coarse
  BY TableAssumption DEF Assigned, Seen, Coarse
<1>2. CASE Laddered(p)
  <2>1. \A l : ~Survives(l, p)
    BY <1>2 DEF Survives, WinsAlways, Contests, Eligible
  <2> QED  BY <1>2, <2>1 DEF LevelsInv
<1>3. CASE ~Laddered(p)
  <2>1. AtFirst(p) = Finest /\ Finest \notin Coarse
    BY <1>3, TableAssumption DEF AtFirst, Coarse
  <2>2. minLevel[p] \in Int
    <3>1. minLevel[p] \in 0..Finest
      BY DEF AssignTypeOK
    <3> QED  BY <3>1
  <2>3. \A l \in Coarse : l < minLevel[p] => ~(minLevel[p] <= l)
    BY <2>2 DEF Coarse
  <2> QED  BY <1>1, <1>3, <2>1, <2>3 DEF LevelsInv
<1> QED  BY <1>2, <1>3

\* Whatever the waves, blocks, chunks, shards and slices are and whichever task
\* is ahead, each feature gets the level that one thread would give it.
THEOREM AlwaysSerial == AssignSpec => []LevelsAreSerial
<1> DEFINE Inv == AssignTypeOK /\ GridsInv /\ LevelsInv
<1>1. AssignInit => Inv
  BY TypeInit, GridsInit, LevelsInit
<1>2. Inv /\ [AssignNext]_<<Input, assignVars>> => Inv'
  BY TypeStep, GridsStep, LevelsStep
<1>3. Inv => LevelsAreSerial
  BY SerialAtEnd
<1> QED  BY <1>1, <1>2, <1>3, PTL DEF AssignSpec

-----------------------------------------------------------------------------
(* water_fill *)

\* What water_fill is given: how many candidates each neighbourhood has.
Populated(pops) ==
  /\ IsFiniteSet(DOMAIN pops) /\ DOMAIN pops \subseteq Int
  /\ \A c \in DOMAIN pops : pops[c] \in 1..RowCount

\* While it fills: no more than the units are gone, and no cell that is full
\* has more than one that is not would be given.
FilledSoundly(pops, n, full) ==
  /\ full \subseteq DOMAIN pops
  /\ Rest(pops, n, full) \in Nat
  /\ \A a \in full, b \in DOMAIN pops \ full :
       /\ pops[a] < pops[b]
       /\ Rest(pops, n, full) * Weight[pops[b]] >= pops[a] * Pull(pops, full)

LEMMA Pulls ==
  ASSUME BudgetAssumption, NEW pops, Populated(pops),
         NEW full \in SUBSET DOMAIN pops
  PROVE  /\ SumFunctionOnSet(pops, full) \in Nat
         /\ Pull(pops, full) \in Nat
         /\ \A c \in DOMAIN pops \ full : Weight[pops[c]] <= Pull(pops, full)
         /\ \A c \in DOMAIN pops : pops[c] \in Nat \ {0} /\ Weight[pops[c]] \in Nat \ {0}
<1> DEFINE C == DOMAIN pops
           w == [c \in C |-> Weight[pops[c]]]
<1>1. \A c \in C : pops[c] \in Nat \ {0} /\ pops[c] \in 1..RowCount
  <2>1. RowCount \in Nat
    BY TableAssumption
  <2> QED  BY <2>1 DEF Populated
<1>2. \A c \in C : Weight[pops[c]] \in Nat \ {0}
  BY <1>1 DEF BudgetAssumption
<1>3. Summable(pops, pops, C) /\ Summable(w, w, C)
  BY <1>1, <1>2 DEF Summable
<1>4. IsFiniteSet(C)
  BY DEF Populated
<1>5. SumFunctionOnSet(pops, full) \in Nat
  BY <1>3, <1>4, Summing
<1>6. Pull(pops, full) = SumFunctionOnSet(w, C \ full)
  BY DEF Pull
<1> HIDE DEF w
<1>7. Pull(pops, full) \in Nat
  BY <1>3, <1>4, <1>6, Summing
<1>8. ASSUME NEW c \in C \ full  PROVE w[c] <= Pull(pops, full)
  <2> DEFINE r == (C \ full) \ {c}
  <2>1. C \ full = {c} \cup r /\ {c} \cap r = {} /\ {c} \in SUBSET C /\ r \in SUBSET C
    OBVIOUS
  <2> HIDE DEF r
  <2>2. SumFunctionOnSet(w, C \ full) = SumFunctionOnSet(w, {c}) + SumFunctionOnSet(w, r)
    BY <1>3, <1>4, <2>1, Summing
  <2>3. SumFunctionOnSet(w, {c}) = w[c] /\ SumFunctionOnSet(w, r) \in Nat
    BY <1>3, <1>4, <2>1, Summing
  <2>4. w[c] \in Nat
    BY <1>3 DEF Summable
  <2> QED  BY <1>6, <2>2, <2>3, <2>4
<1>9. \A c \in C : w[c] = Weight[pops[c]]
  BY DEF w
<1> QED  BY <1>1, <1>2, <1>5, <1>7, <1>8, <1>9

\* Arithmetic: taking out what is worth its share leaves more for each share.
LEMMA MoreForEach ==
  ASSUME NEW r \in Nat, NEW p \in Nat, NEW m \in Nat, NEW v \in Nat, NEW q \in Nat,
         p = v + q, p > 0, m * p <= v * r
  PROVE  m <= r /\ (r - m) * p >= r * q
<1>1. v * r <= p * r
  <2>1. p * r = v * r + q * r
    OBVIOUS
  <2>2. q * r \in Nat /\ v * r \in Nat
    OBVIOUS
  <2> QED  BY <2>1, <2>2
<1>2. m * p <= r * p
  <2>1. p * r = r * p /\ m * p \in Nat /\ v * r \in Nat /\ r * p \in Nat
    OBVIOUS
  <2> QED  BY <1>1, <2>1
<1>3. m <= r
  <2>1. SUFFICES ASSUME r < m  PROVE FALSE
    OBVIOUS
  <2>2. r * p + p <= m * p
    <3>1. (r + 1) * p <= m * p
      BY <2>1, ProductMonotone
    <3>2. (r + 1) * p = r * p + p
      OBVIOUS
    <3> QED  BY <3>1, <3>2
  <2>3. r * p \in Nat /\ m * p \in Nat
    OBVIOUS
  <2> QED  BY <1>2, <2>2, <2>3
<1>4. (r - m) * p = r * p - m * p
  OBVIOUS
<1>5. r * q = r * p - v * r
  <2>1. q = p - v
    OBVIOUS
  <2>2. r * (p - v) = r * p - v * r
    OBVIOUS
  <2> QED  BY <2>1, <2>2
<1>6. m * p \in Nat /\ v * r \in Nat /\ r * p \in Nat
  OBVIOUS
<1> QED  BY <1>3, <1>4, <1>5, <1>6

\* Arithmetic: and so what each share could buy it can buy still.
LEMMA StillBuys ==
  ASSUME NEW r \in Nat, NEW s \in Nat, NEW p \in Nat, NEW q \in Nat,
         NEW w \in Nat, NEW a \in Nat, p > 0,
         s * p >= r * q, r * w >= a * p
  PROVE  s * w >= a * q
<1>1. (s * p) * w >= (r * q) * w
  <2>1. PICK x \in Nat : x = s * p
    OBVIOUS
  <2>2. PICK y \in Nat : y = r * q
    OBVIOUS
  <2>3. y * w <= x * w
    BY <2>1, <2>2, ProductMonotone
  <2> QED  BY <2>1, <2>2, <2>3
<1>2. (r * w) * q >= (a * p) * q
  <2>1. PICK x \in Nat : x = r * w
    OBVIOUS
  <2>2. PICK y \in Nat : y = a * p
    OBVIOUS
  <2>3. y * q <= x * q
    BY <2>1, <2>2, ProductMonotone
  <2> QED  BY <2>1, <2>2, <2>3
<1>3. /\ (s * p) * w = (s * w) * p /\ (r * q) * w = (r * w) * q
      /\ (a * p) * q = (a * q) * p
  OBVIOUS
<1>4. PICK x \in Nat : x = s * w
  OBVIOUS
<1>5. PICK y \in Nat : y = a * q
  OBVIOUS
<1>6. y * p <= x * p
  <2>1. (r * w) * q \in Nat /\ (s * w) * p \in Nat /\ (a * q) * p \in Nat
    OBVIOUS
  <2> QED  BY <1>1, <1>2, <1>3, <1>4, <1>5, <2>1
<1>7. y <= x
  <2>1. SUFFICES ASSUME x < y  PROVE FALSE
    OBVIOUS
  <2>2. (x + 1) * p <= y * p
    BY <2>1, ProductMonotone
  <2>3. (x + 1) * p = x * p + p /\ x * p \in Nat /\ y * p \in Nat
    OBVIOUS
  <2> QED  BY <1>6, <2>2, <2>3
<1> QED  BY <1>4, <1>5, <1>7

\* Arithmetic: the smaller of two cells has the larger share of its population.
LEMMA SmallerFills ==
  ASSUME NEW r \in Nat, NEW p \in Nat, NEW i \in Nat, NEW j \in Nat,
         NEW v \in Nat, NEW w \in Nat, j > 0,
         v * j >= w * i, r * w >= j * p
  PROVE  r * v >= i * p
<1>1. r * (v * j) >= r * (w * i)
  <2>1. PICK x \in Nat : x = v * j
    OBVIOUS
  <2>2. PICK y \in Nat : y = w * i
    OBVIOUS
  <2>3. r * y <= r * x
    BY <2>1, <2>2, ProductMonotone
  <2> QED  BY <2>1, <2>2, <2>3
<1>2. (r * w) * i >= (j * p) * i
  <2>1. PICK x \in Nat : x = r * w
    OBVIOUS
  <2>2. PICK y \in Nat : y = j * p
    OBVIOUS
  <2>3. y * i <= x * i
    BY <2>1, <2>2, ProductMonotone
  <2> QED  BY <2>1, <2>2, <2>3
<1>3. /\ r * (v * j) = (r * v) * j /\ r * (w * i) = (r * w) * i
      /\ (j * p) * i = (i * p) * j
  OBVIOUS
<1>4. PICK x \in Nat : x = r * v
  OBVIOUS
<1>5. PICK y \in Nat : y = i * p
  OBVIOUS
<1>6. y * j <= x * j
  <2>1. (r * w) * i \in Nat /\ (r * v) * j \in Nat /\ (i * p) * j \in Nat
    OBVIOUS
  <2> QED  BY <1>1, <1>2, <1>3, <1>4, <1>5, <2>1
<1>7. y <= x
  <2>1. SUFFICES ASSUME x < y  PROVE FALSE
    OBVIOUS
  <2>2. (x + 1) * j <= y * j
    BY <2>1, ProductMonotone
  <2>3. (x + 1) * j = x * j + j /\ x * j \in Nat /\ y * j \in Nat
    OBVIOUS
  <2> QED  BY <1>6, <2>2, <2>3
<1> QED  BY <1>4, <1>5, <1>7

\* What the cells that fill up take of the units and of the weight.
LEMMA FillTakes ==
  ASSUME BudgetAssumption, NEW pops, Populated(pops), NEW n \in Nat,
         NEW full \in SUBSET DOMAIN pops, Rest(pops, n, full) \in Nat,
         Filled(pops, n, full) # full
  PROVE  /\ Filled(pops, n, full) \in SUBSET DOMAIN pops
         /\ Rest(pops, n, Filled(pops, n, full)) \in Nat
         /\ Pull(pops, full) > 0
         /\ Rest(pops, n, Filled(pops, n, full)) * Pull(pops, full)
              >= Rest(pops, n, full) * Pull(pops, Filled(pops, n, full))
<1> DEFINE C == DOMAIN pops
           w == [c \in C |-> Weight[pops[c]]]
           more == Filled(pops, n, full) \ full
           r == Rest(pops, n, full)
           p == Pull(pops, full)
           q == Pull(pops, Filled(pops, n, full))
           m == SumFunctionOnSet(pops, more)
           v == SumFunctionOnSet(w, more)
<1>1. /\ more \in SUBSET (C \ full) /\ Filled(pops, n, full) = full \cup more
      /\ \A c \in more : r > 0 /\ r * w[c] >= pops[c] * p
  BY DEF Filled
<1>2. more # {}
  BY <1>1
<1>3. IsFiniteSet(C)
  BY DEF Populated
<1>4. \A c \in C : pops[c] \in Nat \ {0} /\ w[c] \in Nat \ {0}
  BY Pulls
<1>5. p \in Nat /\ SumFunctionOnSet(pops, full) \in Nat
  BY Pulls
<1>6. p > 0
  <2>1. PICK c \in more : TRUE
    BY <1>2
  <2>2. Weight[pops[c]] <= p /\ Weight[pops[c]] \in Nat \ {0}
    BY <1>1, <2>1, Pulls
  <2> HIDE DEF p
  <2> QED  BY <1>5, <2>2
<1>7. p = SumFunctionOnSet(w, C \ full) /\ q = SumFunctionOnSet(w, C \ (full \cup more))
  BY <1>1 DEF Pull
<1>8. Summable(pops, pops, C) /\ Summable(w, w, C)
  BY <1>4 DEF Summable
<1>9. q \in Nat /\ Filled(pops, n, full) \in SUBSET C
  BY <1>1, Pulls
<1>10. /\ r = n - SumFunctionOnSet(pops, full)
       /\ Rest(pops, n, full \cup more) = n - SumFunctionOnSet(pops, full \cup more)
  BY DEF Rest
<1>11. r \in Nat
  OBVIOUS
<1> HIDE DEF more, w, p, q, r
<1>12. p = v + q
  <2>1. /\ C \ full = more \cup (C \ (full \cup more)) /\ more \cap (C \ (full \cup more)) = {}
        /\ more \in SUBSET C /\ C \ (full \cup more) \in SUBSET C
    BY <1>1
  <2>2. SumFunctionOnSet(w, more \cup (C \ (full \cup more)))
          = SumFunctionOnSet(w, more) + SumFunctionOnSet(w, C \ (full \cup more))
    BY <1>3, <1>8, <2>1, Summing
  <2> QED  BY <1>7, <2>1, <2>2
<1>13. m \in Nat /\ v \in Nat
  <2>1. more \in SUBSET C
    BY <1>1
  <2> QED  BY <1>3, <1>8, <2>1, Summing
<1>14. SumFunctionOnSet(pops, full \cup more) = SumFunctionOnSet(pops, full) + m
  <2>1. more \in SUBSET C /\ full \in SUBSET C /\ full \cap more = {}
    BY <1>1
  <2> QED  BY <1>3, <1>8, <2>1, Summing
<1>15. m * p <= v * r
  <2> DEFINE f == [c \in more |-> pops[c] * p]
             g == [c \in more |-> w[c] * r]
  <2>1. IsFiniteSet(more)
    BY <1>1, <1>3, FS_Subset
  <2>2. \A c \in more : pops[c] \in Nat /\ w[c] \in Nat
    BY <1>1, <1>4
  <2>3. \A c \in more : f[c] = pops[c] * p /\ g[c] = w[c] * r
    OBVIOUS
  <2>4. ASSUME NEW c \in more  PROVE f[c] \in Nat /\ g[c] \in Nat /\ f[c] <= g[c]
    <3>1. r * w[c] >= pops[c] * p
      BY <1>1
    <3>2. w[c] * r = r * w[c] /\ w[c] * r \in Nat /\ pops[c] * p \in Nat
      BY <1>5, <1>11, <2>2
    <3> QED  BY <2>3, <3>1, <3>2
  <2> HIDE DEF f, g
  <2>5. SumFunctionOnSet(f, more) = m * p
    BY <1>5, <2>1, <2>2, <2>3, SumScaled
  <2>6. SumFunctionOnSet(g, more) = v * r
    BY <1>11, <2>1, <2>2, <2>3, SumScaled
  <2>7. SumFunctionOnSet(f, more) <= SumFunctionOnSet(g, more)
    BY <2>1, <2>4, SumMonotone
  <2> QED  BY <2>5, <2>6, <2>7
<1> HIDE DEF m, v
<1>16. m <= r /\ (r - m) * p >= r * q
  BY <1>5, <1>6, <1>9, <1>11, <1>12, <1>13, <1>15, MoreForEach
<1>17. Rest(pops, n, full \cup more) = r - m /\ r - m \in Nat
  BY <1>5, <1>10, <1>11, <1>13, <1>14, <1>16
<1>18. Rest(pops, n, Filled(pops, n, full)) = r - m
  BY <1>1, <1>17
<1> QED  BY <1>6, <1>9, <1>16, <1>17, <1>18 DEF p, q, r

LEMMA FillKeeps ==
  ASSUME BudgetAssumption, NEW pops, Populated(pops), NEW n \in Nat,
         NEW full, FilledSoundly(pops, n, full)
  PROVE  FilledSoundly(pops, n, Filled(pops, n, full))
<1>1. CASE Filled(pops, n, full) = full
  BY <1>1
<1>2. CASE Filled(pops, n, full) # full
  <2> DEFINE now == Filled(pops, n, full)
             r == Rest(pops, n, full)
             p == Pull(pops, full)
             s == Rest(pops, n, now)
             q == Pull(pops, now)
  <2>1. full \in SUBSET DOMAIN pops /\ r \in Nat
    BY DEF FilledSoundly
  <2>2. now \in SUBSET DOMAIN pops /\ s \in Nat /\ p > 0 /\ s * p >= r * q
    BY <1>2, <2>1, FillTakes
  <2>3. p \in Nat /\ q \in Nat
    BY <2>1, <2>2, Pulls
  <2>4. ASSUME NEW a \in now, NEW b \in DOMAIN pops \ now
        PROVE  pops[a] < pops[b] /\ s * Weight[pops[b]] >= pops[a] * q
    <3> DEFINE i == pops[a]
               j == pops[b]
    <3>1. a \in DOMAIN pops /\ b \in DOMAIN pops
      BY <2>2
    <3>2. /\ i \in Nat \ {0} /\ j \in Nat \ {0}
          /\ Weight[i] \in Nat \ {0} /\ Weight[j] \in Nat \ {0}
      BY <2>1, <3>1, Pulls
    <3>3. i \in 1..RowCount /\ j \in 1..RowCount
      BY <3>1 DEF Populated
    <3>4. CASE a \in full
      <4>1. b \notin full
        BY DEF Filled
      <4>2. i < j /\ r * Weight[j] >= i * p
        BY <3>4, <4>1, <3>1 DEF FilledSoundly
      <4> HIDE DEF i, j, r, p, s, q
      <4>3. s * Weight[j] >= i * q
        BY <2>1, <2>2, <2>3, <3>2, <4>2, StillBuys
      <4> QED  BY <4>2, <4>3 DEF i, j
    <3>5. CASE a \notin full
      <4>1. r > 0 /\ r * Weight[i] >= i * p
        BY <3>5 DEF Filled
      <4>2. b \notin full /\ ~(r * Weight[j] >= j * p)
        BY <3>1, <4>1 DEF Filled
      <4> HIDE DEF i, j, r, p, s, q, now
      <4>3. i < j
        <5>1. SUFFICES ASSUME j <= i  PROVE FALSE
          BY <3>2
        <5>2. Weight[j] * i >= Weight[i] * j
          BY <3>3, <5>1 DEF BudgetAssumption
        <5>3. r * Weight[j] >= j * p
          BY <2>1, <2>3, <3>2, <4>1, <5>2, SmallerFills
        <5> QED  BY <4>2, <5>3
      <4>4. Weight[i] <= Weight[j]
        <5>1. i <= j
          BY <3>2, <4>3
        <5> QED  BY <3>3, <5>1 DEF BudgetAssumption
      <4>5. r * Weight[i] <= r * Weight[j]
        BY <2>1, <3>2, <4>4, ProductMonotone
      <4>6. r * Weight[j] >= i * p
        <5>1. r * Weight[i] \in Nat /\ r * Weight[j] \in Nat /\ i * p \in Nat
          BY <2>1, <2>3, <3>2, ProductNat
        <5> QED  BY <4>1, <4>5, <5>1
      <4>7. s * Weight[j] >= i * q
        BY <2>1, <2>2, <2>3, <3>2, <4>6, StillBuys
      <4> QED  BY <4>3, <4>7 DEF i, j
    <3> QED  BY <3>4, <3>5
  <2> QED  BY <2>2, <2>4 DEF FilledSoundly
<1> QED  BY <1>1, <1>2

\* After as many rounds as there are cells no other cell fills up.
LEMMA FullSettles ==
  ASSUME BudgetAssumption, NEW pops, Populated(pops), NEW n \in Nat
  PROVE  /\ FilledSoundly(pops, n, Full(pops, n))
         /\ Filled(pops, n, Full(pops, n)) = Full(pops, n)
<1> DEFINE C == DOMAIN pops
           m == Cardinality(C)
           g == [s \in SUBSET C |-> Filled(pops, n, s)]
           Round(h) == [k \in 0..m |-> IF k = 0 THEN {} ELSE Filled(pops, n, h[k - 1])]
           after == CHOOSE h : h = Round(h)
<1>1. Full(pops, n) = after[m]
  BY DEF Full
<1>2. IsFiniteSet(C) /\ m \in Nat
  BY FS_CardinalityType DEF Populated
<1>3. g \in [SUBSET C -> SUBSET C]
  BY DEF Filled
<1>4. \E h : h = Round(h)
  <2>1. {} \in SUBSET C
    OBVIOUS
  <2>2. PICK f : Results(f, m, SUBSET C, {}, g)
    <3> HIDE DEF g, m
    <3> QED  BY <1>2, <1>3, <2>1, Iterates
  <2>3. ASSUME NEW k \in 0..m  PROVE f[k] = Round(f)[k]
    <3>1. CASE k = 0
      BY <2>2, <3>1 DEF Results
    <3>2. CASE k # 0
      <4>1. k \in 1..m /\ k - 1 \in 0..m
        <5> HIDE DEF m
        <5> QED  BY <1>2, <3>2
      <4>2. f[k] = g[f[k - 1]] /\ f[k - 1] \in SUBSET C
        BY <2>2, <4>1 DEF Results
      <4> QED  BY <3>2, <4>2
    <3> QED  BY <3>1, <3>2
  <2>4. f = Round(f)
    <3>1. f \in [0..m -> SUBSET C]
      BY <2>2 DEF Results
    <3> HIDE DEF m
    <3> QED  BY <2>3, <3>1
  <2> QED  BY <2>4
<1>5. after = Round(after)
  BY <1>4
<1> HIDE DEF after, g
<1>6. after[0] = {} /\ \A k \in 1..m : after[k] = Filled(pops, n, after[k - 1])
  <2>1. 0 \in 0..m /\ \A k \in 1..m : k \in 0..m /\ k # 0
    <3> HIDE DEF m
    <3> QED  BY <1>2
  <2> HIDE DEF m
  <2> QED  BY <1>5, <2>1
<1> HIDE DEF Round, m
<1> DEFINE Good(k) == /\ FilledSoundly(pops, n, after[k])
                      /\ \/ Filled(pops, n, after[k]) = after[k]
                         \/ k <= Cardinality(after[k])
           Bad == {k \in 0..m : ~Good(k)}
<1>7. Good(0)
  <2>1. SumFunctionOnSet(pops, {}) = 0
    <3>1. \A c \in C : pops[c] \in Nat
      <4>1. {} \in SUBSET C
        OBVIOUS
      <4> QED  BY <4>1, Pulls
    <3> QED  BY <1>2, <3>1, Summing DEF Summable
  <2>2. Rest(pops, n, {}) \in Nat
    BY <2>1 DEF Rest
  <2>3. FilledSoundly(pops, n, {})
    BY <2>2 DEF FilledSoundly
  <2>4. 0 <= Cardinality({})
    BY FS_EmptySet
  <2> QED  BY <1>6, <2>3, <2>4
<1>8. ASSUME NEW k \in 1..m, Good(k - 1)  PROVE Good(k)
  <2> DEFINE a == after[k - 1]
             b == after[k]
  <2>1. b = Filled(pops, n, a)
    BY <1>6
  <2>2. FilledSoundly(pops, n, a)
    BY <1>8
  <2> HIDE DEF a, b
  <2>3. FilledSoundly(pops, n, b)
    BY <2>1, <2>2, FillKeeps
  <2>4. CASE Filled(pops, n, a) = a
    <3>1. b = a
      BY <2>1, <2>4
    <3>2. Filled(pops, n, b) = b
      BY <2>4, <3>1
    <3> QED  BY <2>3, <3>2 DEF b
  <2>5. CASE Filled(pops, n, a) # a
    <3>1. k - 1 <= Cardinality(a)
      BY <1>8, <2>5 DEF a
    <3>2. a \subseteq b /\ a # b /\ b \subseteq C
      BY <2>1, <2>3, <2>5 DEF Filled, FilledSoundly
    <3>3. IsFiniteSet(b) /\ Cardinality(b) \in Nat
      BY <1>2, <3>2, FS_Subset, FS_CardinalityType
    <3>4. /\ Cardinality(a) <= Cardinality(b) /\ Cardinality(a) \in Nat
          /\ Cardinality(b) = Cardinality(a) => b = a
      BY <3>2, <3>3, FS_Subset, FS_CardinalityType
    <3>5. k <= Cardinality(b)
      BY <3>1, <3>2, <3>3, <3>4
    <3> QED  BY <2>3, <3>5 DEF b
  <2> QED  BY <2>4, <2>5
<1> HIDE DEF Good
<1>9. Bad = {}
  <2>1. SUFFICES ASSUME Bad # {}  PROVE FALSE
    OBVIOUS
  <2>2. Bad \in SUBSET Nat
    OBVIOUS
  <2>3. PICK k \in Bad : \A j \in Bad : k <= j
    BY <2>1, <2>2, Smallest
  <2>4. k \in 0..m /\ ~Good(k)
    BY <2>3
  <2>5. k # 0
    BY <1>7, <2>4
  <2>6. k \in 1..m /\ k - 1 \in 0..m /\ ~(k <= k - 1)
    BY <1>2, <2>4, <2>5
  <2>7. k - 1 \notin Bad
    BY <2>3, <2>6
  <2>8. Good(k - 1)
    BY <2>6, <2>7
  <2> QED  BY <1>8, <2>4, <2>6, <2>8
<1>10. Good(m)
  <2>1. m \in 0..m
    BY <1>2
  <2> QED  BY <1>9, <2>1
<1>11. ASSUME m <= Cardinality(after[m])  PROVE Filled(pops, n, after[m]) = after[m]
  <2> DEFINE b == after[m]
  <2>1. b \subseteq C
    BY <1>10 DEF Good, FilledSoundly
  <2> HIDE DEF b
  <2>2. Cardinality(b) <= Cardinality(C) /\ Cardinality(b) \in Nat
        /\ (Cardinality(C) = Cardinality(b) => C = b)
    BY <1>2, <2>1, FS_Subset, FS_CardinalityType
  <2>3. b = C
    BY <1>2, <1>11, <2>2 DEF m, b
  <2>4. Filled(pops, n, C) = C
    BY DEF Filled
  <2> QED  BY <2>3, <2>4 DEF b
<1> QED  BY <1>1, <1>10, <1>11 DEF Good

\* What p gives of what is left is each cell's share, rounded down or up.
Portioned(p, D, share, pull, rest) ==
  /\ p \in [D -> Nat] /\ SumFunctionOnSet(p, D) = rest
  /\ \A c \in D : p[c] = share[c] \div pull \/ p[c] = share[c] \div pull + 1

\* Shares of what is left are rounded so that all of it is given.
LEMMA PortionsShare ==
  ASSUME NEW D, IsFiniteSet(D), D \subseteq Int, D # {},
         NEW share \in [D -> Nat], NEW pull \in Nat \ {0}, NEW rest \in Nat,
         SumFunctionOnSet(share, D) = rest * pull
  PROVE  Portioned(Portions(share, pull, rest), D, share, pull, rest)
<1> DEFINE whole == [c \in D |-> share[c] \div pull]
           over  == [c \in D |-> share[c] % pull]
           left  == rest - SumFunctionOnSet(whole, D)
           R     == {e \in D \X D : \/ over[e[1]] > over[e[2]]
                                    \/ over[e[1]] = over[e[2]] /\ e[1] < e[2]}
           T     == {c \in D : Cardinality(Below(R, D, c)) < left}
           extra == [c \in D |-> IF c \in T THEN 1 ELSE 0]
           p     == [c \in D |-> whole[c] + extra[c]]
<1>1. \A c \in D : /\ whole[c] \in Nat /\ over[c] \in Nat /\ over[c] <= pull - 1
                   /\ share[c] = whole[c] * pull + over[c]
  <2>1. \A s \in Nat : /\ s \div pull \in Nat /\ s % pull \in Nat /\ s % pull <= pull - 1
                       /\ s = (s \div pull) * pull + (s % pull)
    OBVIOUS
  <2> QED  BY <2>1
<1>2. \A c, d \in D : <<d, c>> \in R <=> over[d] > over[c] \/ (over[d] = over[c] /\ d < c)
  OBVIOUS
<1>3. \A c \in D : Below(R, D, c)
                     = {d \in D : over[d] > over[c] \/ (over[d] = over[c] /\ d < c)}
  <2> HIDE DEF R
  <2> QED  BY <1>2 DEF Below
<1>4. Portions(share, pull, rest) = p
  <2>1. DOMAIN share = D
    OBVIOUS
  <2>2. Portions(share, pull, rest)
          = [c \in D |-> whole[c] +
               IF Cardinality({d \in D : over[d] > over[c] \/ (over[d] = over[c] /\ d < c)}) < left
               THEN 1 ELSE 0]
    BY <2>1 DEF Portions
  <2> HIDE DEF over, whole, left, R
  <2>3. \A c \in D : extra[c] =
               IF Cardinality({d \in D : over[d] > over[c] \/ (over[d] = over[c] /\ d < c)}) < left
               THEN 1 ELSE 0
    BY <1>3
  <2> HIDE DEF extra
  <2> QED  BY <2>2, <2>3
<1>5. Ordering(R, D)
  <2>1. \A x \in D : over[x] \in Nat /\ x \in Int
    BY <1>1
  <2> HIDE DEF R, over, whole, left
  <2>2. \A x \in D : <<x, x>> \notin R
    BY <1>2, <2>1
  <2>3. \A x, y, z \in D : <<x, y>> \in R /\ <<y, z>> \in R => <<x, z>> \in R
    BY <1>2, <2>1
  <2>4. \A x, y \in D : x # y => <<x, y>> \in R \/ <<y, x>> \in R
    BY <1>2, <2>1
  <2> QED  BY <2>2, <2>3, <2>4 DEF Ordering
<1> DEFINE m == Cardinality(D)
           W == SumFunctionOnSet(whole, D)
           O == SumFunctionOnSet(over, D)
<1>6. m \in Nat \ {0}
  BY FS_CardinalityType, FS_EmptySet
<1>7. W \in Nat /\ O \in Nat
  <2>1. Summable(whole, whole, D) /\ Summable(over, over, D) /\ D \in SUBSET D
    BY <1>1 DEF Summable
  <2> HIDE DEF whole, over
  <2> QED  BY <2>1, Summing
<1>8. rest * pull = W * pull + O
  <2> DEFINE f == [c \in D |-> whole[c] * pull]
  <2>1. \A c \in D : f[c] = whole[c] * pull /\ f[c] \in Nat /\ share[c] = f[c] + over[c]
    <3>1. \A w \in Nat : w * pull \in Nat
      OBVIOUS
    <3>2. \A c \in D : f[c] = whole[c] * pull
      OBVIOUS
    <3> HIDE DEF f, whole, over
    <3> QED  BY <1>1, <3>1, <3>2
  <2> HIDE DEF f, whole, over
  <2>2. \A c \in D : whole[c] \in Nat /\ f[c] = whole[c] * pull
    BY <1>1, <2>1
  <2>3. SumFunctionOnSet(f, D) = W * pull
    <3> DEFINE k == pull
    <3>1. k \in Nat /\ \A c \in D : whole[c] \in Nat /\ f[c] = whole[c] * k
      BY <2>2
    <3> HIDE DEF k, W
    <3>2. SumFunctionOnSet(f, D) = SumFunctionOnSet(whole, D) * k
      BY <3>1, SumScaled, ZenonT(30)
    <3> QED  BY <3>2 DEF W, k
  <2>4. \A c \in D : f[c] \in Nat /\ over[c] \in Nat /\ share[c] = f[c] + over[c]
    BY <1>1, <2>1
  <2>5. SumFunctionOnSet(share, D) = SumFunctionOnSet(f, D) + SumFunctionOnSet(over, D)
    BY <2>4, SumPlus
  <2> QED  BY <2>3, <2>5
<1>9. O <= (pull - 1) * m
  <2> DEFINE one == [c \in D |-> 1]
             f   == [c \in D |-> pull - 1]
  <2>1. pull - 1 \in Nat
    OBVIOUS
  <2>2. \A c \in D : one[c] = 1 /\ f[c] = pull - 1
    OBVIOUS
  <2>3. \A c \in D : f[c] = one[c] * (pull - 1) /\ one[c] \in Nat
    <3> HIDE DEF f, one
    <3> QED  BY <2>1, <2>2
  <2> HIDE DEF f, one, whole, over
  <2>4. SumFunctionOnSet(one, D) = m
    BY <2>2, SumOfOnes
  <2> DEFINE k == pull - 1
  <2>5. k \in Nat /\ \A c \in D : one[c] \in Nat /\ f[c] = one[c] * k
    BY <2>1, <2>3
  <2> HIDE DEF k, m
  <2>6. SumFunctionOnSet(f, D) = m * k
    BY <2>4, <2>5, SumScaled
  <2>7. \A c \in D : over[c] \in Nat /\ f[c] \in Nat /\ over[c] <= f[c]
    BY <1>1, <2>1, <2>2
  <2>8. SumFunctionOnSet(over, D) <= SumFunctionOnSet(f, D)
    BY <2>7, SumMonotone
  <2>9. O <= m * k /\ m * k = k * m
    BY <1>6, <2>5, <2>6, <2>8
  <2>10. O <= k * m
    BY <2>9
  <2> QED  BY <2>10 DEF k
<1>10. left \in Nat /\ left <= m
  <2> DEFINE l == rest - W
  <2>1. l \in Int
    BY <1>7
  <2>2. l * pull = O
    <3>1. l * pull = rest * pull - W * pull
      BY <1>7
    <3>2. rest * pull \in Nat /\ W * pull \in Nat
      BY <1>7
    <3> HIDE DEF W, O, l
    <3> QED  BY <1>7, <1>8, <3>1, <3>2
  <2> HIDE DEF l, W, O, m
  <2>3. l >= 0
    <3>1. SUFFICES ASSUME l < 0  PROVE FALSE
      BY <2>1
    <3>2. PICK k \in Nat : k = -l
      BY <2>1, <3>1
    <3>3. k >= 1 /\ l = -k
      BY <2>1, <3>1, <3>2
    <3>4. l * pull = -(k * pull)
      BY <3>3
    <3>5. 1 * pull <= k * pull
      BY <3>3, ProductMonotone
    <3> QED  BY <1>7, <2>2, <3>4, <3>5
  <2>4. l <= m
    <3>1. SUFFICES ASSUME m < l  PROVE FALSE
      BY <1>6, <2>1
    <3>2. m * pull <= l * pull
      BY <1>6, <2>1, <2>3, <3>1, ProductMonotone
    <3>3. (pull - 1) * m = m * pull - m
      BY <1>6
    <3>4. m * pull \in Nat /\ l * pull \in Nat
      BY <1>6, <2>1, <2>3
    <3> QED  BY <1>6, <1>7, <1>9, <2>2, <3>2, <3>3, <3>4
  <2>5. left = l
    BY DEF l, W
  <2> HIDE DEF left
  <2> QED  BY <2>1, <2>3, <2>4, <2>5
<1> HIDE DEF R, left, m
<1>11. T \in SUBSET D /\ Cardinality(T) = left
  <2>1. T \in SUBSET D
    OBVIOUS
  <2>2. Cardinality({c \in D : Cardinality(Below(R, D, c)) < left}) = left
    BY <1>5, <1>10, RankCount DEF m
  <2> QED  BY <2>1, <2>2
<1>12. \A c \in D : extra[c] = IF c \in T THEN 1 ELSE 0
  OBVIOUS
<1>13. \A c \in D : p[c] = whole[c] + extra[c]
  OBVIOUS
<1>14. SumFunctionOnSet(extra, D) = left
  <2> HIDE DEF T, extra
  <2> QED  BY <1>11, <1>12, SumOfMarks
<1>15. \A c \in D : extra[c] \in Nat /\ p[c] \in Nat /\ whole[c] \in Nat
  <2> HIDE DEF p, extra, whole, T
  <2>1. \A c \in D : extra[c] \in {0, 1} /\ whole[c] \in Nat
    BY <1>1, <1>12
  <2> QED  BY <1>13, <2>1
<1>16. SumFunctionOnSet(p, D) = rest
  <2>1. left = rest - W
    BY DEF left
  <2> HIDE DEF p, extra, whole, T
  <2>3. \A c \in D : whole[c] \in Nat /\ extra[c] \in Nat /\ p[c] = whole[c] + extra[c]
    BY <1>13, <1>15
  <2>2. SumFunctionOnSet(p, D) = W + SumFunctionOnSet(extra, D)
    BY <2>3, SumPlus
  <2> HIDE DEF W, O
  <2> QED  BY <1>7, <1>14, <2>1, <2>2
<1>17. p \in [D -> Nat]
  BY <1>15
<1>18. \A c \in D : whole[c] = share[c] \div pull
  OBVIOUS
<1>19. \A c \in D : p[c] = share[c] \div pull \/ p[c] = share[c] \div pull + 1
  <2> HIDE DEF p, extra, whole, T
  <2>1. \A c \in D : extra[c] \in {0, 1} /\ whole[c] \in Nat
    BY <1>1, <1>12
  <2>2. \A c \in D : p[c] = whole[c] \/ p[c] = whole[c] + 1
    BY <1>13, <2>1
  <2> QED  BY <1>18, <2>2
<1> HIDE DEF p
<1> QED  BY <1>4, <1>16, <1>17, <1>19 DEF Portioned

\* What water_fill promises of more candidates than there are units for.
SharedOut(share, pops, n) ==
  /\ share \in [DOMAIN pops -> Nat]
  /\ SumFunctionOnSet(share, DOMAIN pops) = n
  /\ \A c \in DOMAIN pops : share[c] <= pops[c]
  /\ \A a, b \in DOMAIN pops : pops[a] <= pops[b] => share[a] <= share[b] + 1

\* Arithmetic: quotients of no less are no less.
LEMMA QuotientMonotone ==
  ASSUME NEW a \in Nat, NEW b \in Nat, NEW p \in Nat \ {0}, a <= b
  PROVE  a \div p <= b \div p
<1> DEFINE x == a \div p
           y == b \div p
<1>1. x \in Nat /\ x * p <= a
  BY QuotientBounds
<1>2. y \in Nat /\ b < (y + 1) * p
  BY QuotientBounds
<1> HIDE DEF x, y
<1>3. SUFFICES ASSUME y < x  PROVE FALSE
  BY <1>1, <1>2 DEF x, y
<1>4. (y + 1) * p <= x * p
  BY <1>1, <1>2, <1>3, ProductMonotone
<1>5. (y + 1) * p \in Nat /\ x * p \in Nat
  BY <1>1, <1>2
<1> QED  BY <1>1, <1>2, <1>4, <1>5

\* And what is worth so much a piece is as many at least.
LEMMA QuotientReaches ==
  ASSUME NEW a \in Nat, NEW k \in Nat, NEW p \in Nat \ {0}, k * p <= a
  PROVE  k <= a \div p
<1> DEFINE y == a \div p
<1>1. y \in Nat /\ a < (y + 1) * p
  BY QuotientBounds
<1> HIDE DEF y
<1>2. SUFFICES ASSUME y < k  PROVE FALSE
  BY <1>1 DEF y
<1>3. (y + 1) * p <= k * p
  BY <1>1, <1>2, ProductMonotone
<1>4. (y + 1) * p \in Nat /\ k * p \in Nat
  BY <1>1
<1> QED  BY <1>1, <1>3, <1>4

LEMMA WaterFills ==
  ASSUME BudgetAssumption, NEW pops, Populated(pops), NEW n \in Nat,
         n < SumFunctionOnSet(pops, DOMAIN pops)
  PROVE  SharedOut(WaterFill(pops, n), pops, n)
<1> DEFINE C     == DOMAIN pops
           full  == Full(pops, n)
           D     == C \ full
           rest  == Rest(pops, n, full)
           pull  == Pull(pops, full)
           share == [c \in D |-> rest * Weight[pops[c]]]
           part  == Portions(share, pull, rest)
           out   == [c \in C |-> IF c \in full THEN pops[c] ELSE part[c]]
<1>1. WaterFill(pops, n) = out
  <2>1. full \in SUBSET C
    BY FullSettles DEF FilledSoundly
  <2>2. SumFunctionOnSet(pops, C) \in Nat
    <3>1. C \in SUBSET C
      OBVIOUS
    <3> QED  BY <3>1, Pulls
  <2>3. ~(n >= SumFunctionOnSet(pops, C))
    BY <2>2
  <2> QED  BY <2>3 DEF WaterFill
<1>2. FilledSoundly(pops, n, full) /\ Filled(pops, n, full) = full
  BY FullSettles
<1> HIDE DEF full
<1>3. full \in SUBSET C /\ rest \in Nat
  BY <1>2 DEF FilledSoundly
<1>4. /\ SumFunctionOnSet(pops, full) \in Nat /\ pull \in Nat
      /\ \A c \in D : Weight[pops[c]] <= pull
      /\ \A c \in C : pops[c] \in Nat \ {0} /\ Weight[pops[c]] \in Nat \ {0}
  BY <1>3, Pulls
<1>5. IsFiniteSet(C) /\ IsFiniteSet(D) /\ D \subseteq Int /\ C \subseteq Int
  <2>1. IsFiniteSet(C) /\ C \subseteq Int
    BY DEF Populated
  <2> QED  BY <2>1, FS_Subset
<1>6. Summable(pops, pops, C)
  BY <1>4 DEF Summable
<1>7. D # {}
  <2>1. SUFFICES ASSUME D = {}  PROVE FALSE
    OBVIOUS
  <2>2. full = C
    BY <1>3, <2>1
  <2>3. SumFunctionOnSet(pops, C) <= n
    <3>1. rest = n - SumFunctionOnSet(pops, full)
      BY DEF Rest
    <3> HIDE DEF rest
    <3>2. SumFunctionOnSet(pops, full) <= n
      BY <1>3, <1>4, <3>1
    <3> QED  BY <2>2, <3>2
  <2> QED  BY <1>4, <2>2, <2>3
<1>8. pull > 0
  <2>1. PICK c \in D : TRUE
    BY <1>7
  <2>2. Weight[pops[c]] <= pull /\ Weight[pops[c]] \in Nat \ {0}
    BY <1>4
  <2> HIDE DEF pull
  <2> QED  BY <1>4, <2>2
<1> HIDE DEF rest, pull
<1>9. /\ share \in [D -> Nat]
      /\ \A c \in D : share[c] = rest * Weight[pops[c]]
  <2>1. \A c \in D : rest * Weight[pops[c]] \in Nat
    BY <1>3, <1>4, ProductNat
  <2> QED  BY <2>1
<1>10. SumFunctionOnSet(share, D) = rest * pull
  <2> DEFINE w == [c \in C |-> Weight[pops[c]]]
  <2>1. pull = SumFunctionOnSet(w, D)
    BY DEF Pull, pull
  <2>2. \A c \in D : w[c] \in Nat /\ share[c] = w[c] * rest
    <3>1. \A c \in D : w[c] = Weight[pops[c]] /\ w[c] \in Nat
      BY <1>4
    <3>2. \A x \in Nat : rest * x = x * rest
      BY <1>3
    <3> HIDE DEF w, share
    <3> QED  BY <1>9, <3>1, <3>2
  <2> HIDE DEF w, share, D
  <2>3. SumFunctionOnSet(share, D) = SumFunctionOnSet(w, D) * rest
    BY <1>3, <1>5, <2>2, SumScaled, ZenonT(30)
  <2>4. pull * rest = rest * pull
    BY <1>3, <1>4
  <2> QED  BY <2>1, <2>3, <2>4
<1> HIDE DEF share
<1>11. /\ part \in [D -> Nat] /\ SumFunctionOnSet(part, D) = rest
       /\ \A c \in D : part[c] = share[c] \div pull \/ part[c] = share[c] \div pull + 1
  <2>1. pull \in Nat \ {0}
    BY <1>4, <1>8
  <2>2. IsFiniteSet(D) /\ D \subseteq Int /\ D # {} /\ share \in [D -> Nat] /\ rest \in Nat
    BY <1>3, <1>5, <1>7, <1>9
  <2> HIDE DEF D
  <2>3. Portioned(Portions(share, pull, rest), D, share, pull, rest)
    BY <1>10, <2>1, <2>2, PortionsShare
  <2> QED  BY <2>3 DEF Portioned
<1> HIDE DEF part
<1>12. out \in [C -> Nat]
  BY <1>4, <1>11
<1>13. /\ \A c \in full : out[c] = pops[c]
       /\ \A c \in D : out[c] = part[c]
  BY <1>3
<1> HIDE DEF out
<1>14. SumFunctionOnSet(out, C) = n
  <2>1. Summable(out, out, C)
    BY <1>12 DEF Summable
  <2>2. C = full \cup D /\ full \cap D = {} /\ full \in SUBSET C /\ D \in SUBSET C
    BY <1>3
  <2>3. SumFunctionOnSet(out, full \cup D) = SumFunctionOnSet(out, full) + SumFunctionOnSet(out, D)
    <3> HIDE DEF D
    <3> QED  BY <1>5, <2>1, <2>2, Summing
  <2>4. SumFunctionOnSet(out, full) = SumFunctionOnSet(pops, full)
    <3>1. IsFiniteSet(full)
      BY <1>3, <1>5, FS_Subset
    <3>2. \A c \in full : pops[c] = out[c] /\ pops[c] \in Nat
      BY <1>3, <1>4, <1>13
    <3> QED  BY <3>1, <3>2, SameSum
  <2>5. SumFunctionOnSet(out, D) = SumFunctionOnSet(part, D)
    <3>1. \A c \in D : part[c] = out[c] /\ part[c] \in Nat
      BY <1>11, <1>13
    <3> HIDE DEF D
    <3> QED  BY <1>5, <3>1, SameSum
  <2>6. rest = n - SumFunctionOnSet(pops, full)
    BY DEF Rest, rest
  <2>7. SumFunctionOnSet(out, C) = SumFunctionOnSet(pops, full) + rest
    BY <1>11, <2>2, <2>3, <2>4, <2>5
  <2> QED  BY <1>3, <1>4, <2>6, <2>7
<1>15. \A c \in D : /\ share[c] \in Nat /\ share[c] \div pull \in Nat
                    /\ out[c] <= share[c] \div pull + 1 /\ share[c] \div pull <= out[c]
  <2>1. \A c \in D : share[c] \in Nat
    BY <1>9
  <2>2. \A c \in D : share[c] \div pull \in Nat
    BY <1>4, <1>8, <2>1, QuotientBounds
  <2>3. \A c \in D : out[c] = share[c] \div pull \/ out[c] = share[c] \div pull + 1
    BY <1>11, <1>13
  <2>4. ASSUME NEW c \in D
        PROVE  out[c] <= share[c] \div pull + 1 /\ share[c] \div pull <= out[c]
    <3>1. PICK v \in Nat : v = share[c] \div pull
      BY <2>2
    <3>2. out[c] = v \/ out[c] = v + 1
      BY <2>3, <3>1
    <3>3. out[c] <= v + 1 /\ v <= out[c]
      BY <3>2
    <3> QED  BY <3>1, <3>3
  <2> QED  BY <2>1, <2>2, <2>4
<1>16. ASSUME NEW c \in C  PROVE out[c] <= pops[c]
  <2>1. CASE c \in full
    BY <1>4, <1>13, <2>1
  <2>2. CASE c \notin full
    <3>1. c \in D
      BY <2>2
    <3>2. PICK v \in Nat : v = share[c] \div pull
      BY <1>15, <3>1
    <3>3. out[c] <= v + 1 /\ out[c] \in Nat /\ pops[c] \in Nat \ {0}
      BY <1>4, <1>12, <1>15, <3>1, <3>2
    <3>4. v < pops[c] \/ v = 0
      <4>1. ~(rest > 0 /\ rest * Weight[pops[c]] >= pops[c] * pull)
        BY <1>2, <2>2 DEF Filled, rest, pull
      <4>2. v * pull <= share[c]
        BY <1>4, <1>8, <1>15, <3>1, <3>2, QuotientBounds
      <4>3. CASE rest = 0
        <5>1. share[c] = 0 * Weight[pops[c]]
          BY <1>9, <3>1, <4>3
        <5>2. share[c] = 0
          BY <1>4, <5>1
        <5>3. v = 0
          <6>1. SUFFICES ASSUME v # 0  PROVE FALSE
            OBVIOUS
          <6>2. 1 * pull <= v * pull
            BY <1>4, <6>1, ProductMonotone
          <6> QED  BY <1>4, <1>8, <4>2, <5>2, <6>2
        <5> QED  BY <5>3
      <4>4. CASE rest # 0
        <5>1. share[c] < pops[c] * pull
          <6>1. share[c] = rest * Weight[pops[c]] /\ share[c] \in Nat
            BY <1>9, <1>15, <3>1
          <6>2. PICK z \in Nat : z = pops[c] * pull
            BY <1>4, ProductNat
          <6>3. rest > 0
            BY <1>3, <4>4
          <6>4. ~(share[c] >= z)
            BY <4>1, <6>1, <6>2, <6>3
          <6> QED  BY <6>1, <6>2, <6>4
        <5>2. v < pops[c]
          <6>1. SUFFICES ASSUME pops[c] <= v  PROVE FALSE
            BY <3>3
          <6>2. pops[c] * pull <= v * pull
            BY <1>4, <3>3, <6>1, ProductMonotone
          <6>3. pops[c] * pull \in Nat /\ v * pull \in Nat /\ share[c] \in Nat
            BY <1>4, <1>15, <3>1, <3>3, ProductNat
          <6> QED  BY <4>2, <5>1, <6>2, <6>3
        <5> QED  BY <5>2
      <4> QED  BY <4>3, <4>4
    <3> QED  BY <3>3, <3>4
  <2> QED  BY <2>1, <2>2
<1>17. ASSUME NEW a \in C, NEW b \in C, pops[a] <= pops[b]
       PROVE  out[a] <= out[b] + 1
  <2>0. out[a] \in Nat /\ out[b] \in Nat /\ pops[a] \in Nat /\ pops[b] \in Nat
    BY <1>4, <1>12
  <2>1. CASE b \in full
    <3>1. out[b] = pops[b] /\ out[a] <= pops[a]
      BY <1>13, <1>16, <2>1
    <3> QED  BY <1>17, <2>0, <3>1
  <2>2. CASE b \notin full /\ a \in full
    <3>1. b \in D
      BY <2>2
    <3>2. rest * Weight[pops[b]] >= pops[a] * pull
      BY <1>2, <2>2 DEF FilledSoundly, rest, pull
    <3>3. share[b] = rest * Weight[pops[b]] /\ share[b] \in Nat
      BY <1>9, <1>15, <3>1
    <3>4. pops[a] * pull <= share[b]
      <4>1. pops[a] * pull \in Nat
        BY <1>4, <2>0, ProductNat
      <4> QED  BY <3>2, <3>3, <4>1
    <3>5. pops[a] <= share[b] \div pull
      BY <1>4, <1>8, <2>0, <3>3, <3>4, QuotientReaches
    <3>6. out[a] = pops[a] /\ share[b] \div pull <= out[b] /\ share[b] \div pull \in Nat
      BY <1>13, <1>15, <2>2, <3>1
    <3> QED  BY <2>0, <3>5, <3>6
  <2>3. CASE b \notin full /\ a \notin full
    <3>1. a \in D /\ b \in D
      BY <2>3
    <3>2. Weight[pops[a]] <= Weight[pops[b]]
      BY <1>17 DEF BudgetAssumption, Populated
    <3>3. share[a] <= share[b]
      BY <1>3, <1>4, <1>9, <3>1, <3>2, ProductMonotone
    <3>4. share[a] \in Nat /\ share[b] \in Nat
      BY <1>15, <3>1
    <3>5. share[a] \div pull <= share[b] \div pull
      BY <1>4, <1>8, <3>3, <3>4, QuotientMonotone
    <3>6. PICK u \in Nat : u = share[a] \div pull
      BY <1>15, <3>1
    <3>7. PICK v \in Nat : v = share[b] \div pull
      BY <1>15, <3>1
    <3>8. out[a] <= u + 1 /\ v <= out[b] /\ u <= v
      BY <1>15, <3>1, <3>5, <3>6, <3>7
    <3> QED  BY <2>0, <3>8
  <2> QED  BY <2>1, <2>2, <2>3
<1> QED  BY <1>1, <1>12, <1>14, <1>16, <1>17 DEF SharedOut

-----------------------------------------------------------------------------
(* What a level admits *)

LEMMA PositionsFinite ==
  /\ IsFiniteSet(Positions) /\ Cardinality(Positions) = RowCount /\ RowCount \in Nat
<1>1. RowCount \in Nat
  BY TableAssumption
<1>2. IsFiniteSet(1..RowCount) /\ Cardinality(1..RowCount) = IF 1 > RowCount THEN 0 ELSE RowCount - 1 + 1
  BY <1>1, FS_Interval
<1>3. Cardinality(1..RowCount) = RowCount
  BY <1>1, <1>2
<1> QED  BY <1>1, <1>2, <1>3 DEF Positions

LEMMA SomePositions ==
  ASSUME NEW S \in SUBSET Positions
  PROVE  IsFiniteSet(S) /\ Cardinality(S) \in Nat /\ Cardinality(S) <= RowCount
BY PositionsFinite, FS_Subset, FS_CardinalityType

\* The best of a set are as many as are asked for, and none is passed over.
LEMMA BestSize ==
  ASSUME AssignTypeOK, NEW S \in SUBSET Positions, NEW n \in Nat
  PROVE  /\ BestOf(S, n) \subseteq S
         /\ n <= Cardinality(S) => Cardinality(BestOf(S, n)) = n
         /\ \A p \in BestOf(S, n), q \in S : Better(q, p) => q \in BestOf(S, n)
<1> DEFINE R == {e \in Positions \X Positions : Better(e[1], e[2])}
<1>1. \A p, q \in Positions : <<q, p>> \in R <=> Better(q, p)
  OBVIOUS
<1>2. \A p \in Positions : ~Better(p, p)
  BY BetterOrder
<1> HIDE DEF R
<1>3. Ordering(R, S)
  <2>1. \A x \in S : <<x, x>> \notin R
    BY <1>1, <1>2
  <2>2. \A x, y, z \in S : <<x, y>> \in R /\ <<y, z>> \in R => <<x, z>> \in R
    BY <1>1, BetterTransitive
  <2>3. \A x, y \in S : x # y => <<x, y>> \in R \/ <<y, x>> \in R
    BY <1>1, BetterOrder
  <2> QED  BY <2>1, <2>2, <2>3 DEF Ordering
<1>4. \A p \in S : {q \in S : q # p /\ Better(q, p)} = Below(R, S, p)
  BY <1>1, <1>2 DEF Below
<1>5. BestOf(S, n) = {p \in S : Cardinality(Below(R, S, p)) < n}
  BY <1>4 DEF BestOf
<1>6. IsFiniteSet(S)
  BY SomePositions
<1>7. n <= Cardinality(S) => Cardinality(BestOf(S, n)) = n
  BY <1>3, <1>5, <1>6, RankCount
<1>8. ASSUME NEW p \in BestOf(S, n), NEW q \in S, Better(q, p)
      PROVE  q \in BestOf(S, n)
  <2>1. p \in S /\ Cardinality(Below(R, S, p)) < n
    BY <1>5
  <2>2. <<q, p>> \in R
    BY <1>1, <1>8, <2>1
  <2>3. /\ Cardinality(Below(R, S, q)) < Cardinality(Below(R, S, p))
        /\ Cardinality(Below(R, S, q)) \in Nat /\ Cardinality(Below(R, S, p)) \in Nat
    BY <1>3, <1>6, <2>1, <2>2, RankLess
  <2>4. Cardinality(Below(R, S, q)) < n
    BY <2>1, <2>3
  <2> QED  BY <1>5, <2>4
<1>9. BestOf(S, n) \subseteq S
  BY DEF BestOf
<1> QED  BY <1>7, <1>8, <1>9

\* Those of a set that are in one neighbourhood.
Here(S, l, c) == {p \in S : SuperCell(l, p) = c}

\* In a neighbourhood none is passed over for a worse one, and none is given
\* more than a more populous one, but for the one that rounding gives.
Fairly(chosen, cands, l) ==
  /\ chosen \subseteq cands
  /\ \A p \in chosen, q \in cands :
       SuperCell(l, q) = SuperCell(l, p) /\ Better(q, p) => q \in chosen
  /\ \A c, d \in Int :
       Cardinality(Here(cands, l, c)) <= Cardinality(Here(cands, l, d)) =>
         Cardinality(Here(chosen, l, c)) <= Cardinality(Here(chosen, l, d)) + 1

LEMMA SuperCells ==
  ASSUME AssignTypeOK, BudgetAssumption, NEW l \in 0..Finest, NEW p \in Positions
  PROVE  SuperCell(l, p) \in Int
<1>1. row[p] \in Features
  BY DEF AssignTypeOK
<1>2. row[p].at \in Int /\ Gsd[l] \in Nat /\ SuperFactor \in Nat \ {0}
  BY <1>1, TableAssumption DEF BudgetAssumption
<1>3. CASE Gsd[l] = 0
  BY <1>3 DEF SuperCell
<1>4. CASE Gsd[l] # 0
  <2>1. Gsd[l] * SuperFactor \in Nat \ {0}
    BY <1>2, <1>4, ProductPositive
  <2>2. \A x \in Int, y \in Nat \ {0} : x \div y \in Int
    OBVIOUS
  <2> QED  BY <1>2, <1>4, <2>1, <2>2 DEF SuperCell
<1> QED  BY <1>3, <1>4

LEMMA SurvivorsFair ==
  ASSUME AssignTypeOK, BudgetAssumption, NEW cands \in SUBSET Positions,
         NEW n \in Nat, n < Cardinality(cands), NEW l \in 0..Finest
  PROVE  /\ Fairly(Survivors(cands, n, l), cands, l)
         /\ Cardinality(Survivors(cands, n, l)) = n
<1> DEFINE C     == {SuperCell(l, p) : p \in cands}
           of    == [c \in C |-> Here(cands, l, c)]
           pops  == [c \in C |-> Cardinality(Here(cands, l, c))]
           share == WaterFill(pops, n)
           best  == [c \in C |-> BestOf(Here(cands, l, c), share[c])]
           out   == Survivors(cands, n, l)
<1>1. out = UNION {best[c] : c \in C}
  <2>1. out = UNION {BestOf(Here(cands, l, c), share[c]) : c \in DOMAIN pops}
    BY DEF Survivors, Here
  <2>2. DOMAIN pops = C /\ \A c \in C : best[c] = BestOf(Here(cands, l, c), share[c])
    OBVIOUS
  <2> HIDE DEF pops, best, C
  <2> QED  BY <2>1, <2>2
<1>2. \A S \in SUBSET Positions : \A c : Here(S, l, c) \in SUBSET Positions
  BY DEF Here
<1>3. C \subseteq Int /\ IsFiniteSet(C)
  <2>1. C \subseteq Int
    BY SuperCells
  <2> DEFINE f == [p \in cands |-> SuperCell(l, p)]
  <2>2. f \in Surjection(cands, C)
    BY DEF Surjection
  <2>3. IsFiniteSet(C)
    <3>1. IsFiniteSet(cands)
      BY SomePositions
    <3> HIDE DEF f, C
    <3> QED  BY <2>2, <3>1, FS_Surjection
  <2> QED  BY <2>1, <2>3
<1>4. \A c \in C : pops[c] = Cardinality(Here(cands, l, c))
  OBVIOUS
<1>5. DOMAIN pops = C /\ DOMAIN share = DOMAIN share
  OBVIOUS
<1>6. \A c \in C : Here(cands, l, c) # {}
  BY DEF Here
<1>7. \A c \in C : \A d \in C : c # d => Here(cands, l, c) \cap Here(cands, l, d) = {}
  BY DEF Here
<1>9. \A c \in C : of[c] = Here(cands, l, c)
  OBVIOUS
<1>8. UNION {of[c] : c \in C} = cands
  <2>1. \A p \in cands : SuperCell(l, p) \in C /\ p \in Here(cands, l, SuperCell(l, p))
    BY DEF Here
  <2>2. \A c \in C : Here(cands, l, c) \subseteq cands
    BY DEF Here
  <2> HIDE DEF of, C
  <2>3. \A p \in cands : \E c \in C : p \in of[c]
    BY <1>9, <2>1
  <2>4. \A c \in C : of[c] \subseteq cands
    BY <1>9, <2>2
  <2> QED  BY <2>3, <2>4
<1>10. \A c \in C : best[c] = BestOf(Here(cands, l, c), share[c])
  OBVIOUS
<1>11. \A p \in cands : SuperCell(l, p) \in C
  OBVIOUS
<1> HIDE DEF pops, C, of, best, share, out
<1>12. Populated(pops)
  <2>1. ASSUME NEW c \in C  PROVE pops[c] \in 1..RowCount
    <3>1. /\ IsFiniteSet(Here(cands, l, c)) /\ pops[c] \in Nat /\ pops[c] <= RowCount
      BY <1>2, <1>4, SomePositions
    <3>2. pops[c] # 0
      BY <1>4, <1>6, <3>1, FS_EmptySet
    <3>3. RowCount \in Nat
      BY PositionsFinite
    <3> QED  BY <3>1, <3>2, <3>3
  <2> QED  BY <1>3, <1>5, <2>1 DEF Populated
<1>13. SumFunctionOnSet(pops, C) = Cardinality(cands)
  <2>1. \A c \in C : IsFiniteSet(of[c]) /\ pops[c] = Cardinality(of[c])
    BY <1>2, <1>4, <1>9, SomePositions
  <2>2. \A c, d \in C : c # d => of[c] \cap of[d] = {}
    BY <1>7, <1>9
  <2>3. Cardinality(UNION {of[c] : c \in C}) = SumFunctionOnSet(pops, C)
    BY <1>3, <2>1, <2>2, SumOfSizes
  <2> QED  BY <1>8, <2>3
<1>14. SharedOut(share, pops, n)
  <2>1. n < SumFunctionOnSet(pops, DOMAIN pops)
    BY <1>5, <1>13
  <2> QED  BY <1>12, <2>1, WaterFills DEF share
<1>15. /\ \A c \in C : share[c] \in Nat /\ share[c] <= pops[c]
       /\ SumFunctionOnSet(share, C) = n
       /\ \A c, d \in C : pops[c] <= pops[d] => share[c] <= share[d] + 1
  BY <1>5, <1>14 DEF SharedOut
<1>16. ASSUME NEW c \in C
       PROVE  /\ best[c] \subseteq Here(cands, l, c)
              /\ IsFiniteSet(best[c]) /\ Cardinality(best[c]) = share[c]
              /\ \A p \in best[c], q \in Here(cands, l, c) : Better(q, p) => q \in best[c]
  <2>1. Here(cands, l, c) \in SUBSET Positions
    BY <1>2
  <2>2. share[c] \in Nat /\ share[c] <= Cardinality(Here(cands, l, c))
    BY <1>4, <1>15
  <2>3. /\ best[c] \subseteq Here(cands, l, c)
        /\ Cardinality(best[c]) = share[c]
        /\ \A p \in best[c], q \in Here(cands, l, c) : Better(q, p) => q \in best[c]
    BY <1>10, <2>1, <2>2, BestSize
  <2>4. IsFiniteSet(best[c])
    <3>1. best[c] \in SUBSET Positions
      BY <2>1, <2>3
    <3> QED  BY <3>1, SomePositions
  <2> QED  BY <2>3, <2>4
<1>17. ASSUME NEW c \in C  PROVE Here(out, l, c) = best[c]
  <2>1. best[c] \subseteq Here(out, l, c)
    BY <1>1, <1>16 DEF Here
  <2>2. ASSUME NEW p \in Here(out, l, c)  PROVE p \in best[c]
    <3>1. PICK d \in C : p \in best[d]
      BY <1>1 DEF Here
    <3>2. SuperCell(l, p) = d /\ SuperCell(l, p) = c
      BY <1>16, <3>1 DEF Here
    <3> QED  BY <3>1, <3>2
  <2> QED  BY <2>1, <2>2
<1>18. out \subseteq cands
  BY <1>1, <1>16 DEF Here
<1>19. Cardinality(out) = n
  <2>1. \A c \in C : IsFiniteSet(best[c]) /\ share[c] = Cardinality(best[c])
    BY <1>16
  <2>2. \A c, d \in C : c # d => best[c] \cap best[d] = {}
    BY <1>7, <1>16
  <2>3. Cardinality(UNION {best[c] : c \in C}) = SumFunctionOnSet(share, C)
    BY <1>3, <2>1, <2>2, SumOfSizes
  <2> QED  BY <1>1, <1>15, <2>3
<1>20. ASSUME NEW p \in out, NEW q \in cands,
              SuperCell(l, q) = SuperCell(l, p), Better(q, p)
       PROVE  q \in out
  <2>1. PICK c \in C : p \in best[c]
    BY <1>1
  <2>2. SuperCell(l, p) = c
    BY <1>16, <2>1 DEF Here
  <2>3. q \in Here(cands, l, c)
    BY <1>20, <2>2 DEF Here
  <2>4. q \in best[c]
    BY <1>16, <1>20, <2>1, <2>3
  <2> QED  BY <1>1, <2>4
<1>21. ASSUME NEW c \in Int, NEW d \in Int,
              Cardinality(Here(cands, l, c)) <= Cardinality(Here(cands, l, d))
       PROVE  Cardinality(Here(out, l, c)) <= Cardinality(Here(out, l, d)) + 1
  <2>1. /\ Here(cands, l, c) \in SUBSET Positions /\ Here(cands, l, d) \in SUBSET Positions
        /\ Here(out, l, c) \in SUBSET Positions /\ Here(out, l, d) \in SUBSET Positions
    BY <1>2, <1>18
  <2>2. /\ Cardinality(Here(cands, l, c)) \in Nat /\ Cardinality(Here(cands, l, d)) \in Nat
        /\ Cardinality(Here(out, l, c)) \in Nat /\ Cardinality(Here(out, l, d)) \in Nat
        /\ IsFiniteSet(Here(cands, l, c)) /\ IsFiniteSet(Here(cands, l, d))
    BY <2>1, SomePositions
  <2>3. CASE Here(out, l, c) = {}
    BY <2>2, <2>3, FS_EmptySet
  <2>4. CASE Here(out, l, c) # {}
    <3>1. c \in C
      BY <1>11, <1>18, <2>4 DEF Here
    <3>2. Here(cands, l, c) # {}
      BY <1>18, <2>4 DEF Here
    <3>3. Here(cands, l, d) # {}
      BY <1>21, <2>2, <3>2, FS_EmptySet
    <3>4. d \in C
      BY <1>11, <3>3 DEF Here
    <3>5. share[c] <= share[d] + 1
      BY <1>4, <1>15, <1>21, <3>1, <3>4
    <3>6. Cardinality(Here(out, l, c)) = share[c] /\ Cardinality(Here(out, l, d)) = share[d]
      BY <1>16, <1>17, <3>1, <3>4
    <3> QED  BY <3>5, <3>6
  <2> QED  BY <2>3, <2>4
<1> QED  BY <1>18, <1>19, <1>20, <1>21 DEF Fairly, out

-----------------------------------------------------------------------------
(* The budget of a level *)

\* The coarser of two levels is the rarer.
LEMMA RaritiesFall ==
  ASSUME BudgetAssumption
  PROVE  /\ \A l \in 0..Finest : Rarity[l] \in Nat \ {0}
         /\ \A l \in Coarse : Rarity[l + 1] <= Rarity[l]
<1> DEFINE S == Nat \ {0}
           g == [x \in S |-> DropRate * x]
           Round(h) == [k \in 0..Finest |-> IF k = 0 THEN 1 ELSE DropRate * h[k - 1]]
           power == CHOOSE h : h = Round(h)
<1>1. Rarity = [l \in 0..Finest |-> power[Finest - l]]
  BY DEF Rarity
<1>2. Finest \in Nat /\ DropRate \in S
  BY TableAssumption DEF BudgetAssumption
<1>3. g \in [S -> S]
  BY <1>2, ProductPositive
<1>4. \E h : h = Round(h)
  <2>1. PICK f : Results(f, Finest, S, 1, g)
    <3>1. 1 \in S
      OBVIOUS
    <3> HIDE DEF g, S
    <3> QED  BY <1>2, <1>3, <3>1, Iterates
  <2>2. ASSUME NEW k \in 0..Finest  PROVE f[k] = Round(f)[k]
    <3>1. CASE k = 0
      BY <2>1, <3>1 DEF Results
    <3>2. CASE k # 0
      <4>1. k \in 1..Finest /\ k - 1 \in 0..Finest
        BY <1>2, <3>2
      <4>2. f[k] = g[f[k - 1]] /\ f[k - 1] \in S
        BY <2>1, <4>1 DEF Results
      <4> QED  BY <3>2, <4>2
    <3> QED  BY <3>1, <3>2
  <2>3. f = Round(f)
    <3>1. f \in [0..Finest -> S]
      BY <2>1 DEF Results
    <3> QED  BY <2>2, <3>1
  <2> QED  BY <2>3
<1>5. power = Round(power)
  BY <1>4
<1> HIDE DEF power
<1>6. power[0] = 1 /\ \A k \in 1..Finest : power[k] = DropRate * power[k - 1]
  <2>1. 0 \in 0..Finest /\ \A k \in 1..Finest : k \in 0..Finest /\ k # 0
    BY <1>2
  <2> QED  BY <1>5, <2>1
<1> HIDE DEF Round
<1> DEFINE Bad == {k \in 0..Finest : power[k] \notin S}
<1>7. Bad = {}
  <2>1. SUFFICES ASSUME Bad # {}  PROVE FALSE
    OBVIOUS
  <2>2. PICK k \in Bad : \A j \in Bad : k <= j
    <3>1. Bad \in SUBSET Nat
      BY <1>2
    <3> HIDE DEF Bad
    <3> QED  BY <2>1, <3>1, Smallest
  <2>3. k \in 0..Finest /\ k # 0
    BY <1>6, <2>2
  <2>4. k \in 1..Finest /\ k - 1 \in 0..Finest /\ ~(k <= k - 1)
    BY <1>2, <2>3
  <2>5. power[k - 1] \in S
    BY <2>2, <2>4
  <2>6. power[k] \in S
    BY <1>2, <1>6, <2>4, <2>5, ProductPositive
  <2> QED  BY <2>2, <2>6
<1>8. \A k \in 0..Finest : power[k] \in S
  BY <1>7
<1>9. ASSUME NEW l \in 0..Finest  PROVE Rarity[l] = power[Finest - l] /\ Finest - l \in 0..Finest
  BY <1>1, <1>2
<1>10. ASSUME NEW l \in Coarse  PROVE Rarity[l + 1] <= Rarity[l]
  <2>1. l \in 0..Finest /\ l + 1 \in 0..Finest /\ Finest - l \in 1..Finest
        /\ Finest - (l + 1) = Finest - l - 1 /\ Finest - (l + 1) \in 0..Finest
    BY <1>2 DEF Coarse
  <2>2. PICK x \in S : x = power[Finest - l - 1]
    BY <1>8, <2>1
  <2>3. power[Finest - l] = DropRate * x
    BY <1>6, <2>1, <2>2
  <2>4. x * 1 <= x * DropRate
    BY <1>2, ProductMonotone
  <2>5. x <= DropRate * x
    BY <1>2, <2>4
  <2> QED  BY <1>9, <2>1, <2>2, <2>3, <2>5
<1> QED  BY <1>8, <1>9, <1>10

\* Arithmetic: of what is rounded half up, the share of a rarer level is no
\* more.
LEMMA RoundedHalfUp ==
  ASSUME NEW a \in Nat, NEW p \in Nat \ {0}, NEW q \in Nat \ {0}, q <= p
  PROVE  (2 * a + p) \div (2 * p) <= (2 * a + q) \div (2 * q)
<1> DEFINE y == (2 * a + p) \div (2 * p)
<1>1. 2 * p \in Nat \ {0} /\ 2 * q \in Nat \ {0} /\ 2 * a + p \in Nat /\ 2 * a + q \in Nat
  OBVIOUS
<1>2. y \in Nat /\ y * (2 * p) <= 2 * a + p
  BY <1>1, QuotientBounds
<1> HIDE DEF y
<1>3. y * (2 * q) <= 2 * a + q
  <2>1. CASE y = 0
    BY <2>1
  <2>2. CASE y # 0
    <3>1. PICK k \in Nat : k = 2 * y - 1
      BY <1>2, <2>2
    <3>2. y * (2 * p) = k * p + p /\ y * (2 * q) = k * q + q
      <4>1. 2 * y = k + 1
        BY <1>2, <3>1
      <4>2. y * (2 * p) = (2 * y) * p /\ y * (2 * q) = (2 * y) * q
        BY <1>2
      <4>3. (k + 1) * p = k * p + p /\ (k + 1) * q = k * q + q
        OBVIOUS
      <4> QED  BY <4>1, <4>2, <4>3
    <3>3. k * q <= k * p
      BY ProductMonotone
    <3>4. k * q \in Nat /\ k * p \in Nat
      OBVIOUS
    <3> QED  BY <1>2, <3>2, <3>3, <3>4
  <2> QED  BY <2>1, <2>2
<1> QED  BY <1>1, <1>2, <1>3, QuotientReaches DEF y

LEMMA BudgetsGrow ==
  ASSUME AssignTypeOK, BudgetAssumption
  PROVE  /\ \A l \in Coarse : BudgetOf(l) \in Nat \ {0}
         /\ \A l \in Coarse : l + 1 \in Coarse => BudgetOf(l) <= BudgetOf(l + 1)
<1> DEFINE a == Cardinality(Budgeted)
           R(l) == (2 * a + Rarity[l]) \div (2 * Rarity[l])
<1>1. a \in Nat
  <2>1. Budgeted \in SUBSET Positions
    BY DEF Budgeted
  <2> QED  BY <2>1, SomePositions
<1>2. Finest \in Nat /\ MinDensity \in Nat \ {0}
  BY TableAssumption DEF BudgetAssumption
<1>3. \A l \in Coarse : l \in 0..Finest /\ l # Finest
  BY <1>2 DEF Coarse
<1>4. \A l \in Coarse : BudgetOf(l) = IF R(l) < MinDensity THEN MinDensity ELSE R(l)
  BY <1>3 DEF BudgetOf
<1> HIDE DEF a
<1>5. ASSUME NEW l \in Coarse  PROVE R(l) \in Nat
  <2>1. PICK p \in Nat \ {0} : p = Rarity[l]
    BY <1>3, RaritiesFall
  <2>2. 2 * p \in Nat \ {0} /\ 2 * a + p \in Nat
    BY <1>1
  <2> QED  BY <2>1, <2>2, QuotientNat
<1>6. ASSUME NEW l \in Coarse, l + 1 \in Coarse  PROVE R(l) <= R(l + 1)
  <2>1. PICK p \in Nat \ {0} : p = Rarity[l]
    BY <1>3, RaritiesFall
  <2>2. PICK q \in Nat \ {0} : q = Rarity[l + 1]
    BY <1>3, <1>6, RaritiesFall
  <2>3. q <= p
    BY <2>1, <2>2, RaritiesFall
  <2> QED  BY <1>1, <2>1, <2>2, <2>3, RoundedHalfUp
<1> HIDE DEF R
<1>7. ASSUME NEW l \in Coarse  PROVE BudgetOf(l) \in Nat \ {0}
  BY <1>2, <1>4, <1>5
<1>8. ASSUME NEW l \in Coarse, l + 1 \in Coarse  PROVE BudgetOf(l) <= BudgetOf(l + 1)
  <2>1. R(l) \in Nat /\ R(l + 1) \in Nat /\ R(l) <= R(l + 1)
    BY <1>5, <1>6, <1>8
  <2>2. BudgetOf(l) = (IF R(l) < MinDensity THEN MinDensity ELSE R(l))
        /\ BudgetOf(l + 1) = (IF R(l + 1) < MinDensity THEN MinDensity ELSE R(l + 1))
    BY <1>4, <1>8
  <2> QED  BY <1>2, <2>1, <2>2
<1> QED  BY <1>7, <1>8

-----------------------------------------------------------------------------
(* The budgets are kept *)

\* Who is in by a level, who came in there, and who would have.
InBy(l)    == {p \in Budgeted : admittedAt[p] <= l}
Entered(l) == {p \in Budgeted : admittedAt[p] = l}
Sought(l)  == {p \in Budgeted : minLevel[p] <= l /\ admittedAt[p] >= l}

\* What a level that has admitted leaves behind: its budget is kept, and used
\* up if anyone who would have come in did not, and all are dealt with fairly.
Settled(l) ==
  /\ Fairly(Entered(l), Sought(l), l)
  /\ Cardinality(InBy(l)) <= BudgetOf(l)
  /\ Entered(l) # Sought(l) => Cardinality(InBy(l)) = BudgetOf(l)

\* The fold starts when all have their levels; until a feature is admitted it
\* counts as of the finest level; and each coarse level passed is settled.
BudgetInv ==
  /\ BudgetTypeOK
  /\ Assigned \/ turn = 0
  /\ \A p \in Positions :
       /\ minLevel[p] <= admittedAt[p]
       /\ IF p \in admitted THEN admittedAt[p] < turn ELSE admittedAt[p] = Finest
  /\ turn > Finest => admitted = Budgeted
  /\ \A l \in Coarse : l < turn => Settled(l)

LEMMA FairlyFixed ==
  ASSUME UNCHANGED <<row, config>>, NEW S, NEW T, NEW k
  PROVE  Fairly(S, T, k)' = Fairly(S, T, k)
BY DEF Fairly, Here, SuperCell, Better, Beats, Priority

LEMMA BudgetsFixed ==
  ASSUME UNCHANGED <<row, config>>, NEW l
  PROVE  Budgeted' = Budgeted /\ BudgetOf(l)' = BudgetOf(l)
<1>1. Budgeted' = Budgeted
  BY DEF Budgeted
<1> QED  BY <1>1 DEF BudgetOf

LEMMA SettledKept ==
  ASSUME UNCHANGED <<row, config>>, NEW l, Settled(l),
         InBy(l)' = InBy(l), Entered(l)' = Entered(l), Sought(l)' = Sought(l)
  PROVE  Settled(l)'
<1>1. PICK s : s = Entered(l)
  OBVIOUS
<1>2. PICK t : t = Sought(l)
  OBVIOUS
<1>3. Fairly(s, t, l)'
  <2>1. Fairly(s, t, l)
    BY <1>1, <1>2 DEF Settled
  <2> QED  BY <2>1, FairlyFixed
<1>4. s = Entered(l)' /\ t = Sought(l)'
  BY <1>1, <1>2
<1>5. BudgetOf(l)' = BudgetOf(l)
  BY BudgetsFixed
<1>6. (Fairly(Entered(l), Sought(l), l))'
  BY <1>3, <1>4 DEF Fairly, Here
<1> QED  BY <1>5, <1>6 DEF Settled

\* Whichever way a level chooses.
LEMMA ChosenFair ==
  ASSUME AssignTypeOK, BudgetAssumption, NEW l \in Coarse,
         NEW cands \in SUBSET Positions, admitted \in SUBSET Positions,
         admitted \cap cands = {}, Cardinality(admitted) <= BudgetOf(l)
  PROVE  /\ Fairly(Chosen(l, cands), cands, l)
         /\ Cardinality(admitted \cup Chosen(l, cands)) <= BudgetOf(l)
         /\ Chosen(l, cands) # cands =>
              Cardinality(admitted \cup Chosen(l, cands)) = BudgetOf(l)
<1> DEFINE kept == Cardinality(admitted)
           many == Cardinality(cands)
           out  == Chosen(l, cands)
<1>1. /\ kept \in Nat /\ many \in Nat
      /\ IsFiniteSet(admitted) /\ IsFiniteSet(cands)
  BY SomePositions
<1>2. BudgetOf(l) \in Nat \ {0}
  BY BudgetsGrow
<1>3. l # Finest /\ l \in 0..Finest
  BY TableAssumption DEF Coarse
<1>4. ASSUME NEW s \in SUBSET cands  PROVE Cardinality(admitted \cup s) = kept + Cardinality(s)
  <2>1. IsFiniteSet(s) /\ admitted \cap s = {}
    BY <1>1, FS_Subset
  <2>2. Cardinality(admitted \cup s)
          = Cardinality(admitted) + Cardinality(s) - Cardinality(admitted \cap s)
    BY <1>1, <2>1, FS_Union
  <2>3. Cardinality(s) \in Nat /\ Cardinality(admitted \cap s) = 0
    BY <2>1, FS_CardinalityType, FS_EmptySet
  <2> QED  BY <1>1, <2>2, <2>3
<1>5. \A c : Here(cands, l, c) \in SUBSET Positions
  BY DEF Here
<1>6. CASE kept + many <= BudgetOf(l)
  <2>1. out = cands
    BY <1>6 DEF Chosen
  <2>2. \A c, d : Cardinality(Here(cands, l, c)) <= Cardinality(Here(cands, l, d)) =>
          Cardinality(Here(cands, l, c)) <= Cardinality(Here(cands, l, d)) + 1
    <3>1. \A c : Cardinality(Here(cands, l, c)) \in Nat
      BY <1>5, SomePositions
    <3> QED  BY <3>1
  <2>3. Fairly(cands, cands, l)
    BY <2>2 DEF Fairly
  <2> HIDE DEF out
  <2> QED  BY <1>4, <1>6, <2>1, <2>3 DEF out
<1>7. CASE ~(kept + many <= BudgetOf(l)) /\ BudgetOf(l) <= kept
  <2>1. out = {}
    BY <1>3, <1>7 DEF Chosen
  <2>2. \A c : Here({}, l, c) = {} /\ Cardinality(Here({}, l, c)) = 0
    BY FS_EmptySet DEF Here
  <2>3. Fairly({}, cands, l)
    BY <2>2 DEF Fairly
  <2>4. kept = BudgetOf(l) /\ admitted \cup {} = admitted
    BY <1>1, <1>2, <1>7
  <2> HIDE DEF out
  <2>5. Cardinality(admitted \cup out) = BudgetOf(l)
    BY <2>1, <2>4
  <2> QED  BY <1>2, <2>1, <2>3, <2>5 DEF out
<1>8. CASE ~(kept + many <= BudgetOf(l)) /\ ~(BudgetOf(l) <= kept)
  <2> DEFINE n == BudgetOf(l) - kept
  <2>1. out = Survivors(cands, n, l)
    BY <1>3, <1>8 DEF Chosen
  <2>2. n \in Nat /\ n < many
    BY <1>1, <1>2, <1>8
  <2>3. Fairly(Survivors(cands, n, l), cands, l) /\ Cardinality(Survivors(cands, n, l)) = n
    <3> HIDE DEF n
    <3> QED  BY <1>3, <2>2, SurvivorsFair
  <2>4. out \in SUBSET cands
    BY <2>1, <2>3 DEF Fairly
  <2>5. Cardinality(admitted \cup out) = kept + n
    <3> HIDE DEF n, out, kept
    <3> QED  BY <1>4, <2>1, <2>3, <2>4
  <2>6. kept + n = BudgetOf(l)
    BY <1>1, <1>2
  <2> HIDE DEF n, out
  <2> QED  BY <1>2, <2>1, <2>3, <2>5, <2>6 DEF out
<1> QED  BY <1>6, <1>7, <1>8

LEMMA BudgetInvInit ==
  BudgetAssumption /\ AssignTypeOK /\ BudgetInit => BudgetInv
<1> SUFFICES ASSUME AssignTypeOK, BudgetInit  PROVE BudgetInv
  OBVIOUS
<1>1. Finest \in Nat /\ 0 \in 0..(Finest + 1) /\ Finest \in 0..Finest
  BY TableAssumption
<1>2. BudgetTypeOK
  BY <1>1 DEF BudgetInit, BudgetTypeOK
<1>3. \A p \in Positions : minLevel[p] <= Finest
  BY <1>1 DEF AssignTypeOK
<1>4. \A l \in Coarse : ~(l < 0)
  BY DEF Coarse
<1> QED  BY <1>1, <1>2, <1>3, <1>4 DEF BudgetInit, BudgetInv

LEMMA BudgetInvAdmit ==
  ASSUME BudgetAssumption, AssignTypeOK, BudgetInv, AdmitLevel, Assigned,
         UNCHANGED <<Input, assignVars>>
  PROVE  BudgetInv'
<1> DEFINE cands  == {p \in Budgeted \ admitted : minLevel[p] <= turn}
           chosen == Chosen(turn, cands)
<1>1. /\ turn <= Finest /\ turn' = turn + 1
      /\ admitted' = admitted \cup chosen
      /\ admittedAt' = [p \in Positions |-> IF p \in chosen THEN turn ELSE admittedAt[p]]
  BY DEF AdmitLevel
<1>2. row' = row /\ config' = config /\ minLevel' = minLevel /\ Assigned' = Assigned
  BY DEF Input, assignVars, Assigned
<1>3. Budgeted' = Budgeted /\ Budgeted \subseteq Positions
  BY <1>2, BudgetsFixed DEF Budgeted
<1>4. /\ turn \in 0..Finest /\ turn' \in 0..(Finest + 1) /\ Finest \in Nat
      /\ admitted \subseteq Budgeted /\ admittedAt \in [Positions -> 0..Finest]
  <2>1. Finest \in Nat
    BY TableAssumption
  <2> QED  BY <1>1, <2>1 DEF BudgetInv, BudgetTypeOK
<1>5. \A p \in Positions : /\ minLevel[p] <= admittedAt[p] /\ minLevel[p] \in 0..Finest
                           /\ p \in admitted => admittedAt[p] < turn
                           /\ p \notin admitted => admittedAt[p] = Finest
  BY DEF BudgetInv, AssignTypeOK
<1>6. \A l \in Coarse : l < turn => Settled(l)
  BY DEF BudgetInv
<1>7. cands \subseteq Budgeted /\ cands \cap admitted = {} /\ cands \in SUBSET Positions
  BY <1>3
<1>8. turn = Finest \/ turn \in Coarse
  BY <1>4 DEF Coarse
<1>9. turn = Finest => chosen = cands
  BY DEF Chosen
<1>10. turn \in Coarse =>
         /\ Fairly(chosen, cands, turn)
         /\ Cardinality(admitted \cup chosen) <= BudgetOf(turn)
         /\ chosen # cands => Cardinality(admitted \cup chosen) = BudgetOf(turn)
  <2> SUFFICES ASSUME turn \in Coarse
               PROVE  /\ Fairly(chosen, cands, turn)
                      /\ Cardinality(admitted \cup chosen) <= BudgetOf(turn)
                      /\ chosen # cands =>
                           Cardinality(admitted \cup chosen) = BudgetOf(turn)
    OBVIOUS
  <2>1. Cardinality(admitted) <= BudgetOf(turn)
    <3>1. CASE turn = 0
      <4>1. admitted = {}
        <5>1. \A p \in Positions : ~(admittedAt[p] < 0)
          BY <1>4
        <5> QED  BY <1>3, <1>4, <1>5, <3>1, <5>1
      <4>2. Cardinality(admitted) = 0 /\ BudgetOf(turn) \in Nat
        BY <4>1, FS_EmptySet, BudgetsGrow
      <4> QED  BY <4>2
    <3>2. CASE turn # 0
      <4> DEFINE l == turn - 1
      <4>1. l \in Coarse /\ l + 1 = turn /\ l < turn
        BY <1>4, <3>2 DEF Coarse
      <4>2. Settled(l)
        BY <1>6, <4>1
      <4>3. InBy(l) = admitted
        <5>1. ASSUME NEW p \in Budgeted  PROVE admittedAt[p] <= l <=> p \in admitted
          <6>1. admittedAt[p] \in 0..Finest /\ p \in Positions
            BY <1>3, <1>4
          <6> QED  BY <1>4, <1>5, <6>1
        <5> HIDE DEF l
        <5> QED  BY <1>4, <5>1 DEF InBy
      <4> HIDE DEF l
      <4>4. Cardinality(admitted) <= BudgetOf(l)
        BY <4>2, <4>3 DEF Settled
      <4>5. BudgetOf(l) <= BudgetOf(turn) /\ BudgetOf(l) \in Nat /\ BudgetOf(turn) \in Nat
        BY <4>1, BudgetsGrow
      <4>6. Cardinality(admitted) \in Nat
        <5>1. admitted \in SUBSET Positions
          BY <1>3, <1>4
        <5> QED  BY <5>1, SomePositions
      <4> QED  BY <4>4, <4>5, <4>6
    <3> QED  BY <3>1, <3>2
  <2>2. admitted \in SUBSET Positions /\ admitted \cap cands = {}
    BY <1>3, <1>4
  <2> HIDE DEF cands
  <2> QED  BY <1>7, <2>1, <2>2, ChosenFair
<1>11. chosen \subseteq cands
  BY <1>8, <1>9, <1>10 DEF Fairly
<1> HIDE DEF chosen
<1>12. ASSUME NEW p \in Positions
       PROVE  /\ admittedAt'[p] = IF p \in chosen THEN turn ELSE admittedAt[p]
              /\ admittedAt'[p] \in 0..Finest
              /\ minLevel'[p] <= admittedAt'[p]
              /\ IF p \in admitted' THEN admittedAt'[p] < turn' ELSE admittedAt'[p] = Finest
  <2>1. admittedAt'[p] = IF p \in chosen THEN turn ELSE admittedAt[p]
    BY <1>1
  <2>2. CASE p \in chosen
    <3>1. minLevel[p] <= turn
      BY <1>11, <2>2
    <3> QED  BY <1>1, <1>2, <1>4, <2>1, <2>2, <3>1
  <2>3. CASE p \notin chosen
    <3>1. admittedAt'[p] = admittedAt[p] /\ admittedAt[p] \in 0..Finest
      BY <1>4, <2>1, <2>3
    <3>2. p \in admitted' <=> p \in admitted
      BY <1>1, <2>3
    <3> QED  BY <1>1, <1>2, <1>4, <1>5, <3>1, <3>2
  <2> QED  BY <2>1, <2>2, <2>3
<1>13. BudgetTypeOK'
  <2>1. admitted' \subseteq Budgeted'
    BY <1>1, <1>3, <1>4, <1>7, <1>11
  <2>2. admittedAt' \in [Positions -> 0..Finest]
    BY <1>1, <1>12
  <2> QED  BY <1>4, <2>1, <2>2 DEF BudgetTypeOK
<1>14. turn' > Finest => admitted' = Budgeted'
  <2> SUFFICES ASSUME turn' > Finest  PROVE admitted' = Budgeted'
    OBVIOUS
  <2>1. turn = Finest
    BY <1>1, <1>4
  <2>2. cands = Budgeted \ admitted
    <3>1. \A p \in Budgeted : minLevel[p] <= turn
      BY <1>3, <1>5, <2>1
    <3> QED  BY <3>1
  <2> QED  BY <1>1, <1>3, <1>4, <1>9, <2>1, <2>2
<1>15. ASSUME NEW l \in Coarse, l < turn'  PROVE Settled(l)'
  <2>0. l \in Nat /\ l < Finest
    BY <1>4 DEF Coarse
  <2>1. CASE l = turn
    <3>1. InBy(l)' = admitted \cup chosen
      <4>1. ASSUME NEW p \in Budgeted
            PROVE  admittedAt'[p] <= l <=> p \in admitted \cup chosen
        <5>1. p \in Positions /\ admittedAt[p] \in 0..Finest
          BY <1>3, <1>4
        <5>2. p \in chosen => admittedAt'[p] <= l
          BY <1>12, <2>1, <5>1, <2>0
        <5>3. p \notin chosen => (admittedAt'[p] <= l <=> p \in admitted)
          BY <1>4, <1>5, <1>12, <2>0, <2>1, <5>1
        <5> QED  BY <5>2, <5>3
      <4>2. admitted \cup chosen \subseteq Budgeted
        BY <1>4, <1>7, <1>11
      <4> QED  BY <1>3, <4>1, <4>2 DEF InBy
    <3>2. Entered(l)' = chosen
      <4>1. ASSUME NEW p \in Budgeted  PROVE admittedAt'[p] = l <=> p \in chosen
        <5>1. p \in Positions /\ admittedAt[p] \in 0..Finest
          BY <1>3, <1>4
        <5>2. p \notin chosen => admittedAt'[p] # l
          BY <1>4, <1>5, <1>12, <2>0, <2>1, <5>1
        <5> QED  BY <1>12, <2>1, <5>1, <5>2
      <4> QED  BY <1>3, <1>7, <1>11, <4>1 DEF Entered
    <3>3. Sought(l)' = cands
      <4>1. ASSUME NEW p \in Budgeted
            PROVE  minLevel'[p] <= l /\ admittedAt'[p] >= l <=> p \in cands
        <5>1. p \in Positions /\ admittedAt[p] \in 0..Finest
          BY <1>3, <1>4
        <5>2. p \in admitted => ~(admittedAt'[p] >= l)
          <6>1. p \in admitted => p \notin chosen
            BY <1>7, <1>11
          <6> QED  BY <1>5, <1>12, <2>0, <2>1, <5>1, <6>1
        <5>3. p \notin admitted => admittedAt'[p] >= l
          BY <1>5, <1>12, <2>0, <2>1, <5>1
        <5> QED  BY <1>2, <2>1, <5>2, <5>3
      <4> QED  BY <1>3, <1>7, <4>1 DEF Sought
    <3>4. PICK s : s = chosen
      OBVIOUS
    <3>5. PICK t : t = cands
      OBVIOUS
    <3>6. Fairly(s, t, l)'
      <4>1. Fairly(s, t, l)
        BY <1>10, <2>1, <3>4, <3>5
      <4> QED  BY <1>2, <4>1, FairlyFixed
    <3>7. (Fairly(Entered(l), Sought(l), l))'
      <4>1. s = Entered(l)' /\ t = Sought(l)'
        BY <3>2, <3>3, <3>4, <3>5
      <4> QED  BY <3>6, <4>1 DEF Fairly, Here
    <3>8. BudgetOf(l)' = BudgetOf(l)
      BY <1>2, BudgetsFixed
    <3> HIDE DEF cands
    <3> QED  BY <1>10, <2>1, <3>1, <3>2, <3>3, <3>7, <3>8 DEF Settled
  <2>2. CASE l # turn
    <3>1. l < turn
      BY <1>1, <1>4, <1>15, <2>0, <2>2
    <3>2. ASSUME NEW p \in Budgeted
          PROVE  \/ admittedAt'[p] = admittedAt[p]
                 \/ admittedAt'[p] > l /\ admittedAt[p] > l /\ l \in Int
                    /\ admittedAt'[p] \in Int /\ admittedAt[p] \in Int
      <4>1. p \in Positions /\ admittedAt[p] \in 0..Finest
        BY <1>3, <1>4
      <4>2. p \in chosen => admittedAt[p] = Finest
        BY <1>5, <1>7, <1>11, <4>1
      <4> QED  BY <1>4, <1>12, <2>0, <3>1, <4>1, <4>2
    <3>3. InBy(l)' = InBy(l)
      <4>1. \A p \in Budgeted : admittedAt'[p] <= l <=> admittedAt[p] <= l
        BY <3>2
      <4> QED  BY <1>3, <4>1 DEF InBy
    <3>4. Entered(l)' = Entered(l)
      <4>1. \A p \in Budgeted : admittedAt'[p] = l <=> admittedAt[p] = l
        BY <3>2
      <4> QED  BY <1>3, <4>1 DEF Entered
    <3>5. Sought(l)' = Sought(l)
      <4>1. \A p \in Budgeted : admittedAt'[p] >= l <=> admittedAt[p] >= l
        BY <3>2
      <4> QED  BY <1>2, <1>3, <4>1 DEF Sought
    <3> QED  BY <1>2, <1>6, <3>1, <3>3, <3>4, <3>5, SettledKept
  <2> QED  BY <2>1, <2>2
<1> QED  BY <1>2, <1>12, <1>13, <1>14, <1>15 DEF BudgetInv

\* The fold over the levels waits until all are assigned.
LEMMA AssignedIsFinal ==
  ASSUME AssignTypeOK, Assigned  PROVE ~AssignNext
<1>1. wave = {} /\ planned = Finest /\ ~Built
  BY DEF Assigned, Built
<1>2. ~StartWave /\ ~EndWave
  BY <1>1, TableAssumption DEF StartWave, EndWave
<1>3. \A l : ~NextBlock(l) /\ \A c : ~Classify(l, c) /\ ~Contest(l, c)
  BY <1>1 DEF NextBlock, Classify, Contest
<1>4. \A r : ~Fold(r)
  BY <1>1 DEF Fold
<1> QED  BY <1>2, <1>3, <1>4 DEF AssignNext

LEMMA InputKept ==
  ASSUME AssignNext  PROVE row' = row /\ config' = config
BY DEF AssignNext, StartWave, EndWave, NextBlock, Classify, Contest, Fold, Input

\* What changes nothing that the budget looks at.
LEMMA BudgetInvKept ==
  ASSUME BudgetInv, UNCHANGED <<row, config, budgetVars, minLevel>>, Assigned' = Assigned
  PROVE  BudgetInv'
<1> USE DEF budgetVars
<1>1. Budgeted' = Budgeted
  BY BudgetsFixed
<1>2. ASSUME NEW l \in Coarse, l < turn'  PROVE Settled(l)'
  <2>1. InBy(l)' = InBy(l) /\ Entered(l)' = Entered(l) /\ Sought(l)' = Sought(l)
    BY <1>1 DEF InBy, Entered, Sought
  <2>2. Settled(l)
    BY <1>2 DEF BudgetInv
  <2> QED  BY <2>1, <2>2, SettledKept
<1>3. BudgetTypeOK'
  BY <1>1 DEF BudgetInv, BudgetTypeOK
<1> QED  BY <1>1, <1>2, <1>3 DEF BudgetInv

LEMMA BudgetInvAssign ==
  ASSUME AssignTypeOK, AssignTypeOK', BudgetInv, AssignNext, UNCHANGED budgetVars
  PROVE  BudgetInv'
<1> USE DEF budgetVars
<1>1. turn = 0
  BY AssignedIsFinal DEF BudgetInv
<1>2. row' = row /\ config' = config
  BY InputKept
<1>3. Budgeted' = Budgeted
  BY <1>2, BudgetsFixed
<1>4. BudgetTypeOK'
  BY <1>3 DEF BudgetInv, BudgetTypeOK
<1>5. ASSUME NEW p \in Positions
      PROVE  minLevel'[p] <= admittedAt'[p] /\ p \notin admitted /\ admittedAt[p] = Finest
  <2>1. admittedAt[p] \in 0..Finest /\ minLevel'[p] \in 0..Finest /\ Finest \in Nat
    BY TableAssumption DEF BudgetInv, BudgetTypeOK, AssignTypeOK
  <2>2. p \notin admitted
    BY <1>1, <2>1 DEF BudgetInv
  <2>3. admittedAt[p] = Finest
    BY <2>2 DEF BudgetInv
  <2> QED  BY <2>1, <2>2, <2>3
<1>6. \A l \in Coarse : ~(l < turn')
  BY <1>1 DEF Coarse
<1>7. ~(turn' > Finest)
  BY <1>1, TableAssumption
<1> QED  BY <1>1, <1>4, <1>5, <1>6, <1>7 DEF BudgetInv

LEMMA BudgetInvStep ==
  ASSUME BudgetAssumption, AssignTypeOK, AssignTypeOK', BudgetInv, [TablesNext]_tableVars
  PROVE  BudgetInv'
<1>1. CASE Assign
  BY <1>1, BudgetInvAssign DEF Assign
<1>2. CASE Thin
  BY <1>2, BudgetInvAdmit DEF Thin
<1>3. CASE UNCHANGED <<Input, assignVars, budgetVars>>
  BY <1>3, BudgetInvKept DEF Input, assignVars, Assigned
<1> QED
  BY <1>1, <1>2, <1>3 DEF TablesNext, Count, Verify, Clustering, tableVars

\* At the end the budgets are kept.
LEMMA BudgetAtEnd ==
  ASSUME BudgetAssumption, AssignTypeOK, BudgetInv  PROVE BudgetHolds
<1> SUFFICES ASSUME Thinned, ~Off  PROVE BudgetHolds
  BY DEF BudgetHolds
<1>1. turn > Finest /\ admitted = Budgeted
  BY DEF Thinned, BudgetInv
<1>2. Finest \in Nat /\ turn = Finest + 1 /\ Budgeted \subseteq Positions
  <2>1. Finest \in Nat /\ turn \in 0..(Finest + 1)
    BY TableAssumption DEF BudgetInv, BudgetTypeOK
  <2> QED  BY <1>1, <2>1 DEF Budgeted
<1>3. \A p \in Positions : /\ admittedAt[p] \in 0..Finest /\ minLevel[p] \in 0..Finest
                           /\ minLevel[p] <= admittedAt[p]
  BY DEF BudgetInv, BudgetTypeOK, AssignTypeOK
<1>4. \A p \in Budgeted : Level(p) = admittedAt[p]
  BY DEF Level
<1>5. \A p \in Positions : Level(p) >= minLevel[p] /\ (p \notin Budgeted => Level(p) = minLevel[p])
  <2>1. \A p \in Positions : p \notin Budgeted => Level(p) = minLevel[p]
    BY DEF Level
  <2> QED  BY <1>3, <1>4, <2>1
<1>6. ASSUME NEW l \in Coarse
      PROVE  /\ Cardinality(Held(l)) <= BudgetOf(l)
             /\ Deferred(l) # {} => Cardinality(Held(l)) = BudgetOf(l)
             /\ \A p \in Deferred(l), q \in Budgeted :
                  Level(q) = l /\ SuperCell(l, q) = SuperCell(l, p) => Better(q, p)
             /\ \A p, q \in Budgeted :
                  Cardinality(Wanting(l, p)) <= Cardinality(Wanting(l, q)) =>
                    Cardinality(Given(l, p)) <= Cardinality(Given(l, q)) + 1
  <2>1. l \in 0..Finest /\ l < turn
    BY <1>2 DEF Coarse
  <2>2. Settled(l)
    BY <2>1 DEF BudgetInv
  <2>3. Held(l) = InBy(l)
    BY <1>4 DEF Held, InBy
  <2>4. Deferred(l) = Sought(l) \ Entered(l) /\ Entered(l) \subseteq Sought(l)
    <3>1. \A p \in Budgeted : /\ admittedAt[p] > l <=> admittedAt[p] >= l /\ admittedAt[p] # l
                              /\ admittedAt[p] = l => minLevel[p] <= l /\ admittedAt[p] >= l
      BY <1>2, <1>3, <2>1
    <3> QED  BY <1>4, <3>1 DEF Deferred, Sought, Entered
  <2>5. Cardinality(Held(l)) <= BudgetOf(l)
    BY <2>2, <2>3 DEF Settled
  <2>6. Deferred(l) # {} => Cardinality(Held(l)) = BudgetOf(l)
    BY <2>2, <2>3, <2>4 DEF Settled
  <2>7. ASSUME NEW p \in Deferred(l), NEW q \in Budgeted,
               Level(q) = l, SuperCell(l, q) = SuperCell(l, p)
        PROVE  Better(q, p)
    <3>1. q \in Entered(l) /\ p \in Sought(l) /\ p \notin Entered(l)
      BY <1>4, <2>4, <2>7 DEF Entered
    <3>2. ~Better(p, q)
      BY <2>2, <2>7, <3>1 DEF Settled, Fairly
    <3>3. p \in Positions /\ q \in Positions /\ p # q
      BY <1>2, <3>1 DEF Sought
    <3> QED  BY <3>2, <3>3, BetterOrder
  <2>8. ASSUME NEW p \in Budgeted
        PROVE  /\ Wanting(l, p) = Here(Sought(l), l, SuperCell(l, p))
               /\ Given(l, p) = Here(Entered(l), l, SuperCell(l, p))
               /\ SuperCell(l, p) \in Int
    <3>1. Wanting(l, p) = Here(Sought(l), l, SuperCell(l, p))
      BY <1>4 DEF Wanting, Sought, Here
    <3>2. Given(l, p) = Here(Entered(l), l, SuperCell(l, p))
      <4>1. \A q \in Sought(l) : q \in Budgeted /\ (Level(q) = l <=> q \in Entered(l))
        BY <1>4 DEF Sought, Entered
      <4> QED  BY <2>4, <3>1, <4>1 DEF Given, Here
    <3>3. SuperCell(l, p) \in Int
      BY <1>2, <2>1, SuperCells
    <3> QED  BY <3>1, <3>2, <3>3
  <2>9. ASSUME NEW p \in Budgeted, NEW q \in Budgeted,
               Cardinality(Wanting(l, p)) <= Cardinality(Wanting(l, q))
        PROVE  Cardinality(Given(l, p)) <= Cardinality(Given(l, q)) + 1
    <3>1. Fairly(Entered(l), Sought(l), l)
      BY <2>2 DEF Settled
    <3> QED  BY <2>8, <2>9, <3>1 DEF Fairly
  <2> QED  BY <2>5, <2>6, <2>7, <2>9
<1> QED  BY <1>5, <1>6 DEF BudgetHolds

LEMMA TablesAssign == TablesSpec => AssignSpec
<1>1. TablesInit => AssignInit
  BY DEF TablesInit
<1>2. [TablesNext]_tableVars => [AssignNext]_<<Input, assignVars>>
  BY DEF TablesNext, Assign, Thin, Count, Verify, Clustering, tableVars
<1> QED  BY <1>1, <1>2, PTL DEF TablesSpec, AssignSpec

LEMMA BudgetInductive == TablesSpec => [](AssignTypeOK /\ BudgetInv)
<1>1. BudgetAssumption
  BY StagesAssumption
<1>2. TablesInit => AssignTypeOK /\ BudgetInv
  BY <1>1, TypeInit, BudgetInvInit DEF TablesInit
<1>3. AssignTypeOK /\ AssignTypeOK' /\ BudgetInv /\ [TablesNext]_tableVars => BudgetInv'
  BY <1>1, BudgetInvStep
<1>4. TablesSpec => []AssignTypeOK
  BY TablesAssign, AssignTyped, PTL
<1> QED  BY <1>2, <1>3, <1>4, PTL DEF TablesSpec

\* The budget only defers, and only what it is for; a coarse level holds no
\* more than its budget, and exactly that if it defers anything; and the
\* water-filling and the cuts that share the budget out are fair: in no
\* neighbourhood is anyone passed over for a worse one, and none is given more
\* than a more populous one, but for the one that rounding gives.
THEOREM BudgetsKept == TablesSpec => []BudgetHolds
<1>1. AssignTypeOK /\ BudgetInv => BudgetHolds
  BY StagesAssumption, BudgetAtEnd
<1> QED  BY <1>1, BudgetInductive, PTL

-----------------------------------------------------------------------------
(* Who counts a point *)

\* What verify_sum_invariant says of the tables.
Verdict ==
  LET wrong == {l \in 0..Finest : Said(l) # "ok"}
  IN  IF Points = {} \/ wrong = {} THEN "ok" ELSE Said(Min(wrong))

\* The tables are of the levels that the stages before left, and so is what
\* is said of them.
ClusterInv ==
  /\ Tabled => /\ Assigned /\ Thinned
               /\ tables = [l \in 0..Finest |-> TableOf(l)]
  /\ verdict # "none" => Tabled /\ verdict = Verdict

LEMMA PresentFixed ==
  ASSUME UNCHANGED <<row, config, minLevel, budgetVars>>
  PROVE  /\ Points' = Points /\ Thinned' = Thinned
         /\ \A l : Present(l)' = Present(l)
         /\ \A p, q : Better(p, q)' = Better(p, q)
         /\ \A l, p : PointCell(l, p)' = PointCell(l, p)
         /\ \A l, c, p : Distance(l, c, p)' = Distance(l, c, p)
         /\ \A l : Width(l, "point")' = Width(l, "point")
<1> USE DEF budgetVars
<1>1. Budgeted' = Budgeted
  BY DEF Budgeted
<1>2. Off' = Off /\ Points' = Points /\ Thinned' = Thinned
  BY <1>1 DEF Off, Points, Thinned
<1>3. \A p : Level(p)' = Level(p)
  BY <1>1, <1>2 DEF Level
<1>4. \A l : Present(l)' = Present(l)
  BY <1>2, <1>3 DEF Present
<1>5. \A p, q : Better(p, q)' = Better(p, q)
  BY TableFixed
<1>6. \A l : Width(l, "point")' = Width(l, "point")
  BY DEF Width
<1>7. \A l, p : PointCell(l, p)' = PointCell(l, p)
  BY DEF PointCell, Width
<1>8. \A l, c, p : Distance(l, c, p)' = Distance(l, c, p)
  BY DEF Distance, Width
<1> QED  BY <1>2, <1>4, <1>5, <1>6, <1>7, <1>8

LEMMA TablesFixed ==
  ASSUME UNCHANGED <<row, config, minLevel, budgetVars>>
  PROVE  \A l : TableOf(l)' = TableOf(l)
<1>1. ASSUME NEW l  PROVE CellWinners(l)' = CellWinners(l)
  BY PresentFixed DEF CellWinners
<1>2. ASSUME NEW l, NEW c  PROVE Nearest(l, c)' = Nearest(l, c)
  BY <1>1, PresentFixed DEF Nearest
<1>3. ASSUME NEW l, NEW p  PROVE Representative(l, p)' = Representative(l, p)
  <2> DEFINE here == {w \in CellWinners(l) : PointCell(l, w) = PointCell(l, p)}
             now  == {w \in CellWinners(l)' : PointCell(l, w)' = PointCell(l, p)'}
  <2>1. now = here
    BY <1>1, PresentFixed
  <2>2. Representative(l, p) = IF p \in Present(l) THEN p
                               ELSE IF here # {} THEN CHOOSE w \in here : TRUE
                               ELSE Nearest(l, PointCell(l, p))
    BY DEF Representative
  <2>3. Representative(l, p)' = IF p \in Present(l)' THEN p
                                ELSE IF now # {} THEN CHOOSE w \in now : TRUE
                                ELSE Nearest(l, PointCell(l, p))'
    BY DEF Representative
  <2>4. PICK c : c = PointCell(l, p)
    OBVIOUS
  <2>5. Nearest(l, PointCell(l, p))' = Nearest(l, PointCell(l, p))
    <3>1. PointCell(l, p)' = c
      BY <2>4, PresentFixed
    <3>2. Nearest(l, PointCell(l, p))' = Nearest(l, c)'
      BY <3>1 DEF Nearest
    <3> QED  BY <1>2, <2>4, <3>2
  <2> HIDE DEF here, now
  <2> QED  BY <2>1, <2>2, <2>3, <2>5, PresentFixed
<1>4. ASSUME NEW l, NEW i  PROVE Absorbed(l, i)' = Absorbed(l, i)
  BY <1>3, PresentFixed DEF Absorbed
<1>5. ASSUME NEW l  PROVE TableOf(l)' = TableOf(l)
  BY <1>4, PresentFixed DEF TableOf
<1> QED  BY <1>5

LEMMA VerdictFixed ==
  ASSUME UNCHANGED <<row, config, minLevel, budgetVars, tables>>
  PROVE  Verdict' = Verdict
<1>1. \A l, w : Counts(l, w)' = Counts(l, w)
  BY DEF Counts
<1>2. ASSUME NEW l  PROVE CountAt(l)' = CountAt(l)
  BY <1>1, PresentFixed DEF CountAt
<1>3. ASSUME NEW l  PROVE SharesEntry(l)' = SharesEntry(l)
  BY PresentFixed DEF SharesEntry
<1>4. ASSUME NEW l  PROVE Said(l)' = Said(l)
  BY <1>2, <1>3, PresentFixed DEF Said
<1> QED  BY <1>4, PresentFixed DEF Verdict

LEMMA ClusterInvInit == ClusterInit => ClusterInv
BY DEF ClusterInit, ClusterInv, Tabled

LEMMA ClusterInvStep ==
  ASSUME AssignTypeOK, BudgetTypeOK, ClusterInv, [TablesNext]_tableVars
  PROVE  ClusterInv'
<1> USE DEF clusterVars
<1>1. CASE Assign
  <2>1. ~Tabled
    BY <1>1, AssignedIsFinal DEF Assign, ClusterInv
  <2> QED  BY <1>1, <2>1 DEF Assign, ClusterInv, Tabled
<1>2. CASE Thin
  <2>1. ~Tabled
    <3>1. ~Off /\ turn <= Finest
      BY <1>2 DEF Thin, AdmitLevel
    <3>2. ~(turn > Finest)
      BY <3>1, TableAssumption DEF BudgetTypeOK
    <3> QED  BY <3>1, <3>2 DEF Thinned, ClusterInv
  <2> QED  BY <1>2, <2>1 DEF Thin, ClusterInv, Tabled
<1>3. ASSUME UNCHANGED <<Input, assignVars, budgetVars>>
      PROVE  /\ Assigned' = Assigned /\ Thinned' = Thinned
             /\ \A l : TableOf(l)' = TableOf(l)
             /\ row' = row /\ config' = config /\ minLevel' = minLevel
  BY <1>3, PresentFixed, TablesFixed DEF Input, assignVars, Assigned
<1>4. CASE Count
  <2>1. /\ Assigned /\ Thinned /\ UNCHANGED <<Input, assignVars, budgetVars>>
        /\ ~Tabled /\ tables' = [l \in 0..Finest |-> TableOf(l)] /\ verdict' = verdict
    BY <1>4 DEF Count, Clustering, BuildTables
  <2>2. verdict = "none"
    BY <2>1 DEF ClusterInv
  <2> QED  BY <1>3, <2>1, <2>2 DEF ClusterInv
<1>5. CASE Verify
  <2>1. /\ UNCHANGED <<Input, assignVars, budgetVars, tables>>
        /\ Tabled /\ verdict' = Verdict
    BY <1>5 DEF Verify, Clustering, VerifySums, Verdict
  <2>2. Verdict' = Verdict
    BY <1>3, <2>1, VerdictFixed
  <2> QED  BY <1>3, <2>1, <2>2 DEF ClusterInv, Tabled
<1>6. CASE UNCHANGED tableVars
  <2>1. UNCHANGED <<Input, assignVars, budgetVars, tables, verdict>>
    BY <1>6 DEF tableVars
  <2>2. Verdict' = Verdict
    BY <1>3, <2>1, VerdictFixed
  <2> QED  BY <1>3, <2>1, <2>2 DEF ClusterInv, Tabled
<1> QED  BY <1>1, <1>2, <1>4, <1>5, <1>6 DEF TablesNext

\* A set that is not empty has a first element.
LEMMA Foremost ==
  ASSUME NEW S \in SUBSET Positions, S # {}, NEW R, Ordering(R, S)
  PROVE  \E x \in S : \A y \in S : y # x => <<x, y>> \in R
<1> DEFINE T == {x \in S : Cardinality(Below(R, S, x)) < 1}
<1>1. IsFiniteSet(S) /\ Cardinality(S) \in Nat /\ Cardinality(S) # 0
  BY SomePositions, FS_EmptySet
<1>2. Cardinality(T) = 1
  <2>1. 1 <= Cardinality(S) /\ 1 \in Nat
    BY <1>1
  <2> QED  BY <1>1, <2>1, RankCount
<1>3. T # {}
  BY <1>2, FS_EmptySet
<1>4. PICK x \in S : Cardinality(Below(R, S, x)) < 1
  BY <1>3
<1>5. IsFiniteSet(Below(R, S, x)) /\ Cardinality(Below(R, S, x)) = 0
  <2>1. IsFiniteSet(Below(R, S, x)) /\ Cardinality(Below(R, S, x)) \in Nat
    BY <1>1, RankLess
  <2> QED  BY <1>4, <2>1
<1>6. Below(R, S, x) = {}
  BY <1>5, FS_EmptySet
<1>7. \A y \in S : <<y, x>> \notin R
  BY <1>6 DEF Below
<1> QED  BY <1>7 DEF Ordering

LEMMA BestOne ==
  ASSUME AssignTypeOK, NEW S \in SUBSET Positions, S # {}
  PROVE  \E b \in S : \A q \in S : q # b => Better(b, q)
<1> DEFINE R == {e \in Positions \X Positions : Better(e[1], e[2])}
<1>1. \A p, q \in Positions : <<p, q>> \in R <=> Better(p, q)
  OBVIOUS
<1>2. \A p \in Positions : ~Better(p, p)
  BY BetterOrder
<1> HIDE DEF R
<1>3. Ordering(R, S)
  <2>1. \A x \in S : <<x, x>> \notin R
    BY <1>1, <1>2
  <2>2. \A x, y, z \in S : <<x, y>> \in R /\ <<y, z>> \in R => <<x, z>> \in R
    BY <1>1, BetterTransitive
  <2>3. \A x, y \in S : x # y => <<x, y>> \in R \/ <<y, x>> \in R
    BY <1>1, BetterOrder
  <2> QED  BY <2>1, <2>2, <2>3 DEF Ordering
<1>4. PICK b \in S : \A y \in S : y # b => <<b, y>> \in R
  BY <1>3, Foremost
<1> QED  BY <1>1, <1>4

LEMMA Cells ==
  ASSUME AssignTypeOK, NEW l \in 0..Finest, Width(l, "point") > 0
  PROVE  /\ Width(l, "point") \in Nat
         /\ \A p \in Positions : PointCell(l, p) \in Int
         /\ \A c \in Int, p \in Positions : Distance(l, c, p) \in Int
<1> DEFINE w == Width(l, "point")
<1>1. \A p \in Positions : row[p].at \in Int
  BY TableAssumption DEF AssignTypeOK
<1>2. w \in Nat
  <2>1. config.factor["point"] \in Nat /\ Gsd[l] \in Nat
    BY TableAssumption DEF AssignTypeOK, Kinds
  <2> QED  BY <2>1 DEF Width
<1>3. w \in Nat \ {0}
  BY <1>2
<1>4. \A p \in Positions : PointCell(l, p) = row[p].at \div w
  BY DEF PointCell
<1>5. \A c \in Int, p \in Positions : \E d \in Int :
        d = 2 * row[p].at - (2 * c + 1) * w /\ Distance(l, c, p) = IF d < 0 THEN -d ELSE d
  <2> SUFFICES ASSUME NEW c \in Int, NEW p \in Positions
               PROVE  \E d \in Int : /\ d = 2 * row[p].at - (2 * c + 1) * w
                                     /\ Distance(l, c, p) = IF d < 0 THEN -d ELSE d
    OBVIOUS
  <2>1. Distance(l, c, p) = LET d == 2 * row[p].at - (2 * c + 1) * w
                            IN  IF d < 0 THEN -d ELSE d
    BY DEF Distance
  <2> HIDE DEF w
  <2>2. PICK a \in Int : a = row[p].at
    BY <1>1
  <2>3. 2 * a - (2 * c + 1) * w \in Int
    BY <1>2
  <2> QED  BY <2>1, <2>2, <2>3
<1> HIDE DEF w
<1>6. \A p \in Positions : row[p].at \div w \in Int
  BY <1>1, <1>3
<1>7. \A c \in Int, p \in Positions : Distance(l, c, p) \in Int
  BY <1>5
<1> QED  BY <1>2, <1>4, <1>6, <1>7 DEF w

\* Somebody present stands for every point, and who is present for itself.
LEMMA Represented ==
  ASSUME AssignTypeOK, NEW l \in 0..Finest, Width(l, "point") > 0,
         Present(l) # {}, NEW p \in Points
  PROVE  /\ Representative(l, p) \in Present(l)
         /\ p \in Present(l) => Representative(l, p) = p
<1> DEFINE here == {w \in CellWinners(l) : PointCell(l, w) = PointCell(l, p)}
<1>1. Present(l) \in SUBSET Positions /\ CellWinners(l) \subseteq Present(l)
  BY DEF Present, Points, CellWinners
<1>2. CellWinners(l) # {}
  <2>1. PICK b \in Present(l) : \A q \in Present(l) : q # b => Better(b, q)
    BY <1>1, BestOne
  <2>2. b \in CellWinners(l)
    BY <2>1 DEF CellWinners
  <2> QED  BY <2>2
<1>3. \A c \in Int : Nearest(l, c) \in CellWinners(l)
  <2> SUFFICES ASSUME NEW c \in Int  PROVE Nearest(l, c) \in CellWinners(l)
    OBVIOUS
  <2> DEFINE S == CellWinners(l)
             R == {e \in Positions \X Positions :
                     \/ Distance(l, c, e[1]) < Distance(l, c, e[2])
                     \/ Distance(l, c, e[1]) = Distance(l, c, e[2]) /\ Better(e[1], e[2])}
  <2>1. \A v, w \in Positions : <<v, w>> \in R <=>
          \/ Distance(l, c, v) < Distance(l, c, w)
          \/ Distance(l, c, v) = Distance(l, c, w) /\ Better(v, w)
    OBVIOUS
  <2>2. \A v \in Positions : Distance(l, c, v) \in Int /\ ~Better(v, v)
    BY Cells, BetterOrder
  <2>3. S \in SUBSET Positions
    BY <1>1
  <2> HIDE DEF R, S
  <2>4. Ordering(R, S)
    <3>1. \A x \in S : <<x, x>> \notin R
      BY <2>1, <2>2, <2>3
    <3>2. ASSUME NEW x \in S, NEW y \in S, NEW z \in S, <<x, y>> \in R, <<y, z>> \in R
          PROVE  <<x, z>> \in R
      <4>1. /\ x \in Positions /\ y \in Positions /\ z \in Positions
            /\ Distance(l, c, x) \in Int /\ Distance(l, c, y) \in Int
            /\ Distance(l, c, z) \in Int
        BY <2>2, <2>3
      <4>2. Better(x, y) /\ Better(y, z) => Better(x, z)
        BY <4>1, BetterTransitive
      <4> QED  BY <2>1, <3>2, <4>1, <4>2
    <3>3. ASSUME NEW x \in S, NEW y \in S, x # y  PROVE <<x, y>> \in R \/ <<y, x>> \in R
      <4>1. /\ x \in Positions /\ y \in Positions
            /\ Distance(l, c, x) \in Int /\ Distance(l, c, y) \in Int
        BY <2>2, <2>3
      <4>2. Better(x, y) \/ Better(y, x)
        BY <3>3, <4>1, BetterOrder
      <4> QED  BY <2>1, <4>1, <4>2
    <3> QED  BY <3>1, <3>2, <3>3 DEF Ordering
  <2>5. S # {}
    BY <1>2 DEF S
  <2>6. PICK w \in S : \A v \in S : v # w => <<w, v>> \in R
    BY <2>3, <2>4, <2>5, Foremost
  <2>7. \A v \in S : v # w =>
          \/ Distance(l, c, w) < Distance(l, c, v)
          \/ Distance(l, c, w) = Distance(l, c, v) /\ Better(w, v)
    BY <2>1, <2>3, <2>6
  <2>8. Nearest(l, c) = CHOOSE u \in S : \A v \in S : v # u =>
          \/ Distance(l, c, u) < Distance(l, c, v)
          \/ Distance(l, c, u) = Distance(l, c, v) /\ Better(u, v)
    BY DEF Nearest, S
  <2>9. Nearest(l, c) \in S
    BY <2>7, <2>8
  <2> QED  BY <2>9 DEF S
<1>4. p \in Positions /\ PointCell(l, p) \in Int
  BY Cells DEF Points
<1>5. Representative(l, p) = IF p \in Present(l) THEN p
                             ELSE IF here # {} THEN CHOOSE w \in here : TRUE
                             ELSE Nearest(l, PointCell(l, p))
  BY DEF Representative
<1>6. here \subseteq CellWinners(l)
  OBVIOUS
<1> HIDE DEF here
<1>7. here # {} => (CHOOSE w \in here : TRUE) \in here
  OBVIOUS
<1> QED  BY <1>1, <1>3, <1>4, <1>5, <1>6, <1>7

LEMMA LevelTypes ==
  ASSUME AssignTypeOK, BudgetTypeOK, NEW p \in Positions
  PROVE  Level(p) \in 0..Finest
BY DEF AssignTypeOK, BudgetTypeOK, Level

\* By a table of a level that thins, or of the finest, each point is counted
\* by one row that is present.
LEMMA CountedInCell ==
  ASSUME AssignTypeOK, BudgetTypeOK, NEW l \in 0..Finest,
         l = Finest \/ Width(l, "point") > 0,
         tables[l] = TableOf(l), Present(l) # {}, ~SharesEntry(l), NEW p \in Points
  PROVE  \E r \in Present(l) : /\ {w \in Present(l) : p \in Counts(l, w)} = {r}
                               /\ p \in Present(l) => r = p
<1>1. CASE l = Finest
  <2>1. \A w : Counts(l, w) = {w}
    <3>1. DOMAIN tables[l] = {}
      BY <1>1 DEF TableOf
    <3> QED  BY <3>1 DEF Counts
  <2>2. p \in Present(l)
    <3>1. Level(p) \in 0..Finest /\ Finest \in Nat
      BY LevelTypes, TableAssumption DEF Points
    <3> QED  BY <1>1, <3>1 DEF Present
  <2> QED  BY <2>1, <2>2
<1>2. CASE l # Finest
  <2>1. Width(l, "point") > 0 /\ Width(l, "point") # 0
    BY <1>2, Cells
  <2> DEFINE r == Representative(l, p)
             I == {i \in Indices : Cardinality(Absorbed(l, i)) > 1}
  <2>2. tables[l] = [i \in I |-> Absorbed(l, i)]
    BY <1>2, <2>1 DEF TableOf
  <2>3. /\ \A q \in Points : Representative(l, q) \in Present(l)
        /\ \A q \in Present(l) : q \in Points /\ Representative(l, q) = q
    BY <2>1, Represented DEF Present
  <2>4. \A w \in Present(l) : w \in Positions /\ row[w].index \in Indices
    BY TableAssumption DEF Present, Points, AssignTypeOK
  <2>5. r \in Present(l) /\ (p \in Present(l) => r = p)
    BY <2>3
  <2>6. \A w : Counts(l, w) = IF row[w].index \in I THEN Absorbed(l, row[w].index) ELSE {w}
    BY <2>2 DEF Counts
  <2>7. \A w, v \in Present(l) : row[w].index = row[v].index /\ row[w].index \in I => w = v
    BY <2>2 DEF SharesEntry
  <2>8. \A i : Absorbed(l, i) = {q \in Points : row[Representative(l, q)].index = i}
    BY DEF Absorbed
  <2>9. ASSUME NEW w \in Present(l), p \in Counts(l, w)  PROVE w = r
    <3>1. CASE row[w].index \in I
      <4>1. row[r].index = row[w].index
        BY <2>6, <2>8, <2>9, <3>1
      <4> QED  BY <2>5, <2>7, <3>1, <4>1
    <3>2. CASE row[w].index \notin I
      BY <2>3, <2>6, <2>9, <3>2
    <3> QED  BY <3>1, <3>2
  <2>10. p \in Counts(l, r)
    <3>1. p \in Absorbed(l, row[r].index) /\ r \in Absorbed(l, row[r].index)
      BY <2>3, <2>5, <2>8
    <3>2. CASE row[r].index \in I
      BY <2>6, <3>1, <3>2
    <3>3. CASE row[r].index \notin I
      <4> DEFINE A == Absorbed(l, row[r].index)
      <4>1. A \in SUBSET Positions
        BY <2>8 DEF Points
      <4>2. IsFiniteSet(A) /\ Cardinality(A) \in Nat
        BY <4>1, SomePositions
      <4>3. ~(Cardinality(A) > 1)
        BY <2>4, <2>5, <3>3
      <4>4. p = r
        <5>1. SUFFICES ASSUME p # r  PROVE FALSE
          OBVIOUS
        <5>2. {p, r} \subseteq A /\ IsFiniteSet({p, r}) /\ Cardinality({p, r}) = 2
          <6> HIDE DEF r
          <6>1. Cardinality({r}) = 1 /\ IsFiniteSet({r}) /\ p \notin {r}
            BY <5>1, FS_Singleton
          <6>2. Cardinality({r} \cup {p}) = 2 /\ IsFiniteSet({r} \cup {p})
            BY <6>1, FS_AddElement
          <6>3. {p, r} = {r} \cup {p}
            OBVIOUS
          <6> QED  BY <3>1, <6>2, <6>3
        <5>3. Cardinality({p, r}) <= Cardinality(A)
          <6> HIDE DEF A, r
          <6> QED  BY <4>2, <5>2, FS_Subset
        <5> HIDE DEF A
        <5> QED  BY <4>2, <4>3, <5>2, <5>3
      <4> QED  BY <2>6, <3>3, <4>4
    <3> QED  BY <3>2, <3>3
  <2> HIDE DEF r
  <2>11. {w \in Present(l) : p \in Counts(l, w)} = {r}
    BY <2>5, <2>9, <2>10
  <2> QED  BY <2>5, <2>11
<1> QED  BY <1>1, <1>2

\* A table counts points only.
LEMMA CountsPoints ==
  ASSUME NEW l \in 0..Finest, tables[l] = TableOf(l), NEW w \in Present(l)
  PROVE  Counts(l, w) \subseteq Points
<1>1. w \in Points
  BY DEF Present
<1>2. CASE row[w].index \in DOMAIN TableOf(l)
  <2>1. TableOf(l)[row[w].index] = Absorbed(l, row[w].index)
    BY <1>2 DEF TableOf
  <2> QED  BY <1>2, <2>1 DEF Counts, Absorbed
<1>3. CASE row[w].index \notin DOMAIN TableOf(l)
  BY <1>1, <1>3 DEF Counts
<1> QED  BY <1>2, <1>3

\* Where thinning by cells is on, and at the finest level, the sums are right.
LEMMA SumsRight ==
  ASSUME AssignTypeOK, BudgetTypeOK, NEW l \in 0..Finest,
         l = Finest \/ Width(l, "point") > 0,
         tables[l] = TableOf(l), Present(l) # {}, ~SharesEntry(l)
  PROVE  CountAt(l) = Cardinality(Points)
<1> DEFINE D == Present(l)
           f == [w \in Positions |-> Counts(l, w)]
           n == [w \in Positions |-> Cardinality(Counts(l, w))]
<1>1. CountAt(l) = SumFunctionOnSet(n, D)
  BY DEF CountAt
<1>2. D \in SUBSET Positions /\ Points \in SUBSET Positions
  BY DEF Present, Points
<1>3. IsFiniteSet(D)
  BY <1>2, SomePositions
<1>4. \A w \in D : f[w] = Counts(l, w) /\ n[w] = Cardinality(f[w]) /\ f[w] \subseteq Points
  BY <1>2, CountsPoints
<1>5. \A w \in D : IsFiniteSet(f[w]) /\ n[w] = Cardinality(f[w])
  <2>1. \A w \in D : f[w] \in SUBSET Positions
    BY <1>2, <1>4
  <2> QED  BY <1>4, <2>1, SomePositions
<1>6. \A p \in Points : \E r \in D : {w \in D : p \in Counts(l, w)} = {r}
  BY CountedInCell
<1> HIDE DEF D, f, n
<1>7. \A v, w \in D : v # w => f[v] \cap f[w] = {}
  <2> SUFFICES ASSUME NEW v \in D, NEW w \in D, v # w, NEW p, p \in f[v], p \in f[w]
               PROVE  FALSE
    OBVIOUS
  <2>1. p \in Points
    BY <1>4
  <2>2. PICK r \in D : {u \in D : p \in Counts(l, u)} = {r}
    BY <1>6, <2>1
  <2>3. v \in {u \in D : p \in Counts(l, u)} /\ w \in {u \in D : p \in Counts(l, u)}
    BY <1>4
  <2> QED  BY <2>2, <2>3
<1>8. UNION {f[w] : w \in D} = Points
  <2>1. \A p \in Points : \E w \in D : p \in f[w]
    <3> SUFFICES ASSUME NEW p \in Points  PROVE \E w \in D : p \in f[w]
      OBVIOUS
    <3>1. PICK r \in D : {u \in D : p \in Counts(l, u)} = {r}
      BY <1>6
    <3>2. r \in {u \in D : p \in Counts(l, u)}
      BY <3>1
    <3> QED  BY <1>4, <3>2
  <2>2. \A w \in D : f[w] \subseteq Points
    BY <1>4
  <2> QED  BY <2>1, <2>2
<1>9. Cardinality(UNION {f[w] : w \in D}) = SumFunctionOnSet(n, D)
  BY <1>3, <1>5, <1>7, SumOfSizes
<1> QED  BY <1>1, <1>8, <1>9

\* What is accepted counts each point once.
LEMMA AcceptedCounts ==
  ASSUME AssignTypeOK, BudgetTypeOK, NEW l \in 0..Finest,
         tables[l] = TableOf(l), Said(l) = "ok", NEW p \in Points
  PROVE  \E r \in Present(l) : /\ {w \in Present(l) : p \in Counts(l, w)} = {r}
                               /\ p \in Present(l) => r = p
<1>1. ~SharesEntry(l) /\ Present(l) # {} /\ CountAt(l) = Cardinality(Points)
  BY DEF Said
<1>2. CASE l = Finest \/ Width(l, "point") > 0
  BY <1>1, <1>2, CountedInCell
<1>3. CASE l # Finest /\ ~(Width(l, "point") > 0)
  <2>1. Width(l, "point") = 0
    <3>1. config.factor["point"] \in Nat /\ Gsd[l] \in Nat
      BY TableAssumption DEF AssignTypeOK, Kinds
    <3>2. Width(l, "point") \in Nat
      BY <3>1 DEF Width
    <3> QED  BY <1>3, <3>2
  <2>2. \A w : Counts(l, w) = {w}
    BY <2>1 DEF TableOf, Counts
  <2> DEFINE n == [w \in Positions |-> Cardinality(Counts(l, w))]
  <2>3. Points \in SUBSET Positions /\ Present(l) \in SUBSET Points
        /\ Present(l) \in SUBSET Positions
    BY DEF Present, Points
  <2>4. IsFiniteSet(Points) /\ IsFiniteSet(Present(l))
    BY <2>3, SomePositions
  <2>5. \A w \in Present(l) : n[w] = 1
    BY <2>2, <2>3, FS_Singleton
  <2>6. CountAt(l) = SumFunctionOnSet(n, Present(l))
    BY DEF CountAt
  <2> HIDE DEF n
  <2>7. Cardinality(Present(l)) = Cardinality(Points)
    BY <1>1, <2>4, <2>5, <2>6, SumOfOnes
  <2>8. Present(l) = Points
    BY <2>3, <2>4, <2>7, FS_Subset
  <2> QED  BY <2>2, <2>8
<1> QED  BY <1>2, <1>3

\* The best of the points that are not on the ladder survives everywhere.
LEMMA BestSurvives ==
  ASSUME AssignTypeOK, NEW l \in Coarse, NEW b \in Points, ~Laddered(b),
         \A q \in Points : ~Laddered(q) /\ q # b => Better(b, q)
  PROVE  Survives(l, b)
<1>1. /\ row[b] \in Features /\ config \in Configs /\ l \in 0..Finest
      /\ row[b].kind = "point"
  BY TableAssumption DEF AssignTypeOK, Points, Coarse
<1>2. /\ row[b].diag \in Nat /\ config.gate["point"] = 0
      /\ config.factor["point"] \in Nat /\ Gsd[l] \in Nat /\ Gsd[l] > 0
  BY <1>1, TableAssumption, StagesAssumption DEF Kinds
<1>3. Effective(l, b) = "point"
  BY <1>1 DEF Effective
<1>4. Gate(l, b) = 0
  <2>1. 0 * Gsd[l] = 0
    BY <1>2
  <2> QED  BY <1>1, <1>2, <1>3, <2>1 DEF Gate
<1>5. Eligible(l, b)
  BY <1>2, <1>4 DEF Eligible
<1>6. CASE config.factor["point"] = 0
  BY <1>3, <1>5, <1>6 DEF Survives, WinsAlways, Unthinned
<1>7. CASE config.factor["point"] # 0
  <2>1. Width(l, "point") > 0
    <3>1. Gsd[l] * config.factor["point"] \in Nat \ {0}
      BY <1>2, <1>7, ProductPositive
    <3> QED  BY <3>1 DEF Width
  <2>2. Contests(l, b)
    BY <1>3, <1>5, <2>1 DEF Contests
  <2>3. ASSUME NEW q \in Positions, q # b, Rivals(l, b, q)  PROVE Better(b, q)
    <3>1. ~Laddered(q) /\ row[q].kind = row[b].kind
      BY <2>3 DEF Rivals, Contests, Eligible, Cell
    <3>2. q \in Points
      BY <1>1, <3>1 DEF Points
    <3> QED  BY <2>3, <3>1, <3>2
  <2> QED  BY <2>2, <2>3 DEF Survives
<1> QED  BY <1>6, <1>7

\* Where no point is present none was allowed to be.
LEMMA NoneAllowed ==
  ASSUME BudgetAssumption, AssignTypeOK, BudgetTypeOK, Assigned, Thinned,
         LevelsAreSerial, BudgetHolds, NEW l \in 0..Finest, Present(l) = {}
  PROVE  \/ \A p \in Points : Laddered(p)
         \/ ~Off /\ config.budgeted # {"point"}
<1> DEFINE U == {p \in Points : ~Laddered(p)}
<1>1. SUFFICES ASSUME U # {}, Off \/ config.budgeted = {"point"}  PROVE FALSE
  OBVIOUS
<1>2. U \in SUBSET Positions
  BY DEF Points
<1>3. PICK b \in U : \A q \in U : q # b => Better(b, q)
  <2> HIDE DEF U
  <2> QED  BY <1>1, <1>2, BestOne
<1>4. b \in Points /\ b \in Positions /\ ~Laddered(b)
  BY <1>2, <1>3
<1>5. Finest \in Nat /\ Level(b) \in 0..Finest /\ minLevel[b] \in 0..Finest
  BY <1>4, LevelTypes, TableAssumption DEF AssignTypeOK
<1>6. ~(Level(b) <= l)
  BY <1>4 DEF Present
<1>7. l \in Coarse
  BY <1>5, <1>6 DEF Coarse
<1>8. Survives(l, b)
  <2>1. \A q \in Points : ~Laddered(q) /\ q # b => Better(b, q)
    BY <1>3
  <2> QED  BY <1>4, <1>7, <2>1, BestSurvives
<1>9. minLevel[b] <= l
  <2>1. ~(l < minLevel[b])
    BY <1>4, <1>7, <1>8 DEF LevelsAreSerial
  <2> QED  BY <1>5, <1>7, <2>1
<1>10. CASE Off
  BY <1>6, <1>9, <1>10 DEF Level
<1>11. CASE ~Off /\ config.budgeted = {"point"}
  <2>1. Budgeted = Points
    BY <1>11 DEF Budgeted, Points
  <2>2. b \in Deferred(l)
    BY <1>4, <1>5, <1>6, <1>7, <1>9, <2>1 DEF Deferred
  <2>3. Cardinality(Held(l)) = BudgetOf(l)
    BY <1>7, <1>11, <2>2 DEF BudgetHolds
  <2>4. Held(l) = {}
    BY <2>1 DEF Held, Present
  <2>5. BudgetOf(l) \in Nat \ {0}
    BY <1>7, BudgetsGrow
  <2> QED  BY <2>3, <2>4, <2>5, FS_EmptySet
<1> QED  BY <1>1, <1>10, <1>11

LEMMA CountedAtEnd ==
  ASSUME BudgetAssumption, AssignTypeOK, BudgetTypeOK, LevelsAreSerial, BudgetHolds,
         ClusterInv
  PROVE  CountedOnce
<1>1. SUFFICES ASSUME verdict # "none"  PROVE CountedOnce
  BY DEF CountedOnce, CountedByOne
<1>2. Assigned /\ Thinned /\ verdict = Verdict /\ \A l \in 0..Finest : tables[l] = TableOf(l)
  BY <1>1 DEF ClusterInv
<1> DEFINE wrong == {l \in 0..Finest : Said(l) # "ok"}
<1>3. CountedByOne
  <2> SUFFICES ASSUME verdict = "ok", NEW l \in 0..Finest, NEW p \in Points
               PROVE  LET by == {w \in Present(l) : p \in Counts(l, w)}
                      IN  Cardinality(by) = 1 /\ (p \in Present(l) => by = {p})
    BY DEF CountedByOne
  <2>1. Said(l) = "ok"
    <3>1. wrong # {} => Min(wrong) \in wrong
      <4>1. wrong \in SUBSET Nat
        BY TableAssumption
      <4> HIDE DEF wrong
      <4>2. wrong # {} => \E x \in wrong : \A y \in wrong : x <= y
        BY <4>1, Smallest
      <4> QED  BY <4>2 DEF Min
    <3>2. wrong = {}
      BY <1>2, <3>1 DEF Verdict
    <3> QED  BY <3>2
  <2>2. PICK r \in Present(l) : /\ {w \in Present(l) : p \in Counts(l, w)} = {r}
                                /\ p \in Present(l) => r = p
    BY <1>2, <2>1, AcceptedCounts
  <2>3. Cardinality({r}) = 1
    BY FS_Singleton
  <2> QED  BY <2>2, <2>3
<1>4. SUFFICES ASSUME verdict # "ok"
               PROVE  /\ verdict = "twins" =>
                           \E p, q \in Points : p # q /\ row[p].index = row[q].index
                      /\ verdict = "noPoint" =>
                           \/ \A p \in Points : Laddered(p)
                           \/ ~Off /\ config.budgeted # {"point"}
                      /\ verdict = "sum" => config.factor["point"] = 0
  BY <1>3 DEF CountedOnce
<1>5. wrong # {} /\ verdict = Said(Min(wrong))
  BY <1>2, <1>4 DEF Verdict
<1>6. Min(wrong) \in wrong
  <2>1. wrong \in SUBSET Nat
    BY TableAssumption
  <2> HIDE DEF wrong
  <2>2. \E x \in wrong : \A y \in wrong : x <= y
    BY <1>5, <2>1, Smallest
  <2> QED  BY <2>2 DEF Min
<1>7. PICK l \in 0..Finest : verdict = Said(l)
  BY <1>5, <1>6
<1>8. ASSUME verdict = "twins"
      PROVE  \E p, q \in Points : p # q /\ row[p].index = row[q].index
  <2>1. SharesEntry(l)
    BY <1>7, <1>8 DEF Said
  <2> QED  BY <2>1 DEF SharesEntry, Present
<1>9. ASSUME verdict = "noPoint"
      PROVE  \/ \A p \in Points : Laddered(p)
             \/ ~Off /\ config.budgeted # {"point"}
  <2>1. Present(l) = {}
    BY <1>7, <1>9 DEF Said
  <2> QED  BY <1>2, <2>1, NoneAllowed
<1>10. ASSUME verdict = "sum"  PROVE config.factor["point"] = 0
  <2>1. ~SharesEntry(l) /\ Present(l) # {} /\ CountAt(l) # Cardinality(Points)
    BY <1>7, <1>10 DEF Said
  <2>2. ~(l = Finest \/ Width(l, "point") > 0)
    BY <1>2, <2>1, SumsRight
  <2>3. config.factor["point"] \in Nat /\ Gsd[l] \in Nat /\ Gsd[l] > 0
    <3>1. l \in Coarse
      BY <2>2, TableAssumption DEF Coarse
    <3> QED  BY <3>1, TableAssumption, StagesAssumption DEF AssignTypeOK, Kinds
  <2>4. config.factor["point"] # 0 => Gsd[l] * config.factor["point"] \in Nat \ {0}
    BY <2>3, ProductPositive
  <2> QED  BY <2>2, <2>4 DEF Width
<1> QED  BY <1>8, <1>9, <1>10

\* If the tables are accepted every point is counted at every level by one
\* row, itself if it is there; and if they are not, what is said is true: of
\* two points with one index, of a level with no point, where none is allowed
\* to be, and of a sum that is wrong, where points are not thinned by cells.
THEOREM EachPointCounted == TablesSpec => []CountedOnce
<1>1. TablesInit => ClusterInv
  BY ClusterInvInit DEF TablesInit
<1>2. AssignTypeOK /\ BudgetInv /\ ClusterInv /\ [TablesNext]_tableVars => ClusterInv'
  BY ClusterInvStep DEF BudgetInv
<1>3. AssignTypeOK /\ BudgetInv /\ LevelsAreSerial /\ BudgetHolds /\ ClusterInv => CountedOnce
  BY CountedAtEnd, StagesAssumption DEF BudgetInv
<1>4. TablesSpec => []LevelsAreSerial
  BY TablesAssign, AlwaysSerial, PTL
<1> QED  BY <1>1, <1>2, <1>3, <1>4, BudgetInductive, BudgetsKept, PTL DEF TablesSpec

=============================================================================
