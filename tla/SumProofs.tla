----------------------------- MODULE SumProofs -----------------------------
(***************************************************************************)
(* Lemmas that several of the proofs need: least and greatest members,     *)
(* functions defined by recursion over numbers and folds over them, sums   *)
(* over finite sets as the community modules fold them, sums of the        *)
(* beginnings of a sequence, and ranks in a finite order.                  *)
(***************************************************************************)
EXTENDS Integers, Sequences, FiniteSets, FiniteSetsExt, SequencesExt, Functions,
        FiniteSetTheorems, WellFoundedInduction, TLAPS

-----------------------------------------------------------------------------
(* Induction *)

\* A set of naturals that is not empty has a least member.
LEMMA Smallest ==
  ASSUME NEW S \in SUBSET Nat, S # {}
  PROVE  \E x \in S : \A y \in S : x <= y
<1>1. PICK x \in S : \A y \in S : <<y, x>> \notin OpToRel(<, Nat)
  BY NatLessThanWellFounded, WFMin
<1>2. \A y \in S : ~(y < x)
  BY <1>1 DEF OpToRel
<1>3. \A y \in S : x <= y
  BY <1>2
<1> QED  BY <1>3

\* A set of integers with a bound has a greatest member.
LEMMA Greatest ==
  ASSUME NEW S \in SUBSET Int, S # {}, NEW b \in Int, \A x \in S : x <= b
  PROVE  Max(S) \in S /\ \A x \in S : x <= Max(S)
<1> DEFINE Short == {b - x : x \in S}
<1>1. Short \in SUBSET Nat /\ Short # {}
  <2>1. \A x \in S : b - x \in Nat
    OBVIOUS
  <2> QED  BY <2>1
<1>2. PICK m \in Short : \A y \in Short : m <= y
  BY <1>1, Smallest
<1>3. PICK x \in S : m = b - x
  BY <1>2
<1>4. \A y \in S : b - x <= b - y
  BY <1>2, <1>3
<1>5. \A y \in S : x >= y
  BY <1>4
<1>6. Max(S) \in S /\ \A y \in S : Max(S) >= y
  BY <1>3, <1>5 DEF Max
<1>7. \A y \in S : Max(S) \in Int /\ y \in Int
  BY <1>6
<1> QED  BY <1>6, <1>7

-----------------------------------------------------------------------------
(* Sums *)

Picked(s) == CHOOSE x \in s : TRUE

\* F gives the sum of f over each part of D.
Sums(f, D, F) ==
  /\ F \in [SUBSET D -> Nat] /\ F[{}] = 0
  /\ \A s \in SUBSET D : s # {} => F[s] = f[Picked(s)] + F[s \ {Picked(s)}]

\* The same for the parts of at most n members.
Upto(D, n) == {s \in SUBSET D : Cardinality(s) <= n}
SumsUpto(f, D, n, F) ==
  /\ F \in [Upto(D, n) -> Nat] /\ F[{}] = 0
  /\ \A s \in Upto(D, n) : s # {} => F[s] = f[Picked(s)] + F[s \ {Picked(s)}]

\* What the recursion of the fold says of it.
Folds(f, E, G) ==
  \A s \in SUBSET E :
    G[s] = IF s = {} THEN 0 ELSE f[Picked(s)] + G[s \ {Picked(s)}]

Summable(f, g, E) == \A k \in E : f[k] = g[k] /\ f[k] \in Nat

LEMMA OneLess ==
  ASSUME NEW D, IsFiniteSet(D), NEW s \in SUBSET D, NEW x \in s
  PROVE  /\ Picked(s) \in s
         /\ s \ {x} \in SUBSET D
         /\ IsFiniteSet(s) /\ Cardinality(s) \in Nat \ {0}
         /\ Cardinality(s \ {x}) = Cardinality(s) - 1
<1>1. Picked(s) \in s
  BY DEF Picked
<1>2. IsFiniteSet(s) /\ Cardinality(s) \in Nat \ {0}
  BY FS_Subset, FS_CardinalityType, FS_EmptySet
<1>3. Cardinality(s \ {x}) = Cardinality(s) - 1
  BY <1>2, FS_RemoveElement
<1> QED  BY <1>1, <1>2, <1>3

\* What holds of the empty set, and of a set when it holds of the set with any
\* one member less, holds of every part of a finite set: a smallest part it
\* fails for would not be the smallest.
LEMMA SumsExist ==
  ASSUME NEW D, IsFiniteSet(D), NEW f, \A k \in D : f[k] \in Nat
  PROVE  \E F : Sums(f, D, F)
<1> DEFINE Good(n) == \E F : SumsUpto(f, D, n, F)
           Bad == {n \in Nat : ~Good(n)}
<1>1. Good(0)
  <2> DEFINE F == [s \in Upto(D, 0) |-> 0]
  <2>1. ASSUME NEW s \in Upto(D, 0), s # {}  PROVE FALSE
    <3>1. s \in SUBSET D /\ Cardinality(s) <= 0
      BY DEF Upto
    <3>2. PICK x \in s : TRUE
      BY <2>1
    <3>3. Cardinality(s) \in Nat \ {0}
      BY <3>1, <3>2, OneLess
    <3> QED  BY <3>1, <3>3
  <2>2. {} \in Upto(D, 0)
    BY FS_EmptySet DEF Upto
  <2>3. SumsUpto(f, D, 0, F)
    BY <2>1, <2>2 DEF SumsUpto
  <2> QED  BY <2>3
<1>2. ASSUME NEW n \in Nat, Good(n)  PROVE Good(n + 1)
  <2>1. PICK F : SumsUpto(f, D, n, F)
    BY <1>2
  <2> DEFINE G == [s \in Upto(D, n + 1) |->
                    IF s = {} THEN 0 ELSE f[Picked(s)] + F[s \ {Picked(s)}]]
  <2>2. ASSUME NEW s \in Upto(D, n + 1), s # {}
        PROVE  /\ Picked(s) \in D /\ s \ {Picked(s)} \in Upto(D, n)
    <3>1. s \in SUBSET D /\ Cardinality(s) <= n + 1
      BY DEF Upto
    <3>2. Picked(s) \in s
      BY <2>2 DEF Picked
    <3>3. /\ s \ {Picked(s)} \in SUBSET D /\ Cardinality(s) \in Nat
          /\ Cardinality(s \ {Picked(s)}) = Cardinality(s) - 1
      BY <3>1, <3>2, OneLess
    <3> QED  BY <3>1, <3>2, <3>3 DEF Upto
  <2>3. ASSUME NEW s \in Upto(D, n)  PROVE s \in Upto(D, n + 1) /\ G[s] = F[s]
    <3>1. s \in Upto(D, n + 1)
      <4>1. s \in SUBSET D /\ Cardinality(s) <= n
        BY DEF Upto
      <4>2. Cardinality(s) \in Nat
        BY <4>1, FS_Subset, FS_CardinalityType
      <4> QED  BY <4>1, <4>2 DEF Upto
    <3>2. CASE s = {}
      BY <2>1, <3>1, <3>2 DEF SumsUpto
    <3>3. CASE s # {}
      <4>1. F[s] = f[Picked(s)] + F[s \ {Picked(s)}]
        BY <2>1, <3>3 DEF SumsUpto
      <4> QED  BY <3>1, <3>3, <4>1
    <3> QED  BY <3>2, <3>3
  <2>4. G \in [Upto(D, n + 1) -> Nat]
    <3>1. ASSUME NEW s \in Upto(D, n + 1), s # {}
          PROVE  f[Picked(s)] + F[s \ {Picked(s)}] \in Nat
      <4>1. F[s \ {Picked(s)}] \in Nat
        BY <2>1, <2>2, <3>1 DEF SumsUpto
      <4>2. f[Picked(s)] \in Nat
        BY <2>2, <3>1
      <4> QED  BY <4>1, <4>2
    <3> QED  BY <3>1
  <2>5. {} \in Upto(D, n + 1)
    BY FS_EmptySet DEF Upto
  <2>6. G[{}] = 0
    BY <2>5
  <2>7. ASSUME NEW s \in Upto(D, n + 1), s # {}
        PROVE  G[s] = f[Picked(s)] + G[s \ {Picked(s)}]
    <3>1. G[s] = f[Picked(s)] + F[s \ {Picked(s)}]
      BY <2>7
    <3>2. G[s \ {Picked(s)}] = F[s \ {Picked(s)}]
      BY <2>2, <2>3, <2>7
    <3> HIDE DEF G
    <3> QED  BY <3>1, <3>2
  <2> HIDE DEF G
  <2>8. SumsUpto(f, D, n + 1, G)
    BY <2>4, <2>6, <2>7 DEF SumsUpto
  <2> QED  BY <2>8
<1> HIDE DEF Good
<1>3. Bad = {}
  <2>1. SUFFICES ASSUME Bad # {}  PROVE FALSE
    OBVIOUS
  <2>2. PICK n \in Bad : \A m \in Bad : n <= m
    BY <2>1, Smallest
  <2>3. n \in Nat /\ n # 0
    BY <1>1, <2>2
  <2>4. n - 1 \in Nat /\ n - 1 \notin Bad
    BY <2>2, <2>3
  <2>5. Good(n - 1)
    BY <2>4
  <2>6. Good(n - 1 + 1) /\ n - 1 + 1 = n
    BY <1>2, <2>3, <2>4, <2>5
  <2> QED  BY <2>2, <2>6
<1>4. Cardinality(D) \in Nat
  BY FS_CardinalityType
<1>5. PICK F : SumsUpto(f, D, Cardinality(D), F)
  BY <1>3, <1>4 DEF Good
<1>6. Upto(D, Cardinality(D)) = SUBSET D
  BY FS_Subset DEF Upto
<1>7. Sums(f, D, F)
  BY <1>5, <1>6 DEF SumsUpto, Sums
<1> QED  BY <1>7

\* There is one such sum.
LEMMA SumsAgree ==
  ASSUME NEW D, IsFiniteSet(D), NEW E \in SUBSET D,
         NEW f, NEW g, Summable(f, g, E),
         NEW F, Sums(f, D, F), NEW G, Folds(g, E, G)
  PROVE  \A s \in SUBSET E : G[s] = F[s]
<1> DEFINE Odd == {n \in Nat : \E s \in SUBSET E :
                                 Cardinality(s) = n /\ G[s] # F[s]}
<1>1. Odd = {}
  <2>1. SUFFICES ASSUME Odd # {}  PROVE FALSE
    OBVIOUS
  <2>2. PICK n \in Odd : \A m \in Odd : n <= m
    BY <2>1, Smallest
  <2>3. PICK s \in SUBSET E : Cardinality(s) = n /\ G[s] # F[s]
    BY <2>2
  <2>4. s \in SUBSET D
    OBVIOUS
  <2>5. CASE s = {}
    <3>1. F[s] = 0
      BY <2>5 DEF Sums
    <3>2. G[s] = 0
      BY <2>5 DEF Folds
    <3> QED  BY <2>3, <3>1, <3>2
  <2>6. CASE s # {}
    <3> DEFINE x == Picked(s)
    <3>1. x \in s
      BY <2>6 DEF Picked
    <3>2. /\ s \ {x} \in SUBSET E
          /\ Cardinality(s \ {x}) = n - 1 /\ n - 1 \in Nat
      <4>1. /\ Cardinality(s) \in Nat \ {0}
            /\ Cardinality(s \ {x}) = Cardinality(s) - 1
        BY <2>4, <3>1, OneLess
      <4> HIDE DEF x
      <4> QED  BY <2>3, <4>1
    <3>3. n - 1 \notin Odd
      <4>1. n \in Nat /\ ~(n <= n - 1)
        BY <3>2
      <4> HIDE DEF Odd
      <4> QED  BY <2>2, <4>1
    <3>4. G[s \ {x}] = F[s \ {x}]
      BY <3>2, <3>3
    <3>5. F[s] = f[x] + F[s \ {x}]
      BY <2>4, <2>6 DEF Sums
    <3>6. G[s] = g[x] + G[s \ {x}]
      BY <2>6 DEF Folds
    <3>7. f[x] = g[x]
      BY <3>1 DEF Summable
    <3> HIDE DEF x
    <3> QED  BY <2>3, <3>4, <3>5, <3>6, <3>7
  <2> QED  BY <2>5, <2>6
<1>2. ASSUME NEW s \in SUBSET E  PROVE G[s] = F[s]
  <2>1. Cardinality(s) \in Nat
    BY FS_Subset, FS_CardinalityType
  <2> QED  BY <1>1, <2>1
<1> QED  BY <1>2

\* The fold computes it.
LEMMA FoldSums ==
  ASSUME NEW D, IsFiniteSet(D), NEW E \in SUBSET D,
         NEW f, NEW g, Summable(f, g, E),
         NEW F, Sums(f, D, F)
  PROVE  SumFunctionOnSet(g, E) = F[E]
<1> DEFINE Step(h) == [s \in SUBSET E |->
              IF s = {} THEN 0
              ELSE g[CHOOSE x \in s : TRUE] + h[s \ {CHOOSE x \in s : TRUE}]]
           G == CHOOSE h : h = Step(h)
           H == [s \in SUBSET E |-> F[s]]
<1>1. SumFunctionOnSet(g, E) = G[E]
  BY DEF SumFunctionOnSet, FoldFunctionOnSet, MapThenFoldSet
<1>2. H = Step(H)
  <2>1. ASSUME NEW s \in SUBSET E  PROVE H[s] = Step(H)[s]
    <3>1. s \in SUBSET D /\ s \ {Picked(s)} \in SUBSET E
      OBVIOUS
    <3>2. CASE s = {}
      BY <3>2 DEF Sums
    <3>3. CASE s # {}
      <4>1. Picked(s) \in s
        BY <3>3 DEF Picked
      <4>2. F[s] = f[Picked(s)] + F[s \ {Picked(s)}]
        BY <3>1, <3>3 DEF Sums
      <4>3. f[Picked(s)] = g[Picked(s)]
        BY <4>1 DEF Summable
      <4>4. H[s] = F[s] /\ H[s \ {Picked(s)}] = F[s \ {Picked(s)}]
        BY <3>1
      <4>5. Step(H)[s] = g[Picked(s)] + H[s \ {Picked(s)}]
        BY <3>3 DEF Picked
      <4> QED  BY <4>2, <4>3, <4>4, <4>5
    <3> QED  BY <3>2, <3>3
  <2> QED  BY <2>1
<1>3. G = Step(G)
  BY <1>2
<1> HIDE DEF G, H
<1>4. Folds(g, E, G)
  BY <1>3 DEF Folds, Picked
<1> HIDE DEF Step
<1>5. \A s \in SUBSET E : G[s] = F[s]
  BY <1>4, SumsAgree
<1> QED  BY <1>1, <1>5

\* Taking out any one member takes out its value.
LEMMA SumWithout ==
  ASSUME NEW D, IsFiniteSet(D), NEW f, \A k \in D : f[k] \in Nat,
         NEW F, Sums(f, D, F)
  PROVE  \A s \in SUBSET D : \A x \in s : F[s] = f[x] + F[s \ {x}]
<1> DEFINE Right(s) == \A x \in s : F[s] = f[x] + F[s \ {x}]
           Odd == {n \in Nat : \E s \in SUBSET D : Cardinality(s) = n /\ ~Right(s)}
<1>1. Odd = {}
  <2>1. SUFFICES ASSUME Odd # {}  PROVE FALSE
    OBVIOUS
  <2>2. PICK n \in Odd : \A m \in Odd : n <= m
    BY <2>1, Smallest
  <2>3. PICK s \in SUBSET D : Cardinality(s) = n /\ ~Right(s)
    BY <2>2
  <2>4. PICK x \in s : F[s] # f[x] + F[s \ {x}]
    BY <2>3
  <2> DEFINE c == Picked(s)
  <2>5. c \in s
    BY <2>4 DEF Picked
  <2>6. F[s] = f[c] + F[s \ {c}]
    BY <2>4 DEF Sums
  <2>7. c # x
    BY <2>4, <2>6
  <2>8. /\ s \ {c} \in SUBSET D /\ Cardinality(s) \in Nat \ {0}
        /\ Cardinality(s \ {c}) = Cardinality(s) - 1
    BY <2>5, OneLess
  <2>9. /\ s \ {x} \in SUBSET D
        /\ Cardinality(s \ {x}) = Cardinality(s) - 1
    BY <2>4, OneLess
  <2>10. /\ Cardinality(s \ {c}) = n - 1 /\ Cardinality(s \ {x}) = n - 1
         /\ n - 1 \in Nat /\ n - 1 \notin Odd
    <3>1. Cardinality(s) = n
      BY <2>3
    <3> HIDE DEF Odd, Right, c
    <3>2. n - 1 \in Nat /\ ~(n <= n - 1)
      BY <2>8, <3>1
    <3> QED  BY <2>2, <2>8, <2>9, <3>1, <3>2
  <2>11. Right(s \ {c}) /\ Right(s \ {x})
    BY <2>8, <2>9, <2>10
  <2>12. x \in s \ {c} /\ c \in s \ {x}
    BY <2>5, <2>7
  <2>13. /\ F[s \ {c}] = f[x] + F[(s \ {c}) \ {x}]
         /\ F[s \ {x}] = f[c] + F[(s \ {x}) \ {c}]
    BY <2>11, <2>12
  <2>14. (s \ {c}) \ {x} = (s \ {x}) \ {c}
    OBVIOUS
  <2> DEFINE r == (s \ {x}) \ {c}
  <2>15. F[r] \in Nat /\ f[x] \in Nat /\ f[c] \in Nat
    <3>1. r \in SUBSET D /\ x \in D /\ c \in D
      BY <2>5
    <3> QED  BY <3>1 DEF Sums
  <2>16. F[s \ {c}] = f[x] + F[r] /\ F[s \ {x}] = f[c] + F[r]
    BY <2>13, <2>14
  <2> HIDE DEF c, r
  <2> QED  BY <2>4, <2>6, <2>15, <2>16
<1>2. ASSUME NEW s \in SUBSET D  PROVE Right(s)
  <2>1. Cardinality(s) \in Nat
    BY FS_Subset, FS_CardinalityType
  <2> QED  BY <1>1, <2>1
<1> QED  BY <1>2

\* The sum over two sets that are apart.
LEMMA SumApart ==
  ASSUME NEW D, IsFiniteSet(D), NEW f, Summable(f, f, D),
         NEW F, Sums(f, D, F), NEW a \in SUBSET D
  PROVE  \A b \in SUBSET D : a \cap b = {} => F[a \cup b] = F[a] + F[b]
<1> DEFINE Right(b) == a \cap b = {} => F[a \cup b] = F[a] + F[b]
           Odd == {n \in Nat : \E b \in SUBSET D : Cardinality(b) = n /\ ~Right(b)}
<1>0. (\A s \in SUBSET D : F[s] \in Nat) /\ \A k \in D : f[k] \in Nat
  BY DEF Sums, Summable
<1>1. Odd = {}
  <2>1. SUFFICES ASSUME Odd # {}  PROVE FALSE
    OBVIOUS
  <2>2. PICK n \in Odd : \A m \in Odd : n <= m
    BY <2>1, Smallest
  <2>3. PICK b \in SUBSET D : Cardinality(b) = n /\ ~Right(b)
    BY <2>2
  <2>4. CASE b = {}
    <3>1. a \cup b = a /\ F[b] = 0
      BY <2>4 DEF Sums
    <3>2. F[a] + 0 = F[a]
      BY <1>0
    <3> QED  BY <2>3, <3>1, <3>2
  <2>5. CASE b # {}
    <3>1. PICK x \in b : TRUE
      BY <2>5
    <3> DEFINE c == b \ {x}
    <3>2. /\ c \in SUBSET D /\ Cardinality(c) = n - 1 /\ n - 1 \in Nat
          /\ ~(n <= n - 1)
      <4>1. /\ b \ {x} \in SUBSET D /\ Cardinality(b) \in Nat \ {0}
            /\ Cardinality(b \ {x}) = Cardinality(b) - 1
        BY <3>1, OneLess
      <4>2. Cardinality(b) = n
        BY <2>3
      <4> HIDE DEF Odd, Right
      <4> QED  BY <4>1, <4>2
    <3>3. n - 1 \notin Odd
      <4> HIDE DEF Odd
      <4> QED  BY <2>2, <3>2
    <3>4. Right(c)
      BY <3>2, <3>3
    <3>5. a \cap b = {} /\ F[a \cup b] # F[a] + F[b]
      BY <2>3
    <3>6. a \cap c = {} /\ x \notin a /\ x \in a \cup b /\ (a \cup b) \ {x} = a \cup c
      BY <3>5
    <3>7. F[a \cup c] = F[a] + F[c]
      BY <3>4, <3>6
    <3>8. a \cup b \in SUBSET D
      OBVIOUS
    <3>9. F[a \cup b] = f[x] + F[(a \cup b) \ {x}]
      <4>1. PICK s \in SUBSET D : s = a \cup b
        BY <3>8
      <4>2. x \in s
        BY <3>6, <4>1
      <4> HIDE DEF Odd, Right
      <4>3. F[s] = f[x] + F[s \ {x}]
        BY <1>0, <4>2, SumWithout
      <4> QED  BY <4>1, <4>3
    <3>10. F[b] = f[x] + F[c]
      BY <1>0, <3>1, SumWithout
    <3>11. F[a \cup b] = f[x] + F[a \cup c]
      BY <3>6, <3>9
    <3>12. f[x] \in Nat /\ F[a] \in Nat /\ F[c] \in Nat
      BY <1>0, <3>2
    <3> HIDE DEF c
    <3> QED  BY <3>5, <3>7, <3>10, <3>11, <3>12
  <2> QED  BY <2>4, <2>5
<1>2. ASSUME NEW b \in SUBSET D  PROVE Right(b)
  <2>1. Cardinality(b) \in Nat
    BY FS_Subset, FS_CardinalityType
  <2> QED  BY <1>1, <2>1
<1> QED  BY <1>2

\* What is used of sums from here on.
LEMMA Summing ==
  ASSUME NEW D, IsFiniteSet(D), NEW f, Summable(f, f, D)
  PROVE  /\ \A s \in SUBSET D : SumFunctionOnSet(f, s) \in Nat
         /\ SumFunctionOnSet(f, {}) = 0
         /\ \A x \in D : SumFunctionOnSet(f, {x}) = f[x]
         /\ \A a, b \in SUBSET D : a \cap b = {} =>
              SumFunctionOnSet(f, a \cup b)
                = SumFunctionOnSet(f, a) + SumFunctionOnSet(f, b)
<1>0. \A k \in D : f[k] \in Nat
  BY DEF Summable
<1>1. PICK F : Sums(f, D, F)
  BY <1>0, SumsExist
<1>2. \A s \in SUBSET D : SumFunctionOnSet(f, s) = F[s]
  BY <1>1, FoldSums DEF Summable
<1>3. \A s \in SUBSET D : F[s] \in Nat
  BY <1>1 DEF Sums
<1>4. F[{}] = 0 /\ {} \in SUBSET D
  BY <1>1 DEF Sums
<1>5. ASSUME NEW x \in D  PROVE F[{x}] = f[x]
  <2>1. {x} \in SUBSET D /\ x \in {x} /\ {x} \ {x} = {}
    OBVIOUS
  <2>2. F[{x}] = f[x] + F[{x} \ {x}]
    BY <1>0, <1>1, <2>1, SumWithout
  <2>3. F[{x}] = f[x] + 0
    BY <1>4, <2>1, <2>2
  <2> QED  BY <1>0, <2>3
<1>6. ASSUME NEW a \in SUBSET D, NEW b \in SUBSET D, a \cap b = {}
      PROVE  F[a \cup b] = F[a] + F[b]
  BY <1>1, <1>6, SumApart
<1>7. \A a, b \in SUBSET D : a \cup b \in SUBSET D
  OBVIOUS
<1> QED  BY <1>2, <1>3, <1>4, <1>5, <1>6, <1>7

LEMMA SameSum ==
  ASSUME NEW D, IsFiniteSet(D), NEW f, NEW g,
         \A k \in D : f[k] = g[k] /\ f[k] \in Nat
  PROVE  SumFunctionOnSet(g, D) = SumFunctionOnSet(f, D)
<1>1. PICK F : Sums(f, D, F)
  BY SumsExist
<1>2. SumFunctionOnSet(g, D) = F[D] /\ SumFunctionOnSet(f, D) = F[D]
  BY <1>1, FoldSums DEF Summable
<1> QED  BY <1>2

\* The sum of sums.
LEMMA SumPlus ==
  ASSUME NEW D, IsFiniteSet(D), NEW f, NEW g, NEW h,
         \A k \in D : f[k] \in Nat /\ g[k] \in Nat /\ h[k] = f[k] + g[k]
  PROVE  SumFunctionOnSet(h, D) = SumFunctionOnSet(f, D) + SumFunctionOnSet(g, D)
<1>1. PICK F : Sums(f, D, F)
  BY SumsExist
<1>2. PICK G : Sums(g, D, G)
  BY SumsExist
<1> DEFINE H == [s \in SUBSET D |-> F[s] + G[s]]
<1>3. Sums(h, D, H)
  <2>1. \A s \in SUBSET D : F[s] \in Nat /\ G[s] \in Nat
    BY <1>1, <1>2 DEF Sums
  <2>2. H \in [SUBSET D -> Nat]
    BY <2>1
  <2>3. H[{}] = 0
    <3>1. F[{}] = 0 /\ G[{}] = 0 /\ H[{}] = F[{}] + G[{}]
      BY <1>1, <1>2 DEF Sums
    <3> QED  BY <3>1
  <2>4. ASSUME NEW s \in SUBSET D, s # {}
        PROVE  H[s] = h[Picked(s)] + H[s \ {Picked(s)}]
    <3> DEFINE x == Picked(s)
               r == s \ {Picked(s)}
    <3>1. x \in D /\ r \in SUBSET D
      BY <2>4 DEF Picked
    <3>2. F[s] = f[x] + F[r] /\ G[s] = g[x] + G[r]
      BY <1>1, <1>2, <2>4 DEF Sums
    <3>3. h[x] = f[x] + g[x] /\ f[x] \in Nat /\ g[x] \in Nat
      BY <3>1
    <3>4. F[r] \in Nat /\ G[r] \in Nat
      BY <2>1, <3>1
    <3>5. H[s] = F[s] + G[s] /\ H[r] = F[r] + G[r]
      BY <3>1
    <3> HIDE DEF x, r, H
    <3>6. H[s] = h[x] + H[r]
      BY <3>2, <3>3, <3>4, <3>5
    <3> QED  BY <3>6 DEF x, r
  <2> HIDE DEF H
  <2> QED  BY <2>2, <2>3, <2>4 DEF Sums
<1>4. /\ SumFunctionOnSet(f, D) = F[D] /\ SumFunctionOnSet(g, D) = G[D]
      /\ SumFunctionOnSet(h, D) = H[D]
  <2>1. Summable(f, f, D) /\ Summable(g, g, D) /\ Summable(h, h, D)
    BY DEF Summable
  <2>2. D \in SUBSET D
    OBVIOUS
  <2> HIDE DEF H
  <2>3. SumFunctionOnSet(f, D) = F[D]
    BY <1>1, <2>1, <2>2, FoldSums
  <2>4. SumFunctionOnSet(g, D) = G[D]
    BY <1>2, <2>1, <2>2, FoldSums
  <2>5. SumFunctionOnSet(h, D) = H[D]
    BY <1>3, <2>1, <2>2, FoldSums
  <2> QED  BY <2>3, <2>4, <2>5
<1> QED  BY <1>4

LEMMA SumScaled ==
  ASSUME NEW D, IsFiniteSet(D), NEW f, NEW c \in Nat, NEW h,
         \A k \in D : f[k] \in Nat /\ h[k] = f[k] * c
  PROVE  SumFunctionOnSet(h, D) = SumFunctionOnSet(f, D) * c
<1>1. PICK F : Sums(f, D, F)
  BY SumsExist
<1> DEFINE H == [s \in SUBSET D |-> F[s] * c]
<1>0. \A a, b \in Nat : a * c \in Nat /\ (a + b) * c = a * c + b * c
  OBVIOUS
<1>2. Sums(h, D, H)
  <2>1. \A s \in SUBSET D : F[s] \in Nat
    BY <1>1 DEF Sums
  <2>2. H \in [SUBSET D -> Nat]
    BY <1>0, <2>1
  <2>3. H[{}] = 0
    <3>1. F[{}] = 0 /\ H[{}] = F[{}] * c
      BY <1>1 DEF Sums
    <3> QED  BY <3>1
  <2>4. ASSUME NEW s \in SUBSET D, s # {}
        PROVE  H[s] = h[Picked(s)] + H[s \ {Picked(s)}]
    <3> DEFINE x == Picked(s)
               r == s \ {Picked(s)}
    <3>1. x \in D /\ r \in SUBSET D
      BY <2>4 DEF Picked
    <3>2. F[s] = f[x] + F[r]
      BY <1>1, <2>4 DEF Sums
    <3>3. h[x] = f[x] * c /\ f[x] \in Nat
      BY <3>1
    <3>4. F[r] \in Nat
      BY <2>1, <3>1
    <3>5. H[s] = F[s] * c /\ H[r] = F[r] * c
      BY <3>1
    <3> HIDE DEF x, r, H
    <3>6. (f[x] + F[r]) * c = f[x] * c + F[r] * c
      BY <1>0, <3>3, <3>4
    <3>7. H[s] = h[x] + H[r]
      BY <3>2, <3>3, <3>5, <3>6
    <3> QED  BY <3>7 DEF x, r
  <2> HIDE DEF H
  <2> QED  BY <2>2, <2>3, <2>4 DEF Sums
<1>3. SumFunctionOnSet(f, D) = F[D] /\ SumFunctionOnSet(h, D) = H[D]
  <2>1. Summable(f, f, D) /\ Summable(h, h, D)
    BY <1>0 DEF Summable
  <2> HIDE DEF H
  <2> QED  BY <1>1, <1>2, <2>1, FoldSums
<1> QED  BY <1>3

\* A sum of no more, member by member, is no more.
LEMMA SumMonotone ==
  ASSUME NEW D, IsFiniteSet(D), NEW f, NEW g,
         \A k \in D : f[k] \in Nat /\ g[k] \in Nat /\ f[k] <= g[k]
  PROVE  /\ SumFunctionOnSet(f, D) \in Nat /\ SumFunctionOnSet(g, D) \in Nat
         /\ SumFunctionOnSet(f, D) <= SumFunctionOnSet(g, D)
<1> DEFINE d == [k \in D |-> g[k] - f[k]]
<1>1. \A k \in D : d[k] \in Nat /\ g[k] = f[k] + d[k]
  OBVIOUS
<1> HIDE DEF d
<1>2. SumFunctionOnSet(g, D) = SumFunctionOnSet(f, D) + SumFunctionOnSet(d, D)
  BY <1>1, SumPlus
<1>3. Summable(f, f, D) /\ Summable(d, d, D)
  BY <1>1 DEF Summable
<1>4. D \in SUBSET D
  OBVIOUS
<1>5. SumFunctionOnSet(f, D) \in Nat /\ SumFunctionOnSet(d, D) \in Nat
  BY <1>3, <1>4, Summing
<1> QED  BY <1>2, <1>5

\* Sets that are apart have together the sum of their sizes.
LEMMA SumOfSizes ==
  ASSUME NEW D, IsFiniteSet(D), NEW f, NEW n,
         \A k \in D : IsFiniteSet(f[k]) /\ n[k] = Cardinality(f[k]),
         \A j, k \in D : j # k => f[j] \cap f[k] = {}
  PROVE  /\ IsFiniteSet(UNION {f[k] : k \in D})
         /\ Cardinality(UNION {f[k] : k \in D}) = SumFunctionOnSet(n, D)
<1> DEFINE All(s) == UNION {f[k] : k \in s}
           H == [s \in SUBSET D |-> Cardinality(All(s))]
<1>1. ASSUME NEW s \in SUBSET D  PROVE IsFiniteSet(All(s))
  <2>1. IsFiniteSet(s)
    BY FS_Subset
  <2> DEFINE g == [k \in s |-> f[k]]
             T == {f[k] : k \in s}
  <2>2. g \in Surjection(s, T)
    BY DEF Surjection
  <2>3. IsFiniteSet(T)
    <3> HIDE DEF g, T
    <3> QED  BY <2>1, <2>2, FS_Surjection
  <2>4. \A t \in T : IsFiniteSet(t)
    OBVIOUS
  <2> HIDE DEF T
  <2>5. IsFiniteSet(UNION T)
    BY <2>3, <2>4, FS_UNION
  <2> QED  BY <2>5 DEF T
<1>2. Sums(n, D, H)
  <2>1. H \in [SUBSET D -> Nat]
    <3>1. \A s \in SUBSET D : Cardinality(All(s)) \in Nat
      BY <1>1, FS_CardinalityType
    <3> HIDE DEF All
    <3> QED  BY <3>1
  <2>2. H[{}] = 0
    <3>1. All({}) = {}
      OBVIOUS
    <3>2. H[{}] = Cardinality(All({}))
      OBVIOUS
    <3> QED  BY <3>1, <3>2, FS_EmptySet
  <2>3. ASSUME NEW s \in SUBSET D, s # {}
        PROVE  H[s] = n[Picked(s)] + H[s \ {Picked(s)}]
    <3> DEFINE x == Picked(s)
               r == s \ {Picked(s)}
    <3>1. x \in s /\ x \in D /\ r \in SUBSET D
      BY <2>3 DEF Picked
    <3>2. All(s) = f[x] \cup All(r)
      <4>1. s = {x} \cup r
        BY <3>1
      <4> HIDE DEF x, r
      <4> QED  BY <4>1
    <3>3. f[x] \cap All(r) = {}
      <4>1. \A k \in r : k \in D /\ k # x
        OBVIOUS
      <4> HIDE DEF x, r
      <4> QED  BY <3>1, <4>1
    <3>4. IsFiniteSet(f[x]) /\ IsFiniteSet(All(r))
      <4> HIDE DEF x, r, All
      <4> QED  BY <1>1, <3>1
    <3> HIDE DEF x, r, All
    <3>5. Cardinality(All(s)) = Cardinality(f[x]) + Cardinality(All(r)) - Cardinality({})
      BY <3>2, <3>3, <3>4, FS_Union
    <3>6. /\ Cardinality({}) = 0 /\ n[x] = Cardinality(f[x])
          /\ Cardinality(f[x]) \in Nat /\ Cardinality(All(r)) \in Nat
      BY <3>1, <3>4, FS_EmptySet, FS_CardinalityType
    <3>7. H[s] = Cardinality(All(s)) /\ H[r] = Cardinality(All(r))
      BY <3>1
    <3> HIDE DEF H
    <3>8. H[s] = n[x] + H[r]
      BY <3>5, <3>6, <3>7
    <3> QED  BY <3>8 DEF x, r
  <2> HIDE DEF H
  <2> QED  BY <2>1, <2>2, <2>3 DEF Sums
<1>3. Summable(n, n, D)
  <2>1. \A k \in D : Cardinality(f[k]) \in Nat
    BY FS_CardinalityType
  <2> QED  BY <2>1 DEF Summable
<1>4. SumFunctionOnSet(n, D) = H[D]
  <2> HIDE DEF H
  <2> QED  BY <1>2, <1>3, FoldSums
<1>5. IsFiniteSet(All(D))
  <2> HIDE DEF All
  <2> QED  BY <1>1
<1> QED  BY <1>4, <1>5

\* A sum of ones counts.
LEMMA SumOfOnes ==
  ASSUME NEW D, IsFiniteSet(D), NEW n, \A k \in D : n[k] = 1
  PROVE  SumFunctionOnSet(n, D) = Cardinality(D)
<1> DEFINE f == [k \in D |-> {k}]
<1>1. \A k \in D : IsFiniteSet(f[k]) /\ n[k] = Cardinality(f[k])
  BY FS_Singleton
<1>2. \A j, k \in D : j # k => f[j] \cap f[k] = {}
  OBVIOUS
<1>3. UNION {f[k] : k \in D} = D
  OBVIOUS
<1> HIDE DEF f
<1>4. Cardinality(UNION {f[k] : k \in D}) = SumFunctionOnSet(n, D)
  BY <1>1, <1>2, SumOfSizes
<1> QED  BY <1>3, <1>4

\* And counts a part, if what is not of it is zero.
LEMMA SumOfMarks ==
  ASSUME NEW D, IsFiniteSet(D), NEW T \in SUBSET D, NEW n,
         \A k \in D : n[k] = IF k \in T THEN 1 ELSE 0
  PROVE  SumFunctionOnSet(n, D) = Cardinality(T)
<1> DEFINE f == [k \in D |-> IF k \in T THEN {k} ELSE {}]
<1>1. \A k \in D : IsFiniteSet(f[k]) /\ n[k] = Cardinality(f[k])
  BY FS_Singleton, FS_EmptySet
<1>2. \A j, k \in D : j # k => f[j] \cap f[k] = {}
  OBVIOUS
<1>3. UNION {f[k] : k \in D} = T
  OBVIOUS
<1> HIDE DEF f
<1>4. Cardinality(UNION {f[k] : k \in D}) = SumFunctionOnSet(n, D)
  BY <1>1, <1>2, SumOfSizes
<1> QED  BY <1>3, <1>4

\* What is summed over the first k grows by the k-th at a time.
LEMMA PrefixSums ==
  ASSUME NEW n \in Nat, NEW f, \A i \in 1..n : f[i] \in Nat
  PROVE  /\ SumFunctionOnSet(f, 1..0) = 0
         /\ \A k \in 0..n : SumFunctionOnSet(f, 1..k) \in Nat
         /\ \A k \in 1..n :
              SumFunctionOnSet(f, 1..k) = SumFunctionOnSet(f, 1..(k - 1)) + f[k]
<1> DEFINE D == 1..n
<1>1. IsFiniteSet(D)
  BY FS_Interval
<1>2. Summable(f, f, D)
  BY DEF Summable
<1>3. /\ \A s \in SUBSET D : SumFunctionOnSet(f, s) \in Nat
      /\ SumFunctionOnSet(f, {}) = 0
      /\ \A x \in D : SumFunctionOnSet(f, {x}) = f[x]
      /\ \A a, b \in SUBSET D : a \cap b = {} =>
           SumFunctionOnSet(f, a \cup b)
             = SumFunctionOnSet(f, a) + SumFunctionOnSet(f, b)
  <2> HIDE DEF D
  <2>1. /\ \A s \in SUBSET D : SumFunctionOnSet(f, s) \in Nat
        /\ SumFunctionOnSet(f, {}) = 0
    BY <1>1, <1>2, Summing
  <2>2. \A x \in D : SumFunctionOnSet(f, {x}) = f[x]
    BY <1>1, <1>2, Summing
  <2>3. ASSUME NEW a \in SUBSET D, NEW b \in SUBSET D, a \cap b = {}
        PROVE  SumFunctionOnSet(f, a \cup b)
                 = SumFunctionOnSet(f, a) + SumFunctionOnSet(f, b)
    BY <1>1, <1>2, <2>3, Summing
  <2> QED  BY <2>1, <2>2, <2>3
<1>4. 1..0 = {} /\ \A k \in 0..n : 1..k \in SUBSET D
  OBVIOUS
<1>5. ASSUME NEW k \in 1..n
      PROVE  SumFunctionOnSet(f, 1..k) = SumFunctionOnSet(f, 1..(k - 1)) + f[k]
  <2>1. /\ 1..(k - 1) \in SUBSET D /\ {k} \in SUBSET D /\ k \in D
        /\ 1..(k - 1) \cap {k} = {} /\ 1..k = (1..(k - 1)) \cup {k}
    OBVIOUS
  <2> HIDE DEF D
  <2>2. PICK a \in SUBSET D : a = 1..(k - 1)
    BY <2>1
  <2>3. SumFunctionOnSet(f, a \cup {k}) = SumFunctionOnSet(f, a) + SumFunctionOnSet(f, {k})
    BY <1>3, <2>1, <2>2
  <2>4. SumFunctionOnSet(f, {k}) = f[k] /\ a \cup {k} = 1..k
    BY <1>3, <2>1, <2>2
  <2> QED  BY <2>2, <2>3, <2>4
<1> HIDE DEF D
<1> QED  BY <1>3, <1>4, <1>5

-----------------------------------------------------------------------------
(* Ranks *)

\* R orders S, strictly and in one line.
Ordering(R, S) ==
  /\ \A x \in S : <<x, x>> \notin R
  /\ \A x, y, z \in S : <<x, y>> \in R /\ <<y, z>> \in R => <<x, z>> \in R
  /\ \A x, y \in S : x # y => <<x, y>> \in R \/ <<y, x>> \in R

Below(R, S, x) == {y \in S : <<y, x>> \in R}

LEMMA RankLess ==
  ASSUME NEW S, IsFiniteSet(S), NEW R, Ordering(R, S), NEW x \in S
  PROVE  /\ IsFiniteSet(Below(R, S, x)) /\ Cardinality(Below(R, S, x)) \in Nat
         /\ Cardinality(Below(R, S, x)) < Cardinality(S)
         /\ \A y \in S : <<y, x>> \in R =>
              Cardinality(Below(R, S, y)) < Cardinality(Below(R, S, x))
<1> DEFINE B(z) == Below(R, S, z)
<1>1. \A z \in S : /\ B(z) \subseteq S /\ z \notin B(z)
                   /\ IsFiniteSet(B(z)) /\ Cardinality(B(z)) \in Nat
  <2>1. \A z \in S : B(z) \subseteq S /\ z \notin B(z)
    BY DEF Below, Ordering
  <2> HIDE DEF B
  <2> QED  BY <2>1, FS_Subset, FS_CardinalityType
<1>2. Cardinality(S) \in Nat
  BY FS_CardinalityType
<1>3. Cardinality(B(x)) < Cardinality(S)
  <2> HIDE DEF B
  <2>1. Cardinality(B(x)) <= Cardinality(S) /\ (Cardinality(S) = Cardinality(B(x)) => S = B(x))
    BY <1>1, FS_Subset
  <2>2. S # B(x)
    BY <1>1
  <2> QED  BY <1>1, <1>2, <2>1, <2>2
<1>4. ASSUME NEW y \in S, <<y, x>> \in R
      PROVE  Cardinality(B(y)) < Cardinality(B(x))
  <2>1. B(y) \subseteq B(x) /\ y \in B(x)
    BY <1>4 DEF Below, Ordering
  <2> HIDE DEF B
  <2>2. /\ Cardinality(B(y)) <= Cardinality(B(x))
        /\ Cardinality(B(x)) = Cardinality(B(y)) => B(x) = B(y)
    BY <1>1, <2>1, FS_Subset
  <2>3. B(x) # B(y)
    BY <1>1, <2>1
  <2> QED  BY <1>1, <2>2, <2>3
<1> QED  BY <1>1, <1>3, <1>4

\* So many have a rank below n as n says, if there are so many.
LEMMA RankCount ==
  ASSUME NEW S, IsFiniteSet(S), NEW R, Ordering(R, S), NEW n \in Nat
  PROVE  LET T == {x \in S : Cardinality(Below(R, S, x)) < n}
         IN  /\ IsFiniteSet(T)
             /\ n <= Cardinality(S) => Cardinality(T) = n
             /\ n >= Cardinality(S) => T = S
<1> DEFINE rank == [x \in S |-> Cardinality(Below(R, S, x))]
           T == {x \in S : Cardinality(Below(R, S, x)) < n}
           m == Cardinality(S)
<1>1. m \in Nat
  BY FS_CardinalityType
<1>2. rank \in [S -> 0..(m - 1)]
  <2>1. \A x \in S : Cardinality(Below(R, S, x)) \in 0..(m - 1)
    <3>1. \A x \in S : /\ Cardinality(Below(R, S, x)) \in Nat
                       /\ Cardinality(Below(R, S, x)) < m
      BY RankLess
    <3> HIDE DEF m
    <3> QED  BY <1>1, <3>1
  <2> QED  BY <2>1
<1>3. \A x, y \in S : rank[x] = rank[y] => x = y
  <2>1. SUFFICES ASSUME NEW x \in S, NEW y \in S, rank[x] = rank[y], x # y
                 PROVE  FALSE
    OBVIOUS
  <2>2. <<x, y>> \in R \/ <<y, x>> \in R
    BY <2>1 DEF Ordering
  <2>3. /\ <<x, y>> \in R => Cardinality(Below(R, S, x)) < Cardinality(Below(R, S, y))
        /\ <<y, x>> \in R => Cardinality(Below(R, S, y)) < Cardinality(Below(R, S, x))
    BY RankLess
  <2>4. Cardinality(Below(R, S, x)) \in Nat /\ Cardinality(Below(R, S, y)) \in Nat
    BY RankLess
  <2>5. Cardinality(Below(R, S, x)) = Cardinality(Below(R, S, y))
    BY <2>1
  <2> QED  BY <2>2, <2>3, <2>4, <2>5
<1>4. \A k \in 0..(m - 1) : \E x \in S : rank[x] = k
  <2>1. rank \in Injection(S, 0..(m - 1))
    <3> HIDE DEF rank
    <3> QED  BY <1>2, <1>3 DEF Injection, IsInjective
  <2>2. IsFiniteSet(0..(m - 1)) /\ Cardinality(0..(m - 1)) = m
    <3>1. 0 \in Int /\ m - 1 \in Int
      BY <1>1
    <3>2. IsFiniteSet(0..(m - 1)) /\ Cardinality(0..(m - 1)) = IF 0 > m - 1 THEN 0 ELSE (m - 1) - 0 + 1
      <4> HIDE DEF m
      <4> QED  BY <3>1, FS_Interval
    <3> HIDE DEF m
    <3> QED  BY <1>1, <3>2
  <2> HIDE DEF rank
  <2>3. rank \in Surjection(S, 0..(m - 1))
    BY <2>1, <2>2, FS_Injection
  <2> QED  BY <2>3 DEF Surjection
<1>5. IsFiniteSet(T)
  BY FS_Subset
<1>6. ASSUME n <= m  PROVE Cardinality(T) = n
  <2> DEFINE low == [x \in T |-> rank[x]]
  <2>1. low \in [T -> 0..(n - 1)]
    <3>1. \A x \in T : rank[x] \in 0..(m - 1) /\ rank[x] < n
      BY <1>2
    <3>2. \A x \in T : rank[x] \in 0..(n - 1)
      <4> HIDE DEF m, T, rank
      <4> QED  BY <1>1, <3>1
    <3> QED  BY <3>2
  <2>2. \A x, y \in T : low[x] = low[y] => x = y
    BY <1>3
  <2>3. \A k \in 0..(n - 1) : \E x \in T : low[x] = k
    <3>1. SUFFICES ASSUME NEW k \in 0..(n - 1)  PROVE \E x \in T : low[x] = k
      OBVIOUS
    <3>2. k \in 0..(m - 1) /\ k < n
      <4> HIDE DEF m
      <4> QED  BY <1>1, <1>6
    <3>3. PICK x \in S : rank[x] = k
      BY <1>4, <3>2
    <3>4. x \in T
      BY <3>2, <3>3
    <3> QED  BY <3>3, <3>4
  <2>4. low \in Bijection(T, 0..(n - 1))
    <3> HIDE DEF low, T
    <3> QED  BY <2>1, <2>2, <2>3 DEF Bijection, Injection, Surjection, IsInjective
  <2>5. Cardinality(0..(n - 1)) = Cardinality(T)
    <3> HIDE DEF low, T
    <3> QED  BY <1>5, <2>4, FS_Bijection DEF ExistsBijection
  <2>6. Cardinality(0..(n - 1)) = n
    <3>1. 0 \in Int /\ n - 1 \in Int
      OBVIOUS
    <3>2. Cardinality(0..(n - 1)) = IF 0 > n - 1 THEN 0 ELSE (n - 1) - 0 + 1
      BY <3>1, FS_Interval
    <3> QED  BY <3>2
  <2> QED  BY <2>5, <2>6
<1>7. ASSUME n >= m  PROVE T = S
  <2>1. \A x \in S : /\ Cardinality(Below(R, S, x)) \in Nat
                     /\ Cardinality(Below(R, S, x)) < m
    BY RankLess
  <2>2. \A x \in S : Cardinality(Below(R, S, x)) < n
    <3> HIDE DEF m
    <3> QED  BY <1>1, <1>7, <2>1
  <2> QED  BY <2>2
<1> QED  BY <1>5, <1>6, <1>7

\* As many ranks as there are.
LEMMA Ranking ==
  ASSUME NEW S, IsFiniteSet(S), NEW R, Ordering(R, S)
  PROVE  LET rank(x) == Cardinality(Below(R, S, x))
         IN  /\ Cardinality(S) \in Nat
             /\ \A x \in S : rank(x) \in 0..(Cardinality(S) - 1)
             /\ \A i \in 1..Cardinality(S) : \E x \in S : rank(x) = i - 1
             /\ \A x, y \in S : rank(x) = rank(y) => x = y
             /\ \A x, y \in S : rank(x) < rank(y) <=> <<x, y>> \in R
<1> DEFINE r == [x \in S |-> Cardinality(Below(R, S, x))]
           n == Cardinality(S)
           T(k) == {x \in S : r[x] < k}
<1>1. n \in Nat
  BY FS_CardinalityType
<1>2. \A x \in S : r[x] \in Nat /\ r[x] < n
  BY RankLess
<1>3. \A x, y \in S : <<x, y>> \in R => r[x] < r[y]
  BY RankLess
<1>4. \A k \in 0..n : Cardinality(T(k)) = k /\ IsFiniteSet(T(k))
  <2>1. ASSUME NEW k \in 0..n  PROVE Cardinality(T(k)) = k /\ IsFiniteSet(T(k))
    <3>1. k \in Nat /\ k <= n
      BY <1>1
    <3> DEFINE U == {x \in S : Cardinality(Below(R, S, x)) < k}
    <3>2. T(k) = U
      OBVIOUS
    <3> HIDE DEF T
    <3>3. IsFiniteSet(U) /\ Cardinality(U) = k
      BY <3>1, RankCount
    <3> QED  BY <3>2, <3>3
  <2> QED  BY <2>1
<1> HIDE DEF r, n
<1>5. ASSUME NEW i \in 1..n  PROVE \E x \in S : r[x] = i - 1
  <2>1. SUFFICES ASSUME \A x \in S : r[x] # i - 1  PROVE FALSE
    OBVIOUS
  <2>2. i \in 0..n /\ i - 1 \in 0..n
    BY <1>1
  <2>3. T(i) = T(i - 1)
    BY <1>2, <2>1
  <2> HIDE DEF T
  <2> QED  BY <1>4, <2>2, <2>3
<1>6. \A x, y \in S : r[x] = r[y] => x = y
  <2>1. \A x, y \in S : x # y => <<x, y>> \in R \/ <<y, x>> \in R
    BY DEF Ordering
  <2>2. \A x, y \in S : x = y \/ r[x] < r[y] \/ r[y] < r[x]
    BY <1>3, <2>1
  <2>3. \A x \in S : r[x] \in Nat
    BY <1>2
  <2> QED  BY ONLY <1>3, <2>1, <2>2, <2>3
<1>7. \A x, y \in S : r[x] < r[y] <=> <<x, y>> \in R
  <2>1. ASSUME NEW x \in S, NEW y \in S, r[x] < r[y]  PROVE <<x, y>> \in R
    <3>1. r[x] \in Nat /\ r[y] \in Nat /\ ~(r[y] < r[x])
      BY <1>2, <2>1
    <3>2. <<y, x>> \notin R /\ x # y
      BY <1>3, <2>1, <3>1
    <3> QED  BY <3>2 DEF Ordering
  <2> QED  BY <1>3, <2>1
<1>8. \A x \in S : r[x] \in 0..(n - 1)
  BY <1>1, <1>2
<1> QED  BY <1>1, <1>5, <1>6, <1>7, <1>8 DEF r, n

\* What is mapped to as many is as many.
LEMMA SameCount ==
  ASSUME NEW S, IsFiniteSet(S), NEW f, \A x, y \in S : f[x] = f[y] => x = y
  PROVE  /\ IsFiniteSet({f[x] : x \in S})
         /\ Cardinality({f[x] : x \in S}) = Cardinality(S)
<1> DEFINE T == {f[x] : x \in S}
           g == [x \in S |-> f[x]]
<1>1. g \in [S -> T] /\ \A t \in T : \E x \in S : g[x] = t
  OBVIOUS
<1>2. \A x, y \in S : g[x] = g[y] => x = y
  OBVIOUS
<1> HIDE DEF g, T
<1>3. g \in Bijection(S, T)
  BY <1>1, <1>2 DEF Bijection, Injection, Surjection, IsInjective
<1>4. IsFiniteSet(T) /\ Cardinality(T) = Cardinality(S)
  BY <1>3, FS_Bijection DEF ExistsBijection
<1> QED  BY <1>4 DEF T

\* s tells the n members of S, in the order R.
Tells(s, n, R, S) ==
  /\ n \in Nat /\ \A i \in 1..n : s[i] \in S
  /\ \A x \in S : \E i \in 1..n : s[i] = x
  /\ \A i, j \in 1..n : i < j => <<s[i], s[j]>> \in R

\* What is told one after the other has its places for ranks.
LEMMA Enumerating ==
  ASSUME NEW S, IsFiniteSet(S), NEW R, Ordering(R, S), NEW n, NEW s, Tells(s, n, R, S)
  PROVE  /\ Cardinality(S) = n
         /\ \A i \in 1..n : Cardinality(Below(R, S, s[i])) = i - 1
         /\ \A i, j \in 1..n : s[i] = s[j] => i = j
<1>1. /\ n \in Nat /\ \A i \in 1..n : s[i] \in S
      /\ \A x \in S : \E i \in 1..n : s[i] = x
      /\ \A i, j \in 1..n : i < j => <<s[i], s[j]>> \in R
  BY DEF Tells
<1>2. ASSUME NEW i \in 1..n, NEW j \in 1..n, <<s[i], s[j]>> \in R  PROVE i < j
  <2>1. CASE i = j
    BY <1>1, <1>2, <2>1 DEF Ordering
  <2>2. CASE j < i
    <3>1. <<s[j], s[i]>> \in R
      BY <1>1, <2>2
    <3>2. <<s[i], s[i]>> \in R
      BY <1>1, <1>2, <3>1 DEF Ordering
    <3> QED  BY <1>1, <3>2 DEF Ordering
  <2> QED  BY <1>1, <2>1, <2>2
<1>3. \A i, j \in 1..n : s[i] = s[j] => i = j
  <2>1. ASSUME NEW i \in 1..n, NEW j \in 1..n, s[i] = s[j], i # j  PROVE FALSE
    <3>1. i < j \/ j < i
      BY <1>1, <2>1
    <3>2. <<s[i], s[i]>> \in R
      BY <1>1, <2>1, <3>1
    <3> QED  BY <1>1, <3>2 DEF Ordering
  <2> QED  BY <2>1
<1>4. ASSUME NEW m \in 0..n
      PROVE  IsFiniteSet({s[i] : i \in 1..m}) /\ Cardinality({s[i] : i \in 1..m}) = m
  <2> DEFINE T == 1..m
  <2>1. IsFiniteSet(T) /\ Cardinality(T) = m
    BY <1>1, FS_Interval
  <2>2. \A i, j \in T : s[i] = s[j] => i = j
    BY <1>1, <1>3
  <2> HIDE DEF T
  <2>3. /\ IsFiniteSet({s[i] : i \in T})
        /\ Cardinality({s[i] : i \in T}) = Cardinality(T)
    BY <2>1, <2>2, SameCount
  <2> QED  BY <2>1, <2>3 DEF T
<1>5. Cardinality(S) = n
  <2>1. S = {s[i] : i \in 1..n}
    BY <1>1
  <2>2. n \in 0..n
    BY <1>1
  <2> QED  BY <1>4, <2>1, <2>2
<1>6. ASSUME NEW i \in 1..n  PROVE Cardinality(Below(R, S, s[i])) = i - 1
  <2>1. Below(R, S, s[i]) = {s[j] : j \in 1..(i - 1)}
    <3>1. ASSUME NEW y \in S, <<y, s[i]>> \in R  PROVE \E j \in 1..(i - 1) : y = s[j]
      <4>1. PICK j \in 1..n : s[j] = y
        BY <1>1
      <4>2. j < i
        BY <1>2, <3>1, <4>1
      <4> QED  BY <1>1, <4>1, <4>2
    <3>2. \A j \in 1..(i - 1) : s[j] \in S /\ <<s[j], s[i]>> \in R
      BY <1>1
    <3> QED  BY <3>1, <3>2 DEF Below
  <2>2. i - 1 \in 0..n
    BY <1>1
  <2> QED  BY <1>4, <2>1, <2>2
<1> QED  BY <1>3, <1>5, <1>6

\* And the other way round: by rank they come one after the other.
LEMMA Nths ==
  ASSUME NEW S, IsFiniteSet(S), NEW R, Ordering(R, S), NEW n, n = Cardinality(S),
         NEW s, \A i \in 1..n : s[i] = CHOOSE x \in S : Cardinality(Below(R, S, x)) = i - 1
  PROVE  /\ Tells(s, n, R, S)
         /\ \A i \in 1..n : Cardinality(Below(R, S, s[i])) = i - 1
<1> DEFINE r == [x \in S |-> Cardinality(Below(R, S, x))]
<1>1. /\ n \in Nat
      /\ \A x \in S : r[x] \in 0..(n - 1)
      /\ \A i \in 1..n : \E x \in S : r[x] = i - 1
      /\ \A x, y \in S : r[x] = r[y] => x = y
      /\ \A x, y \in S : r[x] < r[y] <=> <<x, y>> \in R
  BY Ranking
<1>2. \A i \in 1..n : s[i] = CHOOSE x \in S : r[x] = i - 1
  OBVIOUS
<1>3. \A x \in S : r[x] = Cardinality(Below(R, S, x))
  OBVIOUS
<1> HIDE DEF r
<1>4. \A i \in 1..n : s[i] \in S /\ r[s[i]] = i - 1
  BY <1>1, <1>2
<1>5. ASSUME NEW x \in S  PROVE \E i \in 1..n : s[i] = x
  <2>1. r[x] \in 0..(n - 1)
    BY <1>1
  <2>2. PICK i \in 1..n : i - 1 = r[x]
    <3>1. PICK k \in 0..(n - 1) : k = r[x]
      BY <2>1
    <3>2. k + 1 \in 1..n /\ k + 1 - 1 = k
      BY <1>1
    <3> QED  BY <3>1, <3>2
  <2>3. s[i] \in S /\ r[s[i]] = r[x]
    BY <1>4, <2>2
  <2> QED  BY <1>1, <2>3
<1>6. \A i, j \in 1..n : i < j => <<s[i], s[j]>> \in R
  <2>1. ASSUME NEW i \in 1..n, NEW j \in 1..n, i < j  PROVE <<s[i], s[j]>> \in R
    <3>1. r[s[i]] < r[s[j]] /\ s[i] \in S /\ s[j] \in S
      BY <1>1, <1>4, <2>1
    <3> QED  BY <1>1, <3>1
  <2> QED  BY <2>1
<1> QED  BY <1>1, <1>3, <1>4, <1>5, <1>6 DEF Tells

-----------------------------------------------------------------------------
(* Recursion *)

\* f holds what g makes of a, when it is applied up to m times.
Results(f, m, S, a, g) ==
  /\ f \in [0..m -> S]
  /\ f[0] = a /\ \A k \in 1..m : f[k] = g[f[k - 1]]

\* The same, if what is applied the k-th time is g[k].
Folded(f, m, S, a, g) ==
  /\ f \in [0..m -> S]
  /\ f[0] = a /\ \A k \in 1..m : f[k] = g[k][f[k - 1]]

Keeps(g, m, S) == \A k \in 1..m : \A x \in S : g[k][x] \in S

\* Steps taken one after the other, the k-th by g[k], have results.
LEMMA Folding ==
  ASSUME NEW S, NEW a \in S, NEW m \in Nat, NEW g,
         Keeps(g, m, S)
  PROVE  \E f : Folded(f, m, S, a, g)
<1> DEFINE Steps(n) == \E f \in [0..n -> S] :
                         f[0] = a /\ \A k \in 1..n : f[k] = g[k][f[k - 1]]
           Bad == {n \in 0..m : ~Steps(n)}
<1>1. Steps(0)
  <2> DEFINE f == [k \in 0..0 |-> a]
  <2>1. f \in [0..0 -> S] /\ f[0] = a /\ 1..0 = {}
    OBVIOUS
  <2> HIDE DEF f
  <2> QED  BY <2>1
<1>2. ASSUME NEW n \in 0..m, n < m, Steps(n)  PROVE Steps(n + 1)
  <2>1. PICK f \in [0..n -> S] : f[0] = a /\ \A k \in 1..n : f[k] = g[k][f[k - 1]]
    BY <1>2
  <2> DEFINE h == [k \in 0..(n + 1) |-> IF k = n + 1 THEN g[n + 1][f[n]] ELSE f[k]]
  <2>2. n + 1 \in 1..m /\ f[n] \in S
    BY <1>2
  <2>2a. g[n + 1][f[n]] \in S
    BY <2>2 DEF Keeps
  <2>3. h \in [0..(n + 1) -> S]
    <3>1. \A k \in 0..(n + 1) : k # n + 1 => k \in 0..n
      OBVIOUS
    <3> QED  BY <2>2a, <3>1
  <2>4. h[0] = a
    BY <2>1
  <2>5. ASSUME NEW k \in 1..(n + 1)  PROVE h[k] = g[k][h[k - 1]]
    <3>1. k - 1 \in 0..n /\ k - 1 # n + 1 /\ k \in 0..(n + 1) /\ k - 1 \in 0..(n + 1)
      OBVIOUS
    <3>2. h[k - 1] = f[k - 1]
      BY <3>1
    <3>3. CASE k = n + 1
      <4>1. k - 1 = n
        BY <3>3
      <4>2. h[k] = g[k][f[n]]
        BY <3>1, <3>3
      <4> QED  BY <3>2, <4>1, <4>2
    <3>4. CASE k # n + 1
      <4>1. k \in 1..n
        BY <3>4
      <4>2. h[k] = f[k]
        BY <3>1, <3>4
      <4> QED  BY <2>1, <3>2, <4>1, <4>2
    <3> QED  BY <3>3, <3>4
  <2> HIDE DEF h
  <2> QED  BY <2>3, <2>4, <2>5
<1> HIDE DEF Steps
<1>3. Bad = {}
  <2>1. SUFFICES ASSUME Bad # {}  PROVE FALSE
    OBVIOUS
  <2>2. PICK n \in Bad : \A k \in Bad : n <= k
    <3>1. Bad \in SUBSET Nat
      OBVIOUS
    <3> HIDE DEF Bad
    <3> QED  BY <2>1, <3>1, Smallest
  <2>3. n \in 0..m /\ n # 0
    BY <1>1, <2>2
  <2>4. n - 1 \in 0..m /\ n - 1 < m /\ n - 1 \notin Bad
    BY <2>2, <2>3
  <2>5. Steps(n - 1)
    BY <2>4
  <2>6. Steps(n - 1 + 1) /\ n - 1 + 1 = n
    BY <1>2, <2>3, <2>4, <2>5
  <2> QED  BY <2>2, <2>6
<1>4. Steps(m)
  BY <1>3
<1> QED  BY <1>4 DEF Steps, Folded

\* The results of steps within S are in S.
LEMMA FoldingStays ==
  ASSUME NEW S, NEW m \in Nat, NEW f, f[0] \in S,
         \A k \in 1..m : f[k - 1] \in S => f[k] \in S
  PROVE  \A k \in 0..m : f[k] \in S
<1> DEFINE Bad == {k \in 0..m : f[k] \notin S}
<1>1. SUFFICES ASSUME Bad # {}  PROVE FALSE
  OBVIOUS
<1>2. PICK n \in Bad : \A k \in Bad : n <= k
  <2>1. Bad \in SUBSET Nat
    OBVIOUS
  <2> HIDE DEF Bad
  <2> QED  BY <1>1, <2>1, Smallest
<1>3. n \in 1..m /\ n - 1 \in 0..m
  BY <1>2
<1>4. n - 1 \notin Bad
  BY <1>2, <1>3
<1> QED  BY <1>2, <1>3, <1>4

\* A step that is taken again and again has results.
LEMMA Iterates ==
  ASSUME NEW S, NEW a \in S, NEW g \in [S -> S], NEW m \in Nat
  PROVE  \E f : Results(f, m, S, a, g)
<1> DEFINE G == [k \in 1..m |-> g]
<1>1. \A k \in 1..m : G[k] = g
  OBVIOUS
<1>1a. Keeps(G, m, S)
  BY <1>1 DEF Keeps
<1> HIDE DEF G
<1>2. PICK f : Folded(f, m, S, a, G)
  BY <1>1a, Folding
<1>3. \A k \in 1..m : f[k] = g[f[k - 1]]
  BY <1>1, <1>2 DEF Folded
<1> QED  BY <1>2, <1>3 DEF Folded, Results

-----------------------------------------------------------------------------
(* Sequences laid one after the other *)

\* Sequences put one after the other: F[k] is the first k of them.
Laying(F, seqs, S) ==
  /\ F \in [0..Len(seqs) -> Seq(S)] /\ F[0] = <<>>
  /\ \A k \in 1..Len(seqs) : F[k] = F[k - 1] \o seqs[k]

\* FlattenSeq puts them one after the other.
LEMMA Flatten ==
  ASSUME NEW S, NEW seqs \in Seq(Seq(S))
  PROVE  \E F : Laying(F, seqs, S) /\ FlattenSeq(seqs) = F[Len(seqs)]
<1> DEFINE m == Len(seqs)
           g == [k \in 1..m |-> [x \in Seq(S) |-> x \o seqs[k]]]
<1>1. m \in Nat /\ <<>> \in Seq(S) /\ \A k \in 1..m : seqs[k] \in Seq(S)
  OBVIOUS
<1>2. Keeps(g, m, Seq(S))
  BY <1>1 DEF Keeps
<1>3. PICK F : Folded(F, m, Seq(S), <<>>, g)
  <2> HIDE DEF g, m
  <2> QED  BY <1>1, <1>2, Folding
<1>4. /\ F \in [0..m -> Seq(S)] /\ F[0] = <<>>
      /\ \A k \in 1..m : k - 1 \in 0..m /\ F[k] = F[k - 1] \o seqs[k]
  <2>1. F \in [0..m -> Seq(S)] /\ F[0] = <<>> /\ \A k \in 1..m : F[k] = g[k][F[k - 1]]
    BY <1>3 DEF Folded
  <2>2. \A k \in 1..m : k - 1 \in 0..m
    BY <1>1
  <2>3. \A k \in 1..m : F[k - 1] \in Seq(S)
    BY <2>1, <2>2
  <2> QED  BY <2>1, <2>2, <2>3
<1>5. Laying(F, seqs, S)
  BY <1>4 DEF Laying
<1>6. CASE m = 0
  <2>1. seqs = <<>>
    BY <1>6
  <2> QED  BY <1>4, <1>5, <1>6, <2>1 DEF FlattenSeq
<1>7. CASE m # 0
  <2> DEFINE Eq(f) == f = [i \in 1..m |-> IF i = 1 THEN seqs[i] ELSE f[i - 1] \o seqs[i]]
             h == CHOOSE f : Eq(f)
             e == [i \in 1..m |-> F[i]]
  <2>1. Eq(e)
    <3>1. ASSUME NEW i \in 1..m
          PROVE  e[i] = IF i = 1 THEN seqs[i] ELSE e[i - 1] \o seqs[i]
      <4>1. CASE i = 1
        <5>0. i - 1 = 0
          BY <4>1
        <5>1. F[i] = <<>> \o seqs[i]
          BY <1>4, <5>0
        <5>2. seqs[i] \in Seq(S)
          BY <1>1
        <5> QED  BY <4>1, <5>1, <5>2
      <4>2. CASE i # 1
        <5>1. i - 1 \in 1..m
          BY <1>1, <4>2
        <5> QED  BY <1>4, <4>2, <5>1
      <4> QED  BY <4>1, <4>2
    <3> QED  BY <3>1
  <2>2. Eq(h)
    <3> HIDE DEF Eq, e
    <3> QED  BY <2>1
  <2>3. \A i \in 1..m : h[i] = IF i = 1 THEN seqs[i] ELSE h[i - 1] \o seqs[i]
    <3>1. h = [i \in 1..m |-> IF i = 1 THEN seqs[i] ELSE h[i - 1] \o seqs[i]]
      BY <2>2
    <3> HIDE DEF h
    <3> QED  BY <3>1
  <2> DEFINE Bad == {i \in 1..m : h[i] # F[i]}
  <2>4. Bad = {}
    <3> HIDE DEF h
    <3>1. SUFFICES ASSUME Bad # {}  PROVE FALSE
      OBVIOUS
    <3>2. PICK i \in Bad : \A j \in Bad : i <= j
      <4>1. Bad \in SUBSET Nat
        BY <1>1
      <4> HIDE DEF Bad
      <4> QED  BY <3>1, <4>1, Smallest
    <3>3. i \in 1..m /\ h[i] # F[i]
      BY <3>2
    <3>4. CASE i = 1
      <4>0. i - 1 = 0
        BY <3>4
      <4>1. F[i] = <<>> \o seqs[i] /\ seqs[i] \in Seq(S)
        BY <1>1, <1>4, <3>3, <4>0
      <4> QED  BY <2>3, <3>3, <3>4, <4>1
    <3>5. CASE i # 1
      <4>0. i \in Nat /\ i - 1 \in 1..m /\ ~(i <= i - 1)
        BY <1>1, <3>3, <3>5
      <4>1. i - 1 \in 1..m /\ i - 1 \notin Bad
        <5> HIDE DEF Bad
        <5> QED  BY <3>2, <4>0
      <4>2. h[i - 1] = F[i - 1]
        BY <4>1
      <4> QED  BY <1>4, <2>3, <3>3, <3>5, <4>2
    <3> QED  BY <3>4, <3>5
  <2>5. h[m] = F[m]
    <3>1. m \in 1..m
      BY <1>1, <1>7
    <3> HIDE DEF h
    <3> QED  BY <2>4, <3>1
  <2>6. FlattenSeq(seqs) = h[m]
    BY <1>7 DEF FlattenSeq
  <2> QED  BY <1>5, <2>5, <2>6
<1> QED  BY <1>6, <1>7

\* One sequence more.
LEMMA FlattenMore ==
  ASSUME NEW S, NEW n \in Nat, NEW f, \A i \in 1..(n + 1) : f[i] \in Seq(S)
  PROVE  /\ FlattenSeq([i \in 1..n |-> f[i]]) \in Seq(S)
         /\ FlattenSeq([i \in 1..(n + 1) |-> f[i]])
              = FlattenSeq([i \in 1..n |-> f[i]]) \o f[n + 1]
<1> DEFINE s == [i \in 1..n |-> f[i]]
           t == [i \in 1..(n + 1) |-> f[i]]
<1>1. /\ s \in Seq(Seq(S)) /\ Len(s) = n /\ \A i \in 1..n : s[i] = f[i]
      /\ t \in Seq(Seq(S)) /\ Len(t) = n + 1 /\ \A i \in 1..(n + 1) : t[i] = f[i]
  OBVIOUS
<1> HIDE DEF s, t
<1>2. PICK F : Laying(F, s, S) /\ FlattenSeq(s) = F[n]
  BY <1>1, Flatten
<1>3. PICK G : Laying(G, t, S) /\ FlattenSeq(t) = G[n + 1]
  BY <1>1, Flatten
<1>4. /\ F \in [0..n -> Seq(S)] /\ F[0] = <<>>
      /\ \A k \in 1..n : F[k] = F[k - 1] \o f[k]
      /\ G \in [0..(n + 1) -> Seq(S)] /\ G[0] = <<>>
      /\ \A k \in 1..(n + 1) : G[k] = G[k - 1] \o f[k]
  BY <1>1, <1>2, <1>3 DEF Laying
<1>5. \A k \in 0..n : F[k] = G[k]
  <2> DEFINE Bad == {k \in 0..n : F[k] # G[k]}
  <2>1. SUFFICES ASSUME Bad # {}  PROVE FALSE
    OBVIOUS
  <2>2. PICK k \in Bad : \A j \in Bad : k <= j
    <3>1. Bad \in SUBSET Nat
      OBVIOUS
    <3> HIDE DEF Bad
    <3> QED  BY <2>1, <3>1, Smallest
  <2>3. k \in 1..n /\ k - 1 \in 0..n /\ k \in 1..(n + 1)
    BY <1>4, <2>2
  <2>4. k - 1 \notin Bad
    BY <2>2, <2>3
  <2> QED  BY <1>4, <2>2, <2>3, <2>4
<1>6. F[n] = G[n] /\ F[n] \in Seq(S) /\ G[n + 1] = G[n] \o f[n + 1]
  <2>1. n \in 0..n /\ n + 1 \in 1..(n + 1) /\ n + 1 - 1 = n
    OBVIOUS
  <2>2. F[n] = G[n]
    BY <1>5, <2>1
  <2>3. F[n] \in Seq(S)
    BY <1>4, <2>1
  <2>4. G[n + 1] = G[n] \o f[n + 1]
    <3>1. PICK k \in 1..(n + 1) : k = n + 1 /\ k - 1 = n
      BY <2>1
    <3>2. G[k] = G[k - 1] \o f[k]
      BY <1>4
    <3> QED  BY <3>1, <3>2
  <2> QED  BY <2>1, <2>2, <2>3, <2>4
<1>7. FlattenSeq(s) \in Seq(S) /\ FlattenSeq(t) = FlattenSeq(s) \o f[n + 1]
  BY <1>2, <1>3, <1>6
<1> QED  BY <1>7 DEF s, t

\* No sequences leave none.
LEMMA FlattenNone == FlattenSeq(<<>>) = <<>>
BY DEF FlattenSeq

\* Sequences laid and then others are all of them laid.
JoinedSeqs(u, s, t, S) ==
  /\ s \in Seq(Seq(S)) /\ t \in Seq(Seq(S)) /\ u \in Seq(Seq(S))
  /\ Len(u) = Len(s) + Len(t)
  /\ \A i \in 1..Len(s) : u[i] = s[i]
  /\ \A i \in 1..Len(t) : u[Len(s) + i] = t[i]

LEMMA FlattenJoins ==
  ASSUME NEW S, NEW s, NEW t, NEW u, JoinedSeqs(u, s, t, S)
  PROVE  /\ FlattenSeq(s) \in Seq(S) /\ FlattenSeq(t) \in Seq(S)
         /\ FlattenSeq(u) = FlattenSeq(s) \o FlattenSeq(t)
<1>1. Len(s) \in Nat /\ Len(t) \in Nat
  BY DEF JoinedSeqs
<1> PICK n \in Nat, m \in Nat : n = Len(s) /\ m = Len(t)
  BY <1>1
<1> PICK f : f = u
  OBVIOUS
<1>2. /\ s = [i \in 1..n |-> f[i]] /\ t = [i \in 1..m |-> f[n + i]]
      /\ u = [i \in 1..(n + m) |-> f[i]]
  BY DEF JoinedSeqs
<1>3. \A i \in 1..(n + m) : f[i] \in Seq(S)
  BY DEF JoinedSeqs
<1> DEFINE A(k) == FlattenSeq([i \in 1..k |-> f[i]])
           B(k) == FlattenSeq([i \in 1..k |-> f[n + i]])
           Good(k) == A(n) \in Seq(S) /\ B(k) \in Seq(S) /\ A(n + k) = A(n) \o B(k)
           Bad == {k \in 0..m : ~Good(k)}
<1>4. ASSUME NEW k \in 0..(m - 1)
      PROVE  /\ A(n + k) \in Seq(S) /\ A(n + k + 1) = A(n + k) \o f[n + k + 1]
             /\ B(k) \in Seq(S) /\ B(k + 1) = B(k) \o f[n + k + 1]
             /\ f[n + k + 1] \in Seq(S)
  <2>1. /\ n + k \in Nat /\ k \in Nat
        /\ \A i \in 1..(n + k + 1) : i \in 1..(n + m)
        /\ \A i \in 1..(k + 1) : n + i \in 1..(n + m)
    OBVIOUS
  <2>2. \A i \in 1..(n + k + 1) : f[i] \in Seq(S)
    BY <1>3, <2>1
  <2>3. A(n + k) \in Seq(S) /\ A(n + k + 1) = A(n + k) \o f[n + k + 1]
    BY <2>1, <2>2, FlattenMore
  <2> DEFINE g == [i \in 1..(k + 1) |-> f[n + i]]
  <2>4. \A i \in 1..(k + 1) : g[i] \in Seq(S)
    BY <1>3, <2>1
  <2>5. /\ [i \in 1..k |-> g[i]] = [i \in 1..k |-> f[n + i]]
        /\ [i \in 1..(k + 1) |-> g[i]] = [i \in 1..(k + 1) |-> f[n + i]]
        /\ g[k + 1] = f[n + k + 1]
    OBVIOUS
  <2> HIDE DEF g
  <2>6. /\ FlattenSeq([i \in 1..k |-> g[i]]) \in Seq(S)
        /\ FlattenSeq([i \in 1..(k + 1) |-> g[i]])
             = FlattenSeq([i \in 1..k |-> g[i]]) \o g[k + 1]
    BY <2>1, <2>4, FlattenMore
  <2>7. n + k + 1 \in 1..(n + k + 1)
    OBVIOUS
  <2> QED  BY <2>2, <2>3, <2>5, <2>6, <2>7
<1>5. A(n) \in Seq(S)
  <2>1. CASE m = 0
    <3> DEFINE laid == [i \in 1..n |-> f[i]]
    <3>1. laid \in Seq(Seq(S)) /\ Len(laid) = n
      BY <1>3, <2>1
    <3> HIDE DEF laid
    <3>2. PICK F : Laying(F, laid, S) /\ FlattenSeq(laid) = F[n]
      BY <3>1, Flatten
    <3>3. n \in 0..n /\ F \in [0..n -> Seq(S)]
      BY <3>1, <3>2 DEF Laying
    <3> QED  BY <3>2, <3>3 DEF laid
  <2>2. CASE m # 0
    <3>1. 0 \in 0..(m - 1) /\ n + 0 = n
      BY <2>2
    <3> HIDE DEF A, B
    <3> QED  BY <1>4, <3>1
  <2> QED  BY <2>1, <2>2
<1>6. Good(0)
  <2>1. [i \in 1..0 |-> f[n + i]] = <<>> /\ n + 0 = n
    OBVIOUS
  <2>2. B(0) = <<>>
    BY <2>1, FlattenNone
  <2> HIDE DEF B
  <2>3. A(n + 0) = A(n)
    BY <2>1
  <2> HIDE DEF A
  <2>4. \A a \in Seq(S) : a \o <<>> = a /\ <<>> \in Seq(S)
    OBVIOUS
  <2>5. A(n) \o B(0) = A(n) /\ B(0) \in Seq(S)
    BY <1>5, <2>2, <2>4
  <2> QED  BY <1>5, <2>3, <2>5
<1>7. ASSUME NEW k \in 0..(m - 1), Good(k)  PROVE Good(k + 1)
  <2>1. /\ A(n + k + 1) = A(n + k) \o f[n + k + 1]
        /\ B(k + 1) = B(k) \o f[n + k + 1]
        /\ f[n + k + 1] \in Seq(S)
    BY <1>4
  <2>2. A(n + (k + 1)) = A(n + k + 1)
    OBVIOUS
  <2> HIDE DEF A, B
  <2>3. A(n) \in Seq(S) /\ B(k) \in Seq(S) /\ A(n + k) = A(n) \o B(k)
    BY <1>7
  <2>4. \A a, b, c \in Seq(S) : a \o (b \o c) = (a \o b) \o c /\ b \o c \in Seq(S)
    OBVIOUS
  <2>5. PICK a \in Seq(S), b \in Seq(S), c \in Seq(S) :
          a = A(n) /\ b = B(k) /\ c = f[n + k + 1]
    BY <2>1, <2>3
  <2>6. A(n + (k + 1)) = (a \o b) \o c /\ B(k + 1) = b \o c
    BY <2>1, <2>2, <2>3, <2>5
  <2>7. a \o (b \o c) = (a \o b) \o c /\ b \o c \in Seq(S)
    BY <2>4
  <2>8. A(n + (k + 1)) = A(n) \o B(k + 1) /\ B(k + 1) \in Seq(S)
    BY ONLY <2>5, <2>6, <2>7, Zenon
  <2> QED  BY <2>3, <2>8
<1>8. Bad = {}
  <2> HIDE DEF A, B
  <2>1. SUFFICES ASSUME Bad # {}  PROVE FALSE
    OBVIOUS
  <2> HIDE DEF Good
  <2>2. PICK k \in Bad : \A j \in Bad : k <= j
    <3>1. Bad \in SUBSET Nat
      OBVIOUS
    <3> HIDE DEF Bad
    <3> QED  BY <2>1, <3>1, Smallest
  <2>3. k \in 0..m /\ k # 0
    BY <1>6, <2>2
  <2>4. k - 1 \in 0..(m - 1) /\ k - 1 \in 0..m /\ k - 1 \notin Bad /\ k - 1 + 1 = k
    BY <2>2, <2>3
  <2>5. Good(k - 1)
    BY <2>4
  <2>6. Good(k - 1 + 1)
    BY <1>7, <2>4, <2>5
  <2> QED  BY <2>2, <2>4, <2>6
<1>9. Good(m)
  <2> HIDE DEF Good
  <2> QED  BY <1>8
<1> QED  BY <1>2, <1>9

\* Sequences laid are a sequence.
LEMMA FlattenTyped ==
  ASSUME NEW S, NEW s \in Seq(Seq(S))
  PROVE  FlattenSeq(s) \in Seq(S)
<1>1. JoinedSeqs(s, s, <<>>, S)
  BY DEF JoinedSeqs
<1> QED  BY <1>1, FlattenJoins

\* What is laid is what the sequences hold.
LEMMA FlattenHolds ==
  ASSUME NEW S, NEW seqs \in Seq(Seq(S)), NEW x
  PROVE  x \in ToSet(FlattenSeq(seqs)) <=> \E i \in 1..Len(seqs) : x \in ToSet(seqs[i])
<1> DEFINE m == Len(seqs)
<1>1. PICK F : Laying(F, seqs, S) /\ FlattenSeq(seqs) = F[m]
  BY Flatten
<1>2. /\ m \in Nat /\ F \in [0..m -> Seq(S)] /\ F[0] = <<>>
      /\ \A k \in 1..m : F[k] = F[k - 1] \o seqs[k] /\ seqs[k] \in Seq(S)
  <2>1. m \in Nat /\ \A k \in 1..m : seqs[k] \in Seq(S)
    OBVIOUS
  <2>2. /\ F \in [0..m -> Seq(S)] /\ F[0] = <<>>
        /\ \A k \in 1..m : F[k] = F[k - 1] \o seqs[k]
    BY <1>1 DEF Laying
  <2> HIDE DEF m
  <2> QED  BY <2>1, <2>2
<1> DEFINE Good(k) == x \in ToSet(F[k]) <=> \E i \in 1..k : x \in ToSet(seqs[i])
           Bad == {k \in 0..m : ~Good(k)}
<1>3. Good(0)
  <2>1. ToSet(F[0]) = {} /\ 1..0 = {}
    BY <1>2 DEF ToSet
  <2> QED  BY <2>1
<1> HIDE DEF m
<1>4. ASSUME NEW k \in 1..m, Good(k - 1)  PROVE Good(k)
  <2>1. /\ F[k - 1] \in Seq(S) /\ seqs[k] \in Seq(S) /\ F[k] = F[k - 1] \o seqs[k]
    <3>1. k - 1 \in 0..m
      BY <1>2
    <3> QED  BY <1>2, <3>1
  <2>2. ToSet(F[k]) = ToSet(F[k - 1]) \cup ToSet(seqs[k])
    <3>1. \A a, b \in Seq(S) : ToSet(a \o b) = ToSet(a) \cup ToSet(b)
      <4>1. SUFFICES ASSUME NEW a \in Seq(S), NEW b \in Seq(S), NEW y
                     PROVE  y \in ToSet(a \o b) <=> y \in ToSet(a) \/ y \in ToSet(b)
        OBVIOUS
      <4>2. /\ a \o b \in Seq(S) /\ Len(a \o b) = Len(a) + Len(b)
            /\ \A i \in 1..Len(a \o b) :
                 (a \o b)[i] = IF i <= Len(a) THEN a[i] ELSE b[i - Len(a)]
            /\ DOMAIN a = 1..Len(a) /\ DOMAIN b = 1..Len(b)
            /\ DOMAIN (a \o b) = 1..Len(a \o b)
            /\ Len(a) \in Nat /\ Len(b) \in Nat
        OBVIOUS
      <4>3. ASSUME y \in ToSet(a \o b)  PROVE y \in ToSet(a) \/ y \in ToSet(b)
        <5>1. PICK i \in 1..Len(a \o b) : y = (a \o b)[i]
          BY <4>2, <4>3 DEF ToSet
        <5>2. i <= Len(a) => i \in DOMAIN a /\ y = a[i]
          BY <4>2, <5>1
        <5>3. ~(i <= Len(a)) => i - Len(a) \in DOMAIN b /\ y = b[i - Len(a)]
          BY <4>2, <5>1
        <5> QED  BY <5>2, <5>3 DEF ToSet
      <4>4. ASSUME y \in ToSet(a)  PROVE y \in ToSet(a \o b)
        <5>1. PICK i \in 1..Len(a) : y = a[i]
          BY <4>2, <4>4 DEF ToSet
        <5>2. i \in 1..Len(a \o b) /\ (a \o b)[i] = y
          BY <4>2, <5>1
        <5> QED  BY <4>2, <5>2 DEF ToSet
      <4>5. ASSUME y \in ToSet(b)  PROVE y \in ToSet(a \o b)
        <5>1. PICK i \in 1..Len(b) : y = b[i]
          BY <4>2, <4>5 DEF ToSet
        <5>2. /\ Len(a) + i \in 1..Len(a \o b) /\ ~(Len(a) + i <= Len(a))
              /\ Len(a) + i - Len(a) = i
          BY <4>2, <5>1
        <5>3. (a \o b)[Len(a) + i] = y
          BY <4>2, <5>1, <5>2
        <5> QED  BY <4>2, <5>2, <5>3 DEF ToSet
      <4> QED  BY <4>3, <4>4, <4>5
    <3> QED  BY <2>1, <3>1
  <2>3. 1..k = (1..(k - 1)) \cup {k}
    BY <1>2
  <2> QED  BY <1>4, <2>2, <2>3
<1>5. Bad = {}
  <2>1. SUFFICES ASSUME Bad # {}  PROVE FALSE
    OBVIOUS
  <2> HIDE DEF Good
  <2>2. PICK k \in Bad : \A j \in Bad : k <= j
    <3>1. Bad \in SUBSET Nat
      BY <1>2
    <3> HIDE DEF Bad
    <3> QED  BY <2>1, <3>1, Smallest
  <2>3. k \in 1..m /\ k - 1 \in 0..m
    BY <1>2, <1>3, <2>2
  <2>4. k - 1 \notin Bad
    BY <1>2, <2>2, <2>3
  <2> QED  BY <1>4, <2>2, <2>3, <2>4
<1>6. Good(m)
  <2>1. m \in 0..m
    BY <1>2
  <2> HIDE DEF Good
  <2> QED  BY <1>5, <2>1
<1> QED  BY <1>1, <1>6 DEF m

-----------------------------------------------------------------------------
(* Powers of two *)

\* A power of two is the number of subsets of an interval.
LEMMA Subsets ==
  ASSUME NEW n \in Nat
  PROVE  /\ IsFiniteSet(SUBSET (1..n)) /\ Cardinality(SUBSET (1..n)) = 2^n
         /\ 2^n \in Nat \ {0}
<1>1. IsFiniteSet(1..n) /\ Cardinality(1..n) = n
  BY FS_Interval
<1>2. IsFiniteSet(SUBSET (1..n)) /\ Cardinality(SUBSET (1..n)) = 2^n
  BY <1>1, FS_SUBSET
<1>3. Cardinality(SUBSET (1..n)) \in Nat \ {0}
  BY <1>2, FS_CardinalityType, FS_EmptySet
<1> QED  BY <1>2, <1>3

LEMMA PowerNext ==
  ASSUME NEW n \in Nat
  PROVE  2^(n + 1) = 2 * 2^n
<1> DEFINE A == SUBSET (1..n)
           B == {s \cup {n + 1} : s \in A}
           f == [s \in A |-> s \cup {n + 1}]
<1>1. SUBSET (1..(n + 1)) = A \cup B
  <2>1. 1..(n + 1) = (1..n) \cup {n + 1} /\ n + 1 \notin 1..n
    OBVIOUS
  <2>2. ASSUME NEW s \in SUBSET (1..(n + 1))  PROVE s \in A \cup B
    <3>1. s \ {n + 1} \in A
      BY <2>1
    <3>2. CASE n + 1 \in s
      <4>1. s = (s \ {n + 1}) \cup {n + 1}
        BY <3>2
      <4> QED  BY <3>1, <4>1
    <3>3. CASE n + 1 \notin s
      BY <2>1, <3>3
    <3> QED  BY <3>2, <3>3
  <2>3. A \cup B \subseteq SUBSET (1..(n + 1))
    BY <2>1
  <2> QED  BY <2>2, <2>3
<1>2. n + 1 \notin 1..n
  OBVIOUS
<1>3. A \cap B = {}
  BY <1>2
<1>4. f \in Bijection(A, B)
  <2>1. f \in [A -> B] /\ \A t \in B : \E s \in A : f[s] = t
    OBVIOUS
  <2>2. ASSUME NEW s \in A, NEW t \in A, f[s] = f[t]  PROVE s = t
    <3>1. s \cup {n + 1} = t \cup {n + 1}
      BY <2>2
    <3>2. n + 1 \notin s /\ n + 1 \notin t
      BY <1>2
    <3> QED  BY <3>1, <3>2
  <2> HIDE DEF f, A, B
  <2> QED  BY <2>1, <2>2 DEF Bijection, Injection, Surjection, IsInjective
<1>5. IsFiniteSet(A) /\ Cardinality(A) = 2^n /\ 2^n \in Nat
  BY Subsets
<1>6. Cardinality(SUBSET (1..(n + 1))) = 2^(n + 1)
  BY Subsets
<1> HIDE DEF A, B, f
<1>7. IsFiniteSet(B) /\ Cardinality(B) = Cardinality(A)
  BY <1>4, <1>5, FS_Bijection DEF ExistsBijection
<1>8. Cardinality(A \cup B) = Cardinality(A) + Cardinality(B) - Cardinality(A \cap B)
  BY <1>5, <1>7, FS_Union
<1>9. Cardinality(A \cap B) = 0
  BY <1>3, FS_EmptySet
<1>10. 2^(n + 1) = 2^n + 2^n - 0
  BY <1>1, <1>5, <1>6, <1>7, <1>8, <1>9, Zenon
<1>11. \A u \in Nat : u + u - 0 = 2 * u
  OBVIOUS
<1> QED  BY <1>5, <1>10, <1>11

LEMMA PowerSum ==
  ASSUME NEW m \in Nat, NEW n \in Nat
  PROVE  2^(m + n) = 2^m * 2^n
<1> DEFINE Bad == {k \in Nat : 2^(m + k) # 2^m * 2^k}
<1>1. \A k \in Nat : 2^k \in Nat \ {0} /\ 2^(k + 1) = 2 * 2^k
  BY Subsets, PowerNext
<1>2. Bad = {}
  <2>1. SUFFICES ASSUME Bad # {}  PROVE FALSE
    OBVIOUS
  <2>2. PICK k \in Bad : \A j \in Bad : k <= j
    BY <2>1, Smallest
  <2>3. k \in Nat /\ 2^(m + k) # 2^m * 2^k
    BY <2>2
  <2>4. CASE k = 0
    <3>1. 2^0 = 1
      OBVIOUS
    <3>2. m + k = m /\ 2^k = 1
      BY <2>4, <3>1
    <3> QED  BY <1>1, <2>3, <3>2
  <2>5. CASE k # 0
    <3>1. k - 1 \in Nat /\ k - 1 \notin Bad
      BY <2>2, <2>3, <2>5
    <3> DEFINE j == k - 1
    <3>2. j \in Nat /\ k = j + 1 /\ 2^(m + j) = 2^m * 2^j
      BY <3>1
    <3> HIDE DEF j
    <3>3. m + j \in Nat /\ m + k = (m + j) + 1
      BY <3>2
    <3>4. 2^(m + k) = 2 * 2^(m + j) /\ 2^k = 2 * 2^j
      BY <1>1, <3>2, <3>3
    <3> DEFINE u == 2^m
               v == 2^j
    <3>5. u \in Nat /\ v \in Nat
      BY <1>1, <3>2
    <3>6. 2^(m + k) = 2 * (u * v) /\ 2^m * 2^k = u * (2 * v)
      BY <3>2, <3>4
    <3> HIDE DEF u, v
    <3>7. 2 * (u * v) = u * (2 * v)
      BY <3>5
    <3> QED  BY <2>3, <3>6, <3>7
  <2> QED  BY <2>4, <2>5
<1> QED  BY <1>2

LEMMA PowerGrows ==
  ASSUME NEW m \in Nat, NEW n \in Nat, m <= n
  PROVE  2^m <= 2^n
<1>1. n - m \in Nat /\ m + (n - m) = n
  OBVIOUS
<1>2. 2^n = 2^m * 2^(n - m)
  BY <1>1, PowerSum
<1>3. 2^m \in Nat /\ 2^(n - m) \in Nat \ {0}
  BY <1>1, Subsets
<1>4. \A u \in Nat, v \in Nat \ {0} : u <= u * v
  OBVIOUS
<1> QED  BY <1>2, <1>3, <1>4

-----------------------------------------------------------------------------
(* Quotients *)

LEMMA Scaled ==
  ASSUME NEW s \in Nat \ {0}, NEW u \in Int, NEW v \in Int
  PROVE  u < v <=> u * s < v * s
<1>1. ASSUME NEW a \in Int, NEW b \in Int, a < b  PROVE a * s < b * s
  <2>1. b - a \in Nat \ {0} /\ b = a + (b - a)
    BY <1>1
  <2> DEFINE d == b - a
  <2>2. d * s > 0
    BY <2>1
  <2>3. b * s = a * s + d * s
    BY <2>1
  <2>4. a * s \in Int /\ d * s \in Int
    BY <2>1
  <2> HIDE DEF d
  <2> QED  BY <2>2, <2>3, <2>4
<1>2. u < v \/ u = v \/ v < u
  OBVIOUS
<1>3. u * s \in Int /\ v * s \in Int
  OBVIOUS
<1> QED  BY <1>1, <1>2, <1>3

LEMMA Quotient ==
  ASSUME NEW d \in Nat, NEW s \in Nat \ {0}
  PROVE  d \div s \in Nat /\ (d \div s) * s <= d /\ d < (d \div s + 1) * s
<1> DEFINE q == d \div s
<1>1. q \in Int /\ s * q <= d /\ d < s * q + s
  OBVIOUS
<1>2. q >= 0
  OBVIOUS
<1>3. q * s = s * q /\ (q + 1) * s = s * q + s
  BY <1>1
<1> HIDE DEF q
<1>4. q \in Nat /\ q * s <= d /\ d < (q + 1) * s
  BY <1>1, <1>2, <1>3
<1> QED  BY <1>4 DEF q

\* A place lies in the scaled interval when its quotient lies in the interval.
LEMMA QuotientBetween ==
  ASSUME NEW d \in Nat, NEW s \in Nat \ {0}, NEW a \in Int, NEW b \in Int
  PROVE  a * s <= d /\ d <= (b + 1) * s - 1
           <=> a <= d \div s /\ d \div s <= b
<1> DEFINE q == d \div s
<1>1. q \in Nat /\ q * s <= d /\ d < (q + 1) * s
  BY Quotient
<1> HIDE DEF q
<1>2. /\ a * s \in Int /\ (b + 1) * s \in Int /\ q * s \in Int
      /\ (q + 1) * s \in Int
  BY <1>1
<1>3. /\ a < q + 1 <=> a * s < (q + 1) * s
      /\ q < a <=> q * s < a * s
      /\ q < b + 1 <=> q * s < (b + 1) * s
      /\ b < q <=> b * s < q * s
  BY <1>1, Scaled
<1>4. q < a => (q + 1) * s <= a * s
  <2>1. q + 1 < a \/ q + 1 = a \/ ~(q < a)
    BY <1>1
  <2>2. q + 1 < a => (q + 1) * s < a * s
    BY <1>1, Scaled
  <2> QED  BY <1>2, <2>1, <2>2
<1>5. b < q => (b + 1) * s <= q * s
  <2>1. b + 1 < q \/ b + 1 = q \/ ~(b < q)
    BY <1>1
  <2>2. b + 1 < q => (b + 1) * s < q * s
    BY <1>1, Scaled
  <2> QED  BY <1>2, <2>1, <2>2
<1>6. a <= q => a * s <= q * s
  BY <1>1, <1>2, <1>3
<1>7. q <= b => (q + 1) * s <= (b + 1) * s
  <2>1. q < b \/ q = b \/ ~(q <= b)
    BY <1>1
  <2>2. q < b => (q + 1) * s < (b + 1) * s
    BY <1>1, Scaled
  <2> QED  BY <1>2, <2>1, <2>2
<1>8. PICK sa \in Int, sb \in Int, sq \in Int, sr \in Int :
        sa = a * s /\ sb = (b + 1) * s /\ sq = q * s /\ sr = (q + 1) * s
  BY <1>2
<1>9. /\ sq <= d /\ d < sr
      /\ (q < a => sr <= sa) /\ (b < q => sb <= sq)
      /\ (a <= q => sa <= sq) /\ (q <= b => sr <= sb)
  BY <1>1, <1>4, <1>5, <1>6, <1>7, <1>8
<1>10. q \in Nat
  BY <1>1
<1>11. (sa <= d /\ d <= sb - 1) <=> (a <= q /\ q <= b)
  BY <1>9, <1>10
<1> QED  BY <1>8, <1>11 DEF q
=============================================================================
