----------------------------- MODULE MoneyProofs -----------------------------
(***************************************************************************)
(* What a sum of amounts does when one amount is added, removed or dropped:  *)
(* the facts the proofs about refunds and about stock reservations share.    *)
(* A family whose units are finite stays one, so that the invariants that    *)
(* rest on these lemmas carry the finiteness along and need no induction.    *)
(***************************************************************************)
EXTENDS Money, FiniteSetTheorems, TLAPS

\* Nothing adds up to nothing.
LEMMA TotalEmpty ==
  ASSUME NEW f, DOMAIN f = {}
  PROVE  IsFiniteSet(Units(f)) /\ Total(f) = 0
<1>1. Units(f) = {}
  BY DEF Units
<1>2. QED
  BY <1>1, FS_EmptySet DEF Total

\* The units of one amount.
LEMMA UnitsOfOne ==
  ASSUME NEW k, NEW a \in Nat
  PROVE  /\ IsFiniteSet({k} \X (1..a))
         /\ Cardinality({k} \X (1..a)) = a
<1>1. IsFiniteSet({k}) /\ Cardinality({k}) = 1
  BY FS_Singleton
<1>2. IsFiniteSet(1..a) /\ Cardinality(1..a) = a
  BY FS_Interval
<1>3. /\ IsFiniteSet({k} \X (1..a))
      /\ Cardinality({k} \X (1..a)) = Cardinality({k}) * Cardinality(1..a)
  BY <1>1, <1>2, FS_Product
<1>4. QED
  BY <1>1, <1>2, <1>3

\* The sum grows by the amount that is added.
LEMMA TotalAdd ==
  ASSUME NEW f, NEW g, NEW k, k \notin DOMAIN f, DOMAIN g = DOMAIN f \cup {k},
         \A x \in DOMAIN f : g[x] = f[x], g[k] \in Nat, IsFiniteSet(Units(f))
  PROVE  /\ IsFiniteSet(Units(g)) /\ Total(f) \in Nat
         /\ Total(g) = Total(f) + g[k]
<1> DEFINE own == {k} \X (1..g[k])
<1>1. Units(g) = Units(f) \cup own
  BY DEF Units
<1>2. Units(f) \cap own = {}
  BY DEF Units
<1>3. IsFiniteSet(own) /\ Cardinality(own) = g[k]
  BY UnitsOfOne
<1> HIDE DEF own
<1>4. /\ IsFiniteSet(Units(f) \cup own)
      /\ Cardinality(Units(f) \cup own) =
           Cardinality(Units(f)) + Cardinality(own) - Cardinality(Units(f) \cap own)
  BY <1>3, FS_Union
<1>5. Cardinality(Units(f)) \in Nat /\ Cardinality(Units(f) \cap own) = 0
  BY <1>2, FS_CardinalityType, FS_EmptySet
<1>6. QED
  BY <1>1, <1>3, <1>4, <1>5 DEF Total

\* The sum of part of a family is no more than the sum of all of it.
LEMMA TotalPart ==
  ASSUME NEW f, NEW g, DOMAIN f \subseteq DOMAIN g, \A x \in DOMAIN f : f[x] = g[x],
         IsFiniteSet(Units(g))
  PROVE  /\ IsFiniteSet(Units(f)) /\ Total(f) \in Nat /\ Total(g) \in Nat
         /\ Total(f) <= Total(g)
<1>1. Units(f) \subseteq Units(g)
  BY DEF Units
<1>2. IsFiniteSet(Units(f)) /\ Cardinality(Units(f)) <= Cardinality(Units(g))
  BY <1>1, FS_Subset
<1>3. QED
  BY <1>2, FS_CardinalityType DEF Total

\* The sum shrinks by the amount that is removed.
LEMMA TotalRemove ==
  ASSUME NEW f, NEW g, NEW k, k \notin DOMAIN f, DOMAIN g = DOMAIN f \cup {k},
         \A x \in DOMAIN f : g[x] = f[x], g[k] \in Nat, IsFiniteSet(Units(g))
  PROVE  /\ IsFiniteSet(Units(f)) /\ Total(f) \in Nat /\ Total(g) \in Nat
         /\ Total(f) = Total(g) - g[k]
<1>1. IsFiniteSet(Units(f)) /\ Total(f) \in Nat /\ Total(g) \in Nat
  BY TotalPart
<1>2. Total(g) = Total(f) + g[k]
  BY <1>1, TotalAdd
<1>3. QED
  BY <1>1, <1>2

\* An amount of a family is no more than the sum.
LEMMA TotalCovers ==
  ASSUME NEW f, NEW k \in DOMAIN f, f[k] \in Nat, IsFiniteSet(Units(f))
  PROVE  f[k] <= Total(f) /\ Total(f) \in Nat
<1> DEFINE own == {k} \X (1..f[k])
<1>1. own \subseteq Units(f)
  BY DEF Units
<1>2. IsFiniteSet(own) /\ Cardinality(own) = f[k]
  BY UnitsOfOne
<1> HIDE DEF own
<1>3. Cardinality(own) <= Cardinality(Units(f))
  BY <1>1, FS_Subset
<1>4. QED
  BY <1>2, <1>3, FS_CardinalityType DEF Total
=============================================================================
