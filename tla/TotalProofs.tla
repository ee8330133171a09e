---------------------------- MODULE TotalProofs ----------------------------
(***************************************************************************)
(* Facts about Total, the sum of quantities over a finite set of rows.     *)
(***************************************************************************)
EXTENDS Totals, FiniteSetTheorems, TLAPS

\* A finite set has finitely many units, so its total is a natural number.
LEMMA TotalType ==
  ASSUME NEW S, IsFiniteSet(S), NEW f, \A x \in S : f[x] \in Nat
  PROVE  IsFiniteSet(Units(S, f)) /\ Total(S, f) \in Nat
<1> DEFINE part == [x \in S |-> {x} \X (1 .. f[x])]
           parts == {{x} \X (1 .. f[x]) : x \in S}
<1>1. part \in Surjection(S, parts)
  BY DEF Surjection
<1>2. IsFiniteSet(parts)
  BY <1>1, FS_Surjection
<1>3. ASSUME NEW T \in parts PROVE IsFiniteSet(T)
  <2>1. PICK x \in S : T = {x} \X (1 .. f[x])
    BY DEF parts
  <2>2. IsFiniteSet({x}) /\ IsFiniteSet(1 .. f[x])
    <3>1. f[x] \in Int /\ 1 \in Int
      OBVIOUS
    <3> QED BY <3>1, FS_Singleton, FS_Interval
  <2> QED BY <2>1, <2>2, FS_Product
<1>4. IsFiniteSet(UNION parts)
  BY <1>2, <1>3, FS_UNION
<1> QED BY <1>4, FS_CardinalityType DEF Units, Total

\* Nothing sums to nothing.
LEMMA TotalEmpty == \A f : Total({}, f) = 0
BY FS_EmptySet DEF Total, Units

\* The total of disjoint sets is the sum of their totals.
LEMMA TotalDisjoint ==
  ASSUME NEW S, IsFiniteSet(S), NEW T, IsFiniteSet(T), S \intersect T = {},
         NEW f, \A x \in S \union T : f[x] \in Nat
  PROVE  Total(S \union T, f) = Total(S, f) + Total(T, f)
<1>1. Units(S \union T, f) = Units(S, f) \union Units(T, f)
  BY DEF Units
<1>2. Units(S, f) \intersect Units(T, f) = {}
  BY DEF Units
<1>3. /\ IsFiniteSet(Units(S, f)) /\ Cardinality(Units(S, f)) \in Nat
      /\ IsFiniteSet(Units(T, f)) /\ Cardinality(Units(T, f)) \in Nat
  BY TotalType DEF Total
<1>4. Cardinality({}) = 0
  BY FS_EmptySet
<1>5. Cardinality(Units(S, f) \union Units(T, f))
        = Cardinality(Units(S, f)) + Cardinality(Units(T, f)) - Cardinality({})
  BY <1>2, <1>3, FS_Union
<1>6. ASSUME NEW a \in Nat, NEW b \in Nat PROVE a + b - 0 = a + b
  OBVIOUS
<1>7. Cardinality(Units(S, f) \union Units(T, f))
        = Cardinality(Units(S, f)) + Cardinality(Units(T, f))
  BY <1>3, <1>4, <1>5, <1>6
<1> QED BY <1>1, <1>7 DEF Total

\* The total of one row is its quantity.
LEMMA TotalSingleton ==
  ASSUME NEW x, NEW f, f[x] \in Nat
  PROVE  Total({x}, f) = f[x]
<1> DEFINE tag == [n \in 1 .. f[x] |-> <<x, n>>]
<1>1. Units({x}, f) = {x} \X (1 .. f[x])
  BY DEF Units
<1>2. tag \in [1 .. f[x] -> {x} \X (1 .. f[x])]
  OBVIOUS
<1>3. tag \in Injection(1 .. f[x], {x} \X (1 .. f[x]))
  BY <1>2 DEF Injection, IsInjective
<1>4. tag \in Surjection(1 .. f[x], {x} \X (1 .. f[x]))
  <2>1. ASSUME NEW t \in {x} \X (1 .. f[x])
        PROVE  \E n \in 1 .. f[x] : tag[n] = t
    <3>1. PICK n \in 1 .. f[x] : t = <<x, n>>
      OBVIOUS
    <3> QED BY <3>1
  <2> QED BY <1>2, <2>1 DEF Surjection
<1>5. ExistsBijection(1 .. f[x], {x} \X (1 .. f[x]))
  BY <1>3, <1>4 DEF ExistsBijection, Bijection
<1>6. IsFiniteSet(1 .. f[x]) /\ Cardinality(1 .. f[x]) = f[x]
  <2>1. f[x] \in Int /\ 1 \in Int
    OBVIOUS
  <2>2. Cardinality(1 .. f[x]) = IF 1 > f[x] THEN 0 ELSE f[x] - 1 + 1
    BY <2>1, FS_Interval
  <2>3. IsFiniteSet(1 .. f[x])
    BY <2>1, FS_Interval
  <2>4. CASE f[x] = 0
    BY <2>2, <2>3, <2>4
  <2>5. CASE f[x] > 0
    BY <2>2, <2>3, <2>5
  <2> QED BY <2>4, <2>5
<1>7. Cardinality({x} \X (1 .. f[x])) = Cardinality(1 .. f[x])
  BY <1>5, <1>6, FS_Bijection
<1> QED BY <1>1, <1>6, <1>7 DEF Total

\* Only the quantities of the members matter.
LEMMA TotalSame ==
  ASSUME NEW S, NEW f, NEW h, \A x \in S : f[x] = h[x]
  PROVE  Total(S, f) = Total(S, h)
<1>1. Units(S, f) = Units(S, h)
  BY DEF Units
<1> QED BY <1>1 DEF Total

\* What contributes nothing adds up to nothing.
LEMMA TotalZero ==
  ASSUME NEW S, NEW f, \A x \in S : f[x] = 0
  PROVE  Total(S, f) = 0
<1>1. Units(S, f) = {}
  BY DEF Units
<1> QED BY <1>1, FS_EmptySet DEF Total

\* Taking a part away takes its total away.
LEMMA TotalRemove ==
  ASSUME NEW S, IsFiniteSet(S), NEW T, T \subseteq S,
         NEW f, \A x \in S : f[x] \in Nat
  PROVE  /\ Total(S \ T, f) = Total(S, f) - Total(T, f)
         /\ Total(T, f) <= Total(S, f)
         /\ Total(S, f) \in Nat /\ Total(T, f) \in Nat /\ Total(S \ T, f) \in Nat
<1>1. IsFiniteSet(T) /\ IsFiniteSet(S \ T)
  BY FS_Subset, FS_Difference
<1>2. S = (S \ T) \union T /\ (S \ T) \intersect T = {}
  OBVIOUS
<1>3. Total(S, f) = Total(S \ T, f) + Total(T, f)
  BY <1>1, <1>2, TotalDisjoint
<1>4. /\ Total(S, f) \in Nat /\ Total(T, f) \in Nat /\ Total(S \ T, f) \in Nat
  BY <1>1, TotalType
<1> QED BY <1>3, <1>4

\* A row with another quantity changes the total by the difference.
LEMMA TotalChange ==
  ASSUME NEW S, IsFiniteSet(S), NEW x \in S, NEW f, NEW h,
         \A y \in S : f[y] \in Nat /\ h[y] \in Nat,
         \A y \in S : y # x => h[y] = f[y]
  PROVE  Total(S, h) = Total(S, f) - f[x] + h[x]
<1>1. {x} \subseteq S /\ \A y \in S \ {x} : h[y] = f[y]
  OBVIOUS
<1>2. Total(S \ {x}, h) = Total(S \ {x}, f)
  BY <1>1, TotalSame
<1>3. /\ Total(S \ {x}, f) = Total(S, f) - Total({x}, f)
      /\ Total(S \ {x}, h) = Total(S, h) - Total({x}, h)
      /\ Total(S, f) \in Nat /\ Total(S, h) \in Nat
  BY <1>1, TotalRemove
<1>4. Total({x}, f) = f[x] /\ Total({x}, h) = h[x]
  BY TotalSingleton
<1>5. f[x] \in Nat /\ h[x] \in Nat
  OBVIOUS
<1> QED BY <1>2, <1>3, <1>4, <1>5
=============================================================================
