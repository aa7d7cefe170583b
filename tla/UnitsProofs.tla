---------------------------- MODULE UnitsProofs -----------------------------
(***************************************************************************)
(* How many units there are: what one owner more, less or another number of  *)
(* bytes of one owner does to the sum.                                       *)
(***************************************************************************)
EXTENDS Units, FiniteSetTheorems, TLAPS

\* The bytes of one guard.
LEMMA OneGuard ==
    ASSUME NEW x, NEW n \in Nat
    PROVE  IsFiniteSet({x} \X (1..n)) /\ Cardinality({x} \X (1..n)) = n
<1>1. IsFiniteSet({x}) /\ Cardinality({x}) = 1
  BY FS_Singleton, Zenon
<1>2. IsFiniteSet(1..n) /\ Cardinality(1..n) = n
  <2>1. IsFiniteSet(1..n) /\ Cardinality(1..n) = IF 1 > n THEN 0 ELSE n - 1 + 1
    BY FS_Interval
  <2> QED
    BY <2>1
<1>3. IsFiniteSet({x} \X (1..n)) /\ Cardinality({x} \X (1..n)) = Cardinality({x}) * Cardinality(1..n)
  BY <1>1, <1>2, FS_Product, Zenon
<1>4. Cardinality({x} \X (1..n)) = 1 * n
  BY <1>1, <1>2, <1>3, Zenon
<1> QED
  BY <1>3, <1>4

\* What is left of the units when those of one guard are taken away.
Others(w, x) == UNION {{y} \X (1..w[y]) : y \in DOMAIN w \ {x}}

\* The units are those of one guard and those of the others.
LEMMA UnitsSplit ==
    ASSUME NEW D, NEW w \in [D -> Nat], NEW x \in D
    PROVE  /\ Units(w) = ({x} \X (1..w[x])) \cup Others(w, x)
           /\ ({x} \X (1..w[x])) \cap Others(w, x) = {}
<1>1. DOMAIN w = D
  OBVIOUS
<1>2. ASSUME NEW u \in Units(w) PROVE u \in ({x} \X (1..w[x])) \cup Others(w, x)
  <2>1. PICK y \in D : u \in {y} \X (1..w[y])
    BY <1>1, <1>2, Zenon DEF Units
  <2>2. CASE y = x
    BY <2>1, <2>2, Zenon
  <2>3. CASE y # x
    BY <1>1, <2>1, <2>3, Zenon DEF Others
  <2> QED
    BY <2>2, <2>3, Zenon
<1>3. ASSUME NEW u \in ({x} \X (1..w[x])) \cup Others(w, x) PROVE u \in Units(w)
  BY <1>1, <1>3, Zenon DEF Units, Others
<1>4. ASSUME NEW u \in {x} \X (1..w[x]), u \in Others(w, x) PROVE FALSE
  <2>1. PICK y \in D \ {x} : u \in {y} \X (1..w[y])
    BY <1>1, <1>4, Zenon DEF Others
  <2> QED
    BY <1>4, <2>1
<1>5. Units(w) = ({x} \X (1..w[x])) \cup Others(w, x)
  BY <1>2, <1>3, Zenon
<1> QED
  BY <1>4, <1>5, Zenon

\* No guard holds more than all of them.
LEMMA UnitsBound ==
    ASSUME NEW D, NEW w \in [D -> Nat], NEW x \in D, IsFiniteSet(Units(w))
    PROVE  w[x] <= Cardinality(Units(w))
<1>1. w[x] \in Nat
  OBVIOUS
<1>2. ({x} \X (1..w[x])) \in SUBSET Units(w)
  <2>1. Units(w) = ({x} \X (1..w[x])) \cup Others(w, x)
    BY UnitsSplit, Zenon
  <2> QED
    BY <2>1, Zenon
<1>3. Cardinality({x} \X (1..w[x])) <= Cardinality(Units(w))
  BY <1>2, FS_Subset, Zenon
<1>4. Cardinality({x} \X (1..w[x])) = w[x]
  BY <1>1, OneGuard, Zenon
<1> QED
  BY <1>3, <1>4, Zenon

\* The guards other than x hold the rest.
Rest(w, x, rest) == Cardinality(Units(w)) = w[x] + rest

\* When the bytes of one guard change, the units of the others do not.
LEMMA UnitsChange ==
    ASSUME NEW D, NEW w \in [D -> Nat], NEW x \in D, IsFiniteSet(Units(w)),
           NEW u \in [D -> Nat], \A y \in D \ {x} : u[y] = w[y]
    PROVE  /\ IsFiniteSet(Units(u))
           /\ \E rest \in Nat : Rest(w, x, rest) /\ Rest(u, x, rest)
<1>1. u[x] \in Nat /\ w[x] \in Nat /\ DOMAIN u = DOMAIN w
  OBVIOUS
<1>2. \A y \in DOMAIN w \ {x} : u[y] = w[y]
  OBVIOUS
<1>3. Others(u, x) = Others(w, x)
  <2>1. ASSUME NEW t PROVE t \in Others(u, x) <=> \E y \in DOMAIN w \ {x} : t \in {y} \X (1..u[y])
    BY <1>1, Zenon DEF Others
  <2>2. ASSUME NEW t PROVE t \in Others(w, x) <=> \E y \in DOMAIN w \ {x} : t \in {y} \X (1..w[y])
    BY Zenon DEF Others
  <2>3. ASSUME NEW t
        PROVE (\E y \in DOMAIN w \ {x} : t \in {y} \X (1..u[y])) <=> (\E y \in DOMAIN w \ {x} : t \in {y} \X (1..w[y]))
    BY <1>2
  <2>4. ASSUME NEW t PROVE t \in Others(u, x) <=> t \in Others(w, x)
    BY <2>1, <2>2, <2>3, Zenon
  <2> QED
    BY <2>4, Zenon DEF Others
<1> DEFINE R == Others(w, x)
           A == {x} \X (1..w[x])
           B == {x} \X (1..u[x])
<1>4. Units(w) = A \cup R /\ A \cap R = {}
  BY UnitsSplit, Zenon
<1>5. Units(u) = B \cup R /\ B \cap R = {}
  <2>1. Units(u) = ({x} \X (1..u[x])) \cup Others(u, x) /\ ({x} \X (1..u[x])) \cap Others(u, x) = {}
    BY <1>1, UnitsSplit, Zenon
  <2> QED
    BY <1>1, <1>3, <2>1, Zenon
<1>6. IsFiniteSet(A) /\ Cardinality(A) = w[x]
  BY <1>1, OneGuard, Zenon
<1>7. IsFiniteSet(B) /\ Cardinality(B) = u[x]
  BY <1>1, OneGuard, Zenon
<1> HIDE DEF A, B, R
<1>8. IsFiniteSet(R)
  <2>1. R \in SUBSET Units(w)
    BY <1>4, Zenon
  <2> QED
    BY <2>1, FS_Subset, Zenon
<1>9. Cardinality({}) = 0 /\ Cardinality(R) \in Nat
  BY <1>8, FS_EmptySet, FS_CardinalityType, Zenon
<1>10. Cardinality(A \cup R) = Cardinality(A) + Cardinality(R) - Cardinality(A \cap R)
  BY <1>6, <1>8, FS_Union, Zenon
<1>11. IsFiniteSet(B \cup R) /\ Cardinality(B \cup R) = Cardinality(B) + Cardinality(R) - Cardinality(B \cap R)
  BY <1>7, <1>8, FS_Union, Zenon
<1>12. Cardinality(Units(w)) = w[x] + Cardinality(R) - 0
  BY <1>4, <1>6, <1>9, <1>10, Zenon
<1>13. IsFiniteSet(Units(u)) /\ Cardinality(Units(u)) = u[x] + Cardinality(R) - 0
  BY <1>5, <1>7, <1>9, <1>11, Zenon
<1> DEFINE before == w[x]
           after == u[x]
           rest == Cardinality(R)
<1>14. /\ Cardinality(Units(w)) = before + rest - 0 /\ Cardinality(Units(u)) = after + rest - 0
       /\ rest \in Nat /\ before \in Nat /\ after \in Nat
  BY <1>1, <1>9, <1>12, <1>13, Zenon
<1> HIDE DEF before, after, rest
<1>15. rest \in Nat /\ Cardinality(Units(w)) = before + rest /\ Cardinality(Units(u)) = after + rest
  BY <1>14
<1> QED
  BY <1>13, <1>15, Zenon DEF before, after, Rest

\* Guards that hold nothing hold no units.
LEMMA UnitsNone ==
    ASSUME NEW D, NEW w \in [D -> Nat], \A x \in D : w[x] = 0
    PROVE  Units(w) = {} /\ IsFiniteSet(Units(w)) /\ Cardinality(Units(w)) = 0
<1>1. ASSUME NEW x \in DOMAIN w PROVE {x} \X (1..w[x]) = {}
  <2>1. 1..0 = {}
    OBVIOUS
  <2>2. w[x] = 0
    BY <1>1
  <2> QED
    BY <2>1, <2>2
<1>2. Units(w) = {}
  BY <1>1, Zenon DEF Units
<1> QED
  BY <1>2, FS_EmptySet, Zenon
=============================================================================
