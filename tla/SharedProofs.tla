---------------------------- MODULE SharedProofs ----------------------------
(***************************************************************************)
(* Lemmas about the operators several components share: sums of stake, for *)
(* every set of validators and every stake, filtered sequences and Merkle  *)
(* trees of every size; and two forms of induction the proofs use.         *)
(***************************************************************************)
EXTENDS StakeSums, Filters, MerkleTree, FiniteSetTheorems, TLAPS

-----------------------------------------------------------------------------
(* Induction.  What is to be shown of every number, or of every finite set, *)
(* is given as the set G of those that have it: a least counterexample     *)
(* would be one step above a member of G.                                  *)

LEMMA LeastExists ==
  ASSUME NEW S \in SUBSET Nat, S # {}
  PROVE  \E x \in S : \A y \in S : x <= y
<1> DEFINE R == {ss \in Nat \X Nat : ss[1] < ss[2]}
<1>1. IsWellFoundedOn(R, Nat)
  BY NatLessThanWellFounded DEF OpToRel
<1>2. PICK x \in S : \A y \in S : ~(<<y, x>> \in R)
  <2> HIDE DEF R
  <2> QED BY <1>1, WFMin
<1>3. ASSUME NEW y \in S PROVE x <= y
  <2>1. x \in Nat /\ y \in Nat
    OBVIOUS
  <2>2. y < x => <<y, x>> \in R
    BY <2>1
  <2> QED BY <1>2, <2>1, <2>2
<1> QED
  BY <1>3

LEMMA NumberInduction ==
  ASSUME NEW G, 0 \in G, \A n \in Nat : n \in G => n + 1 \in G
  PROVE  Nat \subseteq G
<1> DEFINE B == Nat \ G
<1> SUFFICES ASSUME B # {} PROVE FALSE
  OBVIOUS
<1>1. PICK x \in B : \A y \in B : x <= y
  BY LeastExists
<1>2. x \in Nat /\ x # 0 /\ x - 1 \in Nat /\ (x - 1) + 1 = x /\ ~(x <= x - 1)
  BY <1>1
<1>3. x - 1 \notin B
  BY <1>1, <1>2
<1> QED
  BY <1>1, <1>2, <1>3

LEMMA FiniteSetInduction ==
  ASSUME NEW S, IsFiniteSet(S), NEW G, {} \in G,
         \A T \in SUBSET S : T \in G => \A x \in S \ T : T \cup {x} \in G
  PROVE  S \in G
<1> DEFINE B == {T \in SUBSET S : T \notin G}
<1> SUFFICES ASSUME S \notin G PROVE FALSE
  OBVIOUS
<1>1. IsWellFoundedOn(StrictSubsetOrdering(S), FiniteSubsetsOf(S))
  BY FS_StrictSubsetOrderingWellFounded
<1>2. B \subseteq FiniteSubsetsOf(S) /\ S \in B
  BY FS_Subset DEF FiniteSubsetsOf
<1>3. PICK T \in B : \A U \in B : ~(<<U, T>> \in StrictSubsetOrdering(S))
  <2> HIDE DEF B
  <2>1. B # {}
    BY <1>2
  <2> QED BY <1>1, <1>2, <2>1, WFMin
<1>4. PICK x \in T : TRUE
  BY <1>3
<1>5. T \ {x} \in SUBSET S /\ <<T \ {x}, T>> \in StrictSubsetOrdering(S)
  BY <1>3, <1>4 DEF StrictSubsetOrdering
<1>6. T \ {x} \in G
  BY <1>3, <1>5
<1>7. (T \ {x}) \cup {x} = T /\ x \in S \ (T \ {x})
  BY <1>3, <1>4
<1> QED
  BY <1>3, <1>5, <1>6, <1>7

-----------------------------------------------------------------------------
(* Sums *)

\* The units of one validator: as many as his stake.
LEMMA OneUnits ==
  ASSUME NEW id, NEW n \in Nat
  PROVE  /\ IsFiniteSet({id} \X (1..n))
         /\ Cardinality({id} \X (1..n)) = n
<1> DEFINE A == {id}
           B == 1..n
<1>1. IsFiniteSet(A) /\ Cardinality(A) = 1
  BY FS_Singleton
<1>2. IsFiniteSet(B) /\ Cardinality(B) = n
  BY FS_Interval
<1>3. IsFiniteSet(A \X B) /\ Cardinality(A \X B) = Cardinality(A) * Cardinality(B)
  <2> HIDE DEF A, B
  <2> QED BY <1>1, <1>2, FS_Product, Zenon
<1> QED
  BY <1>1, <1>2, <1>3

\* Finitely many validators have finitely many units.
LEMMA UnitsFinite ==
  ASSUME NEW S, IsFiniteSet(S), NEW f, \A id \in S : f[id] \in Nat
  PROVE  IsFiniteSet(StakeUnits(S, f))
<1> DEFINE g == [id \in S |-> {id} \X (1..f[id])]
           T == {{id} \X (1..f[id]) : id \in S}
<1>1. g \in Surjection(S, T)
  BY DEF Surjection
<1>2. IsFiniteSet(T)
  <2> HIDE DEF g, T
  <2> QED BY <1>1, FS_Surjection
<1>3. \A U \in T : IsFiniteSet(U)
  <2>1. SUFFICES ASSUME NEW id \in S PROVE IsFiniteSet({id} \X (1..f[id]))
    OBVIOUS
  <2> QED BY OneUnits, Zenon
<1>4. IsFiniteSet(UNION T)
  <2> HIDE DEF T
  <2> QED BY <1>2, <1>3, FS_UNION
<1> QED
  BY <1>4 DEF StakeUnits

\* A sum of stake is a natural number.
LEMMA StakeSumType ==
  ASSUME NEW S, IsFiniteSet(S), NEW f, \A id \in S : f[id] \in Nat
  PROVE  StakeSum(S, f) \in Nat
BY UnitsFinite, FS_CardinalityType DEF StakeSum

\* A sum splits into one validator's stake and the sum over the others.
LEMMA StakeSumSplit ==
  ASSUME NEW S, IsFiniteSet(S), NEW f, \A id \in S : f[id] \in Nat,
         NEW x \in S
  PROVE  StakeSum(S, f) = f[x] + StakeSum(S \ {x}, f)
<1> DEFINE A == {x} \X (1..f[x])
           B == StakeUnits(S \ {x}, f)
<1>1. StakeUnits(S, f) = A \cup B
  BY DEF StakeUnits
<1>2. A \cap B = {}
  BY DEF StakeUnits
<1>3. IsFiniteSet(A) /\ Cardinality(A) = f[x]
  BY OneUnits
<1>4. IsFiniteSet(S \ {x})
  BY FS_RemoveElement
<1>5. IsFiniteSet(B)
  BY <1>4, UnitsFinite
<1>6. Cardinality(A \cup B) = Cardinality(A) + Cardinality(B) - Cardinality({})
  <2> HIDE DEF A, B
  <2> QED BY <1>2, <1>3, <1>5, FS_Union
<1>7. Cardinality(B) \in Nat /\ f[x] \in Nat
  BY <1>5, FS_CardinalityType
<1> QED
  BY <1>1, <1>3, <1>6, <1>7, FS_EmptySet DEF StakeSum

\* A sum depends on the values over its set only.
LEMMA StakeSumEqual ==
  ASSUME NEW S, NEW f, NEW g, \A id \in S : f[id] = g[id]
  PROVE  StakeSum(S, f) = StakeSum(S, g)
<1>1. StakeUnits(S, f) = StakeUnits(S, g)
  BY DEF StakeUnits
<1> QED
  BY <1>1 DEF StakeSum

\* Changing one validator's stake changes a sum by the difference.
LEMMA StakeSumChange ==
  ASSUME NEW S, IsFiniteSet(S), NEW f, NEW g, NEW x \in S,
         \A id \in S : f[id] \in Nat /\ g[id] \in Nat,
         \A id \in S \ {x} : f[id] = g[id]
  PROVE  /\ StakeSum(S, g) = (StakeSum(S, f) - f[x]) + g[x]
         /\ f[x] <= StakeSum(S, f)
<1>1. IsFiniteSet(S \ {x})
  BY FS_RemoveElement
<1>2. StakeSum(S \ {x}, f) = StakeSum(S \ {x}, g)
  BY StakeSumEqual
<1>3. StakeSum(S \ {x}, f) \in Nat
  BY <1>1, StakeSumType
<1>4. StakeSum(S, f) = f[x] + StakeSum(S \ {x}, f)
  BY StakeSumSplit
<1>5. StakeSum(S, g) = g[x] + StakeSum(S \ {x}, g)
  BY StakeSumSplit
<1> QED
  BY <1>2, <1>3, <1>4, <1>5

\* A smaller set of validators has no more stake.
LEMMA StakeSumMonotone ==
  ASSUME NEW V, IsFiniteSet(V), NEW f, \A id \in V : f[id] \in Nat,
         NEW P \in SUBSET V, NEW Q \in SUBSET P
  PROVE  StakeSum(Q, f) <= StakeSum(P, f)
<1>1. IsFiniteSet(P)
  BY FS_Subset
<1>2. IsFiniteSet(StakeUnits(P, f))
  BY <1>1, UnitsFinite
<1>3. StakeUnits(Q, f) \subseteq StakeUnits(P, f)
  BY DEF StakeUnits
<1> QED
  BY <1>2, <1>3, FS_Subset DEF StakeSum

\* Nobody has no stake, and one more validator adds his own.
LEMMA StakeSumEmpty ==
  ASSUME NEW f
  PROVE  StakeSum({}, f) = 0
<1>1. StakeUnits({}, f) = {}
  BY DEF StakeUnits
<1> QED
  BY <1>1, FS_EmptySet DEF StakeSum

LEMMA StakeSumGrow ==
  ASSUME NEW T, IsFiniteSet(T), NEW f, NEW x, x \notin T,
         \A id \in T \cup {x} : f[id] \in Nat
  PROVE  StakeSum(T \cup {x}, f) = StakeSum(T, f) + f[x]
<1>1. IsFiniteSet(T \cup {x}) /\ x \in T \cup {x} /\ (T \cup {x}) \ {x} = T
  BY FS_AddElement
<1>2. StakeSum(T, f) \in Nat /\ f[x] \in Nat
  BY StakeSumType
<1>3. StakeSum(T \cup {x}, f) = f[x] + StakeSum(T, f)
  BY <1>1, StakeSumSplit
<1> QED
  BY <1>2, <1>3

\* Where only one validator has any, the sum is what he has.
LEMMA OneStakeSum ==
  ASSUME NEW S, IsFiniteSet(S), NEW x, NEW n \in Nat, NEW f,
         \A id \in S : f[id] = IF id = x THEN n ELSE 0
  PROVE  StakeSum(S, f) = IF x \in S THEN n ELSE 0
<1>1. ASSUME NEW T \in SUBSET S, x \notin T
      PROVE  StakeSum(T, f) = 0
  <2>1. \A id \in T : 1..f[id] = {}
    BY <1>1
  <2>2. StakeUnits(T, f) = {}
    BY <2>1 DEF StakeUnits
  <2> QED BY <2>2, FS_EmptySet DEF StakeSum
<1>2. CASE x \in S
  <2>1. \A id \in S : f[id] \in Nat
    OBVIOUS
  <2>2. StakeSum(S, f) = f[x] + StakeSum(S \ {x}, f) /\ f[x] = n
    BY <1>2, <2>1, StakeSumSplit
  <2>3. StakeSum(S \ {x}, f) = 0
    BY <1>1
  <2> QED BY <1>2, <2>2, <2>3
<1> QED
  BY <1>1, <1>2

\* The sum of two stakes of everyone is the sum of the sums.
LEMMA StakeSumAdd ==
  ASSUME NEW S, IsFiniteSet(S), NEW f, NEW g,
         \A id \in S : f[id] \in Nat /\ g[id] \in Nat
  PROVE  StakeSum(S, [id \in S |-> f[id] + g[id]]) = StakeSum(S, f) + StakeSum(S, g)
<1> DEFINE h == [id \in S |-> f[id] + g[id]]
           G == {T \in SUBSET S : StakeSum(T, h) = StakeSum(T, f) + StakeSum(T, g)}
<1>0. \A id \in S : h[id] = f[id] + g[id]
  OBVIOUS
<1> HIDE DEF h
<1>1. {} \in G
  BY StakeSumEmpty
<1>2. ASSUME NEW T \in SUBSET S, T \in G, NEW x \in S \ T
      PROVE  T \cup {x} \in G
  <2>1. IsFiniteSet(T) /\ T \cup {x} \in SUBSET S
    BY FS_Subset
  <2>2. \A id \in T \cup {x} : h[id] \in Nat
    BY <1>0
  <2>3. /\ StakeSum(T, f) \in Nat /\ StakeSum(T, g) \in Nat
        /\ f[x] \in Nat /\ g[x] \in Nat /\ h[x] = f[x] + g[x]
    BY <1>0, <2>1, StakeSumType
  <2>4. StakeSum(T \cup {x}, f) = StakeSum(T, f) + f[x]
    BY <2>1, StakeSumGrow
  <2>5. StakeSum(T \cup {x}, g) = StakeSum(T, g) + g[x]
    BY <2>1, StakeSumGrow
  <2>6. StakeSum(T \cup {x}, h) = StakeSum(T, h) + h[x]
    BY <2>1, <2>2, StakeSumGrow
  <2> QED BY <1>2, <2>1, <2>3, <2>4, <2>5, <2>6
<1> HIDE DEF G
<1>3. S \in G
  BY <1>1, <1>2, FiniteSetInduction
<1> QED
  BY <1>3 DEF G, h

\* A bound on every one's stake, with an allowance c for rounding, is one on
\* the sums with an allowance for each.
LEMMA StakeSumBound ==
  ASSUME NEW S, IsFiniteSet(S), NEW f, NEW g,
         NEW p \in Nat, NEW q \in Nat, NEW c \in Nat,
         \A id \in S : f[id] \in Nat /\ g[id] \in Nat,
         \A id \in S : p * g[id] <= q * f[id] + c
  PROVE  p * StakeSum(S, g) <= q * StakeSum(S, f) + c * Cardinality(S)
<1> DEFINE G == {T \in SUBSET S :
                   p * StakeSum(T, g) <= q * StakeSum(T, f) + c * Cardinality(T)}
<1>1. {} \in G
  BY StakeSumEmpty, FS_EmptySet
<1>2. ASSUME NEW T \in SUBSET S, T \in G, NEW x \in S \ T
      PROVE  T \cup {x} \in G
  <2>1. IsFiniteSet(T) /\ T \cup {x} \in SUBSET S
    BY FS_Subset
  <2>2. /\ StakeSum(T, f) \in Nat /\ StakeSum(T, g) \in Nat /\ Cardinality(T) \in Nat
        /\ f[x] \in Nat /\ g[x] \in Nat /\ p * g[x] <= q * f[x] + c
    BY <2>1, StakeSumType, FS_CardinalityType
  <2>3. StakeSum(T \cup {x}, f) = StakeSum(T, f) + f[x]
    BY <2>1, StakeSumGrow
  <2>4. StakeSum(T \cup {x}, g) = StakeSum(T, g) + g[x]
    BY <2>1, StakeSumGrow
  <2>5. Cardinality(T \cup {x}) = Cardinality(T) + 1
    BY <2>1, FS_AddElement
  <2>6. p * StakeSum(T, g) <= q * StakeSum(T, f) + c * Cardinality(T)
    BY <1>2
  <2>7. ASSUME NEW a \in Nat, NEW b \in Nat, NEW n \in Nat,
               NEW u \in Nat, NEW v \in Nat,
               p * a <= q * b + c * n, p * u <= q * v + c
        PROVE  p * (a + u) <= q * (b + v) + c * (n + 1)
    <3>1. /\ p * (a + u) = p * a + p * u /\ q * (b + v) = q * b + q * v
          /\ c * (n + 1) = c * n + c
      OBVIOUS
    <3>2. /\ p * a \in Nat /\ p * u \in Nat /\ q * b \in Nat /\ q * v \in Nat
          /\ c * n \in Nat
      OBVIOUS
    <3> QED BY <2>7, <3>1, <3>2
  <2> QED BY <2>1, <2>2, <2>3, <2>4, <2>5, <2>6, <2>7
<1> HIDE DEF G
<1>3. S \in G
  BY <1>1, <1>2, FiniteSetInduction
<1> QED
  BY <1>3 DEF G

\* One of finitely many validators has the highest stake.
LEMMA HighestExists ==
  ASSUME NEW S, IsFiniteSet(S), S # {}, NEW f, \A id \in S : f[id] \in Nat
  PROVE  \E x \in S : \A o \in S : f[o] <= f[x]
<1> DEFINE G == {T \in SUBSET S : T # {} => \E x \in T : \A o \in T : f[o] <= f[x]}
<1>1. {} \in G
  OBVIOUS
<1>2. ASSUME NEW T \in SUBSET S, T \in G, NEW x \in S \ T
      PROVE  T \cup {x} \in G
  <2>1. CASE T = {}
    BY <2>1
  <2>2. CASE T # {}
    <3>1. PICK y \in T : \A o \in T : f[o] <= f[y]
      BY <1>2, <2>2
    <3>2. CASE f[x] <= f[y]
      BY <3>1, <3>2
    <3>3. CASE f[y] <= f[x]
      <4>1. \A o \in T \cup {x} : f[o] <= f[x]
        BY <3>1, <3>3
      <4> QED BY <4>1
    <3> QED BY <3>2, <3>3
  <2> QED BY <2>1, <2>2
<1> HIDE DEF G
<1>3. S \in G
  BY <1>1, <1>2, FiniteSetInduction
<1> QED
  BY <1>3 DEF G

-----------------------------------------------------------------------------
(* Quorums *)

\* Two quorums share a third: with two thirds of the total behind
\* each of two sets of validators, a third of the total is behind both.
THEOREM QuorumsIntersect ==
  ASSUME NEW V, IsFiniteSet(V), NEW f, \A id \in V : f[id] \in Nat,
         NEW P \in SUBSET V, NEW Q \in SUBSET V,
         StakeSum(P, f) >= RequiredStake(StakeSum(V, f)),
         StakeSum(Q, f) >= RequiredStake(StakeSum(V, f))
  PROVE  3 * StakeSum(P \cap Q, f) >= StakeSum(V, f)
<1> DEFINE U(S) == StakeUnits(S, f)
<1>1. U(P) \cup U(Q) \subseteq U(V) /\ U(P) \cap U(Q) = U(P \cap Q)
  BY DEF StakeUnits
<1>2. IsFiniteSet(P) /\ IsFiniteSet(Q) /\ IsFiniteSet(P \cap Q)
  BY FS_Subset
<1>3. /\ IsFiniteSet(U(P)) /\ IsFiniteSet(U(Q))
      /\ IsFiniteSet(U(V)) /\ IsFiniteSet(U(P \cap Q))
  BY <1>2, UnitsFinite
<1>4. /\ Cardinality(U(P) \cup U(Q)) <= Cardinality(U(V))
      /\ Cardinality(U(P) \cup U(Q)) =
           Cardinality(U(P)) + Cardinality(U(Q)) - Cardinality(U(P \cap Q))
  <2> HIDE DEF U
  <2>1. Cardinality(U(P) \cup U(Q)) =
          Cardinality(U(P)) + Cardinality(U(Q)) - Cardinality(U(P) \cap U(Q))
    BY <1>3, FS_Union
  <2>2. Cardinality(U(P) \cup U(Q)) <= Cardinality(U(V))
    BY <1>1, <1>3, FS_Subset
  <2> QED BY <1>1, <2>1, <2>2
<1>5. /\ Cardinality(U(P)) \in Nat /\ Cardinality(U(Q)) \in Nat
      /\ Cardinality(U(V)) \in Nat /\ Cardinality(U(P \cap Q)) \in Nat
  BY <1>3, FS_CardinalityType
<1>6. ASSUME NEW p \in Nat, NEW q \in Nat, NEW v \in Nat, NEW i \in Nat,
             p + q - i <= v, p >= (v * 2 + 2) \div 3, q >= (v * 2 + 2) \div 3
      PROVE  3 * i >= v
  BY <1>6
<1> HIDE DEF U
<1> QED
  BY <1>4, <1>5, <1>6 DEF StakeSum, RequiredStake, U

-----------------------------------------------------------------------------
(* Filtered sequences *)

\* r is what a filter leaves of the first n elements of s: e tells where each
\* of its elements comes from.
FilteredBy(s, S, n, r, e) ==
  /\ e \in [1..Len(r) -> 1..n]
  /\ \A k \in 1..Len(r) : r[k] = s[e[k]] /\ s[e[k]] \in S
  /\ \A j, k \in 1..Len(r) : j < k => e[j] < e[k]
  /\ \A i \in 1..n : s[i] \in S => \E k \in 1..Len(r) : e[k] = i

LEMMA FilterStep ==
  ASSUME NEW D, NEW s \in Seq(D), NEW S, NEW n \in Nat, n + 1 \in 1..Len(s),
         NEW r \in Seq(D), NEW e, FilteredBy(s, S, n, r, e),
         NEW q, q = IF s[n + 1] \in S THEN Append(r, s[n + 1]) ELSE r
  PROVE  q \in Seq(D) /\ \E d : FilteredBy(s, S, n + 1, q, d)
<1>0. s[n + 1] \in D
  OBVIOUS
<1>1. CASE s[n + 1] \in S
  <2> DEFINE m == Len(r)
             d == [k \in 1..(m + 1) |-> IF k = m + 1 THEN n + 1 ELSE e[k]]
  <2>1. /\ q \in Seq(D) /\ Len(q) = m + 1 /\ m \in Nat
        /\ \A k \in 1..m : q[k] = r[k]
        /\ q[m + 1] = s[n + 1]
    BY <1>0, <1>1
  <2>2. /\ e \in [1..m -> 1..n]
        /\ \A k \in 1..m : r[k] = s[e[k]] /\ s[e[k]] \in S
        /\ \A j, k \in 1..m : j < k => e[j] < e[k]
        /\ \A i \in 1..n : s[i] \in S => \E k \in 1..m : e[k] = i
    BY DEF FilteredBy
  <2>3. ASSUME NEW k \in 1..m
        PROVE  d[k] = e[k] /\ e[k] \in 1..n
    <3>1. k \in 1..(m + 1) /\ k # m + 1
      BY <2>1
    <3>2. e[k] \in 1..n
      BY <2>2
    <3> QED BY <3>1, <3>2
  <2>4. d[m + 1] = n + 1 /\ m + 1 \in 1..(m + 1)
    BY <2>1
  <2>5. d \in [1..(m + 1) -> 1..(n + 1)]
    BY <2>2, <2>1
  <2> HIDE DEF d, m
  <2>6. \A k \in 1..(m + 1) : k \in 1..m \/ k = m + 1
    BY <2>1
  <2>7. \A k \in 1..(m + 1) : q[k] = s[d[k]] /\ s[d[k]] \in S
    BY <1>1, <2>1, <2>2, <2>3, <2>4, <2>6
  <2>8. \A j, k \in 1..(m + 1) : j < k => d[j] < d[k]
    BY <2>1, <2>2, <2>3, <2>4, <2>6
  <2>9. ASSUME NEW i \in 1..(n + 1), s[i] \in S
        PROVE  \E k \in 1..(m + 1) : d[k] = i
    <3>1. CASE i = n + 1
      BY <2>4, <3>1
    <3>2. CASE i \in 1..n
      <4>1. PICK k \in 1..m : e[k] = i
        BY <2>2, <2>9, <3>2
      <4> QED BY <2>1, <2>3, <4>1
    <3> QED BY <3>1, <3>2
  <2>10. FilteredBy(s, S, n + 1, q, d)
    BY <2>1, <2>5, <2>7, <2>8, <2>9 DEF FilteredBy
  <2> QED BY <2>1, <2>10
<1>2. CASE s[n + 1] \notin S
  <2>1. FilteredBy(s, S, n + 1, r, e)
    BY <1>2 DEF FilteredBy
  <2> QED BY <1>2, <2>1
<1> QED
  BY <1>1, <1>2

\* KeepOnly keeps exactly the elements in S, each where it was before the others.
LEMMA KeepOnlyFilters ==
  ASSUME NEW D, NEW s \in Seq(D), NEW S
  PROVE  /\ KeepOnly(s, S) \in Seq(D)
         /\ \E e : FilteredBy(s, S, Len(s), KeepOnly(s, S), e)
<1> DEFINE L == Len(s)
           Def(f, n) == [i \in 0..n |->
                           IF i = 0 THEN << >>
                           ELSE IF s[i] \in S THEN Append(f[i - 1], s[i]) ELSE f[i - 1]]
           G == {n \in Nat : n <= L =>
                   \E f : /\ f = Def(f, n) /\ f[n] \in Seq(D)
                          /\ \E e : FilteredBy(s, S, n, f[n], e)}
<1>1. L \in Nat
  OBVIOUS
<1>2. 0 \in G
  <2> DEFINE f == [i \in 0..0 |-> << >>]
             z == [k \in 1..0 |-> 0]
  <2>1. f = Def(f, 0) /\ f[0] = << >>
    OBVIOUS
  <2>2. FilteredBy(s, S, 0, << >>, z)
    BY DEF FilteredBy
  <2>3. << >> \in Seq(D)
    OBVIOUS
  <2> HIDE DEF f, z
  <2> QED BY <2>1, <2>2, <2>3
<1>3. ASSUME NEW n \in Nat, n \in G
      PROVE  n + 1 \in G
  <2> HIDE DEF Def
  <2>1. SUFFICES ASSUME n + 1 <= L
                 PROVE  \E f : /\ f = Def(f, n + 1) /\ f[n + 1] \in Seq(D)
                               /\ \E e : FilteredBy(s, S, n + 1, f[n + 1], e)
    OBVIOUS
  <2> USE DEF Def
  <2>2. n <= L /\ n + 1 \in 1..L
    BY <1>1, <2>1
  <2>3. PICK f : /\ f = Def(f, n) /\ f[n] \in Seq(D)
                 /\ \E e : FilteredBy(s, S, n, f[n], e)
    BY <1>3, <2>2
  <2>4. PICK e : FilteredBy(s, S, n, f[n], e)
    BY <2>3
  <2> DEFINE q == IF s[n + 1] \in S THEN Append(f[n], s[n + 1]) ELSE f[n]
             g == [i \in 0..(n + 1) |-> IF i = n + 1 THEN q ELSE f[i]]
  <2>5. q \in Seq(D) /\ \E d : FilteredBy(s, S, n + 1, q, d)
    BY <2>2, <2>3, <2>4, FilterStep
  <2>6. g = Def(g, n + 1)
    <3>1. \A i \in 0..n : f[i] = IF i = 0 THEN << >>
                                 ELSE IF s[i] \in S THEN Append(f[i - 1], s[i])
                                 ELSE f[i - 1]
      BY <2>3
    <3>2. \A i \in 0..n : g[i] = f[i]
      OBVIOUS
    <3>3. ASSUME NEW i \in 0..(n + 1)
          PROVE  g[i] = IF i = 0 THEN << >>
                        ELSE IF s[i] \in S THEN Append(g[i - 1], s[i]) ELSE g[i - 1]
      <4>1. CASE i = n + 1
        <5>1. g[i] = q /\ i - 1 = n /\ g[n] = f[n] /\ i # 0
          BY <3>2, <4>1
        <5> HIDE DEF g
        <5> QED BY <4>1, <5>1
      <4>2. CASE i \in 1..n
        <5>1. g[i] = f[i] /\ g[i - 1] = f[i - 1] /\ i # 0 /\ i \in 0..n
          BY <3>2, <4>2
        <5> HIDE DEF g
        <5> QED BY <3>1, <5>1
      <4>3. CASE i = 0
        <5>1. g[i] = f[i]
          BY <3>2, <4>3
        <5> HIDE DEF g
        <5> QED BY <3>1, <4>3, <5>1
      <4> QED BY <4>1, <4>2, <4>3
    <3>4. g = [i \in 0..(n + 1) |-> g[i]]
      OBVIOUS
    <3> HIDE DEF g
    <3> QED BY <3>3, <3>4
  <2>7. g[n + 1] = q
    OBVIOUS
  <2> HIDE DEF g, q, Def
  <2> QED BY <2>5, <2>6, <2>7
<1>4. L \in G
  <2> HIDE DEF G
  <2> QED BY <1>1, <1>2, <1>3, NumberInduction
<1> DEFINE F == CHOOSE f : f = Def(f, L)
<1>5. PICK f : /\ f = Def(f, L) /\ f[L] \in Seq(D)
               /\ \E e : FilteredBy(s, S, L, f[L], e)
  BY <1>1, <1>4
<1>6. F = Def(F, L)
  <2> HIDE DEF Def
  <2> QED BY <1>5
<1>7. F[L] = f[L]
  <2>0. ASSUME NEW g, g = Def(g, L)
        PROVE  /\ g[0] = << >>
               /\ \A n \in Nat : n + 1 <= L =>
                    g[n + 1] = IF s[n + 1] \in S THEN Append(g[n], s[n + 1]) ELSE g[n]
    <3>1. \A i \in 0..L : g[i] = IF i = 0 THEN << >>
                                 ELSE IF s[i] \in S THEN Append(g[i - 1], s[i])
                                 ELSE g[i - 1]
      BY <2>0
    <3>2. g[0] = << >>
      BY <1>1, <3>1
    <3>3. ASSUME NEW n \in Nat, n + 1 <= L
          PROVE  g[n + 1] = IF s[n + 1] \in S THEN Append(g[n], s[n + 1]) ELSE g[n]
      <4>1. n + 1 \in 0..L /\ n + 1 # 0 /\ (n + 1) - 1 = n
        BY <1>1, <3>3
      <4> QED BY <3>1, <4>1
    <3> QED BY <3>2, <3>3
  <2> HIDE DEF F, Def
  <2> DEFINE H == {n \in Nat : n <= L => F[n] = f[n]}
  <2>1. 0 \in H
    <3>1. F[0] = << >> /\ f[0] = << >>
      BY <1>5, <1>6, <2>0
    <3> QED BY <3>1
  <2>2. ASSUME NEW n \in Nat, n \in H
        PROVE  n + 1 \in H
    <3>1. SUFFICES ASSUME n + 1 <= L PROVE F[n + 1] = f[n + 1]
      OBVIOUS
    <3>2. F[n] = f[n] /\ n + 1 \in 0..L /\ n + 1 # 0 /\ (n + 1) - 1 = n
      BY <1>1, <2>2, <3>1
    <3>3. F[n + 1] = IF s[n + 1] \in S THEN Append(F[n], s[n + 1]) ELSE F[n]
      BY <1>6, <2>0, <3>1
    <3>4. f[n + 1] = IF s[n + 1] \in S THEN Append(f[n], s[n + 1]) ELSE f[n]
      BY <1>5, <2>0, <3>1
    <3> QED BY <3>2, <3>3, <3>4
  <2> HIDE DEF H
  <2>3. L \in H
    BY <1>1, <2>1, <2>2, NumberInduction
  <2> QED BY <1>1, <2>3 DEF H
<1>8. KeepOnly(s, S) = F[L]
  BY DEF KeepOnly
<1> QED
  BY <1>5, <1>7, <1>8

\* A filter takes every element from the sequence, keeps every element of S
\* somewhere and never lengthens.
LEMMA KeepOnlyElements ==
  ASSUME NEW D, NEW s \in Seq(D), NEW S
  PROVE  /\ KeepOnly(s, S) \in Seq(D)
         /\ Len(KeepOnly(s, S)) <= Len(s)
         /\ \A i \in 1..Len(s) : s[i] \in S =>
              \E k \in 1..Len(KeepOnly(s, S)) : KeepOnly(s, S)[k] = s[i]
         /\ \A k \in 1..Len(KeepOnly(s, S)) : KeepOnly(s, S)[k] \in S
<1> DEFINE r == KeepOnly(s, S)
<1>1. r \in Seq(D) /\ \E e : FilteredBy(s, S, Len(s), r, e)
  BY KeepOnlyFilters
<1> HIDE DEF r
<1>2. PICK e : FilteredBy(s, S, Len(s), r, e)
  BY <1>1
<1>3. Len(r) \in Nat /\ Len(s) \in Nat
  BY <1>1
<1>4. Len(r) <= Len(s)
  <2> DEFINE A == 1..Len(r)
             B == 1..Len(s)
  <2>1. e \in [A -> B] /\ \A j, k \in A : j < k => e[j] < e[k]
    BY <1>2 DEF FilteredBy
  <2>2. \A j, k \in A : e[j] = e[k] => j = k
    <3>1. SUFFICES ASSUME NEW j \in A, NEW k \in A, j # k PROVE e[j] # e[k]
      OBVIOUS
    <3>2. j < k \/ k < j
      BY <3>1
    <3>3. e[j] \in Int /\ e[k] \in Int
      BY <2>1
    <3> QED BY <2>1, <3>2, <3>3
  <2>3. e \in Injection(A, B)
    <3> HIDE DEF A, B
    <3> QED BY <2>1, <2>2 DEF Injection, IsInjective
  <2>4. /\ IsFiniteSet(A) /\ Cardinality(A) = Len(r)
        /\ IsFiniteSet(B) /\ Cardinality(B) = Len(s)
    <3>1. ASSUME NEW n \in Nat
          PROVE  IsFiniteSet(1..n) /\ Cardinality(1..n) = n
      BY FS_Interval
    <3> QED BY <1>3, <3>1, Zenon
  <2> HIDE DEF A, B
  <2>5. Cardinality(A) <= Cardinality(B)
    BY <2>3, <2>4, FS_Injection
  <2> QED BY <2>4, <2>5
<1>5. /\ \A i \in 1..Len(s) : s[i] \in S => \E k \in 1..Len(r) : e[k] = i
      /\ \A k \in 1..Len(r) : r[k] = s[e[k]] /\ s[e[k]] \in S
  BY <1>2 DEF FilteredBy
<1>6. \A i \in 1..Len(s) : s[i] \in S => \E k \in 1..Len(r) : r[k] = s[i]
  BY <1>5
<1> QED
  BY <1>1, <1>4, <1>5, <1>6 DEF r

\* s is in the order R: what comes first is related to what comes later.
Ascending(s, R) == \A i, j \in 1..Len(s) : i < j => <<s[i], s[j]>> \in R

TakenFrom(r, s) == \A k \in 1..Len(r) : \E i \in 1..Len(s) : r[k] = s[i]

\* A filter keeps the order, and takes its elements from the sequence.
LEMMA KeepOnlyAscending ==
  ASSUME NEW D, NEW s \in Seq(D), NEW S, NEW R, Ascending(s, R)
  PROVE  /\ Ascending(KeepOnly(s, S), R)
         /\ TakenFrom(KeepOnly(s, S), s)
<1> DEFINE r == KeepOnly(s, S)
<1>1. r \in Seq(D) /\ \E e : FilteredBy(s, S, Len(s), r, e)
  BY KeepOnlyFilters
<1> HIDE DEF r
<1>2. PICK e : FilteredBy(s, S, Len(s), r, e)
  BY <1>1
<1>3. /\ \A k \in 1..Len(r) : e[k] \in 1..Len(s) /\ r[k] = s[e[k]]
      /\ \A j, k \in 1..Len(r) : j < k => e[j] < e[k]
  BY <1>2 DEF FilteredBy
<1>4. ASSUME NEW j \in 1..Len(r), NEW k \in 1..Len(r), j < k
      PROVE  <<r[j], r[k]>> \in R
  BY <1>3, <1>4 DEF Ascending
<1> QED
  BY <1>3, <1>4 DEF Ascending, TakenFrom, r

-----------------------------------------------------------------------------
(* The Merkle tree.  A recursive function that stands in a definition is   *)
(* one that satisfies its equation: first, that there is such a function.  *)

LEMMA TreeLevelsStep ==
    ASSUME NEW leaves, Len(leaves) \in Nat, Len(leaves) > 0
    PROVE  LET level == TreeLevels(leaves)
               n     == Len(leaves)
           IN  /\ DOMAIN level = 1..n /\ level[1] = leaves
               /\ \A d \in 1..(n - 1) :
                      level[d + 1] = IF Len(level[d]) > 1 THEN NextLevel(level[d])
                                     ELSE level[d]
<1> DEFINE Step(d, x) == IF Len(x) > 1 THEN NextLevel(x) ELSE x
           Def(f, m) == [d \in 1..m |-> IF d = 1 THEN leaves ELSE Step(d, f[d - 1])]
           G == {m \in Nat : \E f : f = Def(f, m)}
<1> HIDE DEF Step
<1>1. 0 \in G
    <2> DEFINE f == [d \in 1..0 |-> leaves]
    <2>1. f = Def(f, 0)
        OBVIOUS
    <2> HIDE DEF f
    <2> QED BY <2>1
<1>2. ASSUME NEW m \in Nat, m \in G PROVE m + 1 \in G
    <2>1. PICK f : f = Def(f, m)
        BY <1>2
    <2> DEFINE q == IF m + 1 = 1 THEN leaves ELSE Step(m + 1, f[m])
               g == [d \in 1..(m + 1) |-> IF d = m + 1 THEN q ELSE f[d]]
    <2>2. g = Def(g, m + 1)
        <3>1. \A d \in 1..m : f[d] = IF d = 1 THEN leaves ELSE Step(d, f[d - 1])
            BY <2>1
        <3>2. \A d \in 1..m : g[d] = f[d]
            OBVIOUS
        <3>3. ASSUME NEW d \in 1..(m + 1)
              PROVE  g[d] = IF d = 1 THEN leaves ELSE Step(d, g[d - 1])
            <4>1. CASE d = m + 1
                <5>1. g[d] = q /\ d - 1 = m /\ (d # 1 => g[m] = f[m])
                    BY <3>2, <4>1
                <5> HIDE DEF g
                <5> QED BY <4>1, <5>1
            <4>2. CASE d \in 1..m
                <5>1. g[d] = f[d] /\ (d # 1 => g[d - 1] = f[d - 1])
                    BY <3>2, <4>2
                <5> HIDE DEF g
                <5> QED BY <3>1, <4>2, <5>1
            <4> QED BY <4>1, <4>2
        <3>4. g = [d \in 1..(m + 1) |-> g[d]]
            OBVIOUS
        <3> HIDE DEF g
        <3> QED BY <3>3, <3>4
    <2> HIDE DEF g, q, Def
    <2> QED BY <2>2
<1>3. Nat \subseteq G
    <2> HIDE DEF G
    <2> QED BY <1>1, <1>2, NumberInduction
<1> DEFINE n == Len(leaves)
           F == CHOOSE f : f = Def(f, n)
<1>4. F = Def(F, n)
    <2> HIDE DEF Def
    <2>1. n \in G
        BY <1>3
    <2> QED BY <2>1
<1>5. TreeLevels(leaves) = F
    BY DEF TreeLevels, Step
<1> HIDE DEF F, n
<1>6. DOMAIN F = 1..n /\ \A d \in 1..n : F[d] = IF d = 1 THEN leaves ELSE Step(d, F[d - 1])
    BY <1>4
<1>7. F[1] = leaves
    BY <1>6 DEF n
<1>8. ASSUME NEW d \in 1..(n - 1)
      PROVE  F[d + 1] = IF Len(F[d]) > 1 THEN NextLevel(F[d]) ELSE F[d]
    <2>1. n \in Nat
        BY DEF n
    <2>2. d + 1 \in 1..n /\ d + 1 # 1 /\ (d + 1) - 1 = d
        BY <2>1
    <2> QED BY <1>6, <2>2 DEF Step
<1> QED
    BY <1>5, <1>6, <1>7, <1>8 DEF n

LEMMA IndexAtStep ==
    ASSUME NEW index, NEW depth \in Nat
    PROVE  LET at == IndexAt(index, depth)
           IN  /\ 1 <= depth => at[1] = index
               /\ \A d \in 1..(depth - 1) : at[d + 1] = at[d] \div 2
<1> DEFINE Step(d, x) == x \div 2
           Def(f, m) == [d \in 1..m |-> IF d = 1 THEN index ELSE Step(d, f[d - 1])]
           G == {m \in Nat : \E f : f = Def(f, m)}
<1> HIDE DEF Step
<1>1. 0 \in G
    <2> DEFINE f == [d \in 1..0 |-> index]
    <2>1. f = Def(f, 0)
        OBVIOUS
    <2> HIDE DEF f
    <2> QED BY <2>1
<1>2. ASSUME NEW m \in Nat, m \in G PROVE m + 1 \in G
    <2>1. PICK f : f = Def(f, m)
        BY <1>2
    <2> DEFINE q == IF m + 1 = 1 THEN index ELSE Step(m + 1, f[m])
               g == [d \in 1..(m + 1) |-> IF d = m + 1 THEN q ELSE f[d]]
    <2>2. g = Def(g, m + 1)
        <3>1. \A d \in 1..m : f[d] = IF d = 1 THEN index ELSE Step(d, f[d - 1])
            BY <2>1
        <3>2. \A d \in 1..m : g[d] = f[d]
            OBVIOUS
        <3>3. ASSUME NEW d \in 1..(m + 1)
              PROVE  g[d] = IF d = 1 THEN index ELSE Step(d, g[d - 1])
            <4>1. CASE d = m + 1
                <5>1. g[d] = q /\ d - 1 = m /\ (d # 1 => g[m] = f[m])
                    BY <3>2, <4>1
                <5> HIDE DEF g
                <5> QED BY <4>1, <5>1
            <4>2. CASE d \in 1..m
                <5>1. g[d] = f[d] /\ (d # 1 => g[d - 1] = f[d - 1])
                    BY <3>2, <4>2
                <5> HIDE DEF g
                <5> QED BY <3>1, <4>2, <5>1
            <4> QED BY <4>1, <4>2
        <3>4. g = [d \in 1..(m + 1) |-> g[d]]
            OBVIOUS
        <3> HIDE DEF g
        <3> QED BY <3>3, <3>4
    <2> HIDE DEF g, q, Def
    <2> QED BY <2>2
<1>3. Nat \subseteq G
    <2> HIDE DEF G
    <2> QED BY <1>1, <1>2, NumberInduction
<1> DEFINE F == CHOOSE f : f = Def(f, depth)
<1>4. F = Def(F, depth)
    <2> HIDE DEF Def
    <2>1. depth \in G
        BY <1>3
    <2> QED BY <2>1
<1>5. IndexAt(index, depth) = F
    BY DEF IndexAt, Step
<1> HIDE DEF F
<1>6. \A d \in 1..depth : F[d] = IF d = 1 THEN index ELSE Step(d, F[d - 1])
    BY <1>4
<1>7. ASSUME NEW d \in 1..(depth - 1) PROVE F[d + 1] = F[d] \div 2
    <2>1. d + 1 \in 1..depth /\ d + 1 # 1 /\ (d + 1) - 1 = d
        OBVIOUS
    <2> QED BY <1>6, <2>1 DEF Step
<1>8. 1 <= depth => F[1] = index
    BY <1>6
<1> QED
    BY <1>5, <1>7, <1>8

LEMMA VerifyProofStep ==
    ASSUME NEW proof, NEW root, Len(proof.sibling_hashes) \in Nat
    PROVE  LET h  == Len(proof.sibling_hashes)
               at == IndexAt(proof.leaf_index, h)
           IN  \E f : /\ f[0] = proof.leaf_hash
                      /\ \A d \in 1..h :
                             f[d] = IF at[d] % 2 = 0
                                    THEN HashPair(f[d - 1], proof.sibling_hashes[d])
                                    ELSE HashPair(proof.sibling_hashes[d], f[d - 1])
                      /\ VerifyProof(proof, root) <=> f[h] = root
<1> DEFINE Step(d, x) == IF IndexAt(proof.leaf_index, Len(proof.sibling_hashes))[d] % 2 = 0
                         THEN HashPair(x, proof.sibling_hashes[d])
                         ELSE HashPair(proof.sibling_hashes[d], x)
           Def(f, m) == [d \in 0..m |-> IF d = 0 THEN proof.leaf_hash ELSE Step(d, f[d - 1])]
           G == {m \in Nat : \E f : f = Def(f, m)}
<1> HIDE DEF Step
<1>1. 0 \in G
    <2> DEFINE f == [d \in 0..0 |-> proof.leaf_hash]
    <2>1. f = Def(f, 0)
        OBVIOUS
    <2> HIDE DEF f
    <2> QED BY <2>1
<1>2. ASSUME NEW m \in Nat, m \in G PROVE m + 1 \in G
    <2>1. PICK f : f = Def(f, m)
        BY <1>2
    <2> DEFINE q == IF m + 1 = 0 THEN proof.leaf_hash ELSE Step(m + 1, f[m])
               g == [d \in 0..(m + 1) |-> IF d = m + 1 THEN q ELSE f[d]]
    <2>2. g = Def(g, m + 1)
        <3>1. \A d \in 0..m : f[d] = IF d = 0 THEN proof.leaf_hash ELSE Step(d, f[d - 1])
            BY <2>1
        <3>2. \A d \in 0..m : g[d] = f[d]
            OBVIOUS
        <3>3. ASSUME NEW d \in 0..(m + 1)
              PROVE  g[d] = IF d = 0 THEN proof.leaf_hash ELSE Step(d, g[d - 1])
            <4>1. CASE d = m + 1
                <5>1. g[d] = q /\ d - 1 = m /\ (d # 0 => g[m] = f[m])
                    BY <3>2, <4>1
                <5> HIDE DEF g
                <5> QED BY <4>1, <5>1
            <4>2. CASE d \in 0..m
                <5>1. g[d] = f[d] /\ (d # 0 => g[d - 1] = f[d - 1])
                    BY <3>2, <4>2
                <5> HIDE DEF g
                <5> QED BY <3>1, <4>2, <5>1
            <4> QED BY <4>1, <4>2
        <3>4. g = [d \in 0..(m + 1) |-> g[d]]
            OBVIOUS
        <3> HIDE DEF g
        <3> QED BY <3>3, <3>4
    <2> HIDE DEF g, q, Def
    <2> QED BY <2>2
<1>3. Nat \subseteq G
    <2> HIDE DEF G
    <2> QED BY <1>1, <1>2, NumberInduction
<1> DEFINE h == Len(proof.sibling_hashes)
           F == CHOOSE f : f = Def(f, h)
<1>4. F = Def(F, h)
    <2> HIDE DEF Def
    <2>1. h \in G
        BY <1>3
    <2> QED BY <2>1
<1>5. VerifyProof(proof, root) <=> F[h] = root
    BY DEF VerifyProof, Step
<1> HIDE DEF F, h
<1>6. \A d \in 0..h : F[d] = IF d = 0 THEN proof.leaf_hash ELSE Step(d, F[d - 1])
    BY <1>4
<1>7. h \in Nat
    BY DEF h
<1>8. F[0] = proof.leaf_hash
    BY <1>6, <1>7
<1>9. ASSUME NEW d \in 1..h
      PROVE  F[d] = IF IndexAt(proof.leaf_index, h)[d] % 2 = 0
                    THEN HashPair(F[d - 1], proof.sibling_hashes[d])
                    ELSE HashPair(proof.sibling_hashes[d], F[d - 1])
    <2>1. d \in 0..h /\ d # 0
        OBVIOUS
    <2> QED BY <1>6, <2>1 DEF Step, h
<1> QED
    BY <1>5, <1>8, <1>9 DEF h

\* Halving, rounded up, comes down to one: what is above one gets smaller.
LEMMA HalvingEnds ==
    ASSUME NEW n \in Nat, n > 0, NEW len \in [1..n -> Nat], len[1] = n,
           \A d \in 1..(n - 1) :
               len[d + 1] = IF len[d] > 1 THEN (len[d] + 1) \div 2 ELSE len[d]
    PROVE  (\A d \in 1..n : len[d] > 0) /\ len[n] = 1
<1> DEFINE Short(d) == len[d] = 1 \/ (len[d] > 0 /\ len[d] + d <= n + 1)
           G == {d \in Nat : d + 1 <= n => Short(d + 1)}
<1>1. 0 \in G
    OBVIOUS
<1>2. ASSUME NEW d \in Nat, d \in G PROVE d + 1 \in G
    <2>1. PICK e : e = d + 1
        OBVIOUS
    <2>2. SUFFICES ASSUME e + 1 <= n PROVE Short(e + 1)
        BY <2>1
    <2>3. e \in 1..(n - 1) /\ e \in 1..n /\ e + 1 \in 1..n /\ e <= n
        BY <2>1, <2>2
    <2>4. Short(e)
        BY <1>2, <2>1, <2>3
    <2>5. PICK k \in Nat : k = len[e]
        BY <2>3
    <2>6. len[e + 1] = IF k > 1 THEN (k + 1) \div 2 ELSE k
        BY <2>3, <2>5
    <2>7. k = 1 \/ (k > 0 /\ k + e <= n + 1)
        BY <2>4, <2>5
    <2>8. CASE k > 1
        <3>1. (k + 1) \div 2 > 0 /\ (k + 1) \div 2 <= k - 1
            BY <2>8
        <3>2. PICK j \in Int : j = (k + 1) \div 2
            OBVIOUS
        <3>3. j > 0 /\ j + (e + 1) <= n + 1
            BY <2>3, <2>7, <2>8, <3>1, <3>2
        <3>4. len[e + 1] = j
            BY <2>6, <2>8, <3>2
        <3> QED BY <3>3, <3>4
    <2>9. CASE ~(k > 1)
        BY <2>6, <2>7, <2>9
    <2> QED BY <2>8, <2>9
<1>3. Nat \subseteq G
    <2> HIDE DEF G
    <2> QED BY <1>1, <1>2, NumberInduction
<1>4. ASSUME NEW d \in 1..n PROVE Short(d)
    <2>1. d - 1 \in Nat /\ (d - 1) + 1 = d /\ d <= n
        OBVIOUS
    <2>2. d - 1 \in G
        BY <1>3, <2>1
    <2> HIDE DEF Short
    <2> QED BY <2>1, <2>2
<1>5. \A d \in 1..n : len[d] > 0
    BY <1>4
<1>6. len[n] = 1
    <2>1. Short(n) /\ n \in 1..n
        BY <1>4
    <2>2. PICK k \in Nat : k = len[n]
        BY <2>1
    <2>3. k = 1 \/ (k > 0 /\ k + n <= n + 1)
        BY <2>1, <2>2
    <2> QED BY <2>2, <2>3
<1> QED
    BY <1>5, <1>6

\* Levels are never empty, and shorter and shorter until the root is alone.
LEMMA TreeShape ==
    ASSUME NEW leaves, Len(leaves) \in Nat, Len(leaves) > 0
    PROVE  LET level == TreeLevels(leaves)
               n     == Len(leaves)
           IN  /\ \A d \in 1..n : Len(level[d]) \in Nat /\ Len(level[d]) > 0
               /\ Len(level[n]) = 1
<1>1. PICK level, n : level = TreeLevels(leaves) /\ n = Len(leaves)
    OBVIOUS
<1>2. /\ n \in Nat /\ n > 0 /\ level[1] = leaves
      /\ \A d \in 1..(n - 1) :
             level[d + 1] = IF Len(level[d]) > 1 THEN NextLevel(level[d]) ELSE level[d]
    BY <1>1, TreeLevelsStep
<1>3. ASSUME NEW l, Len(l) \in Nat PROVE Len(NextLevel(l)) = (Len(l) + 1) \div 2
    <2>1. (Len(l) + 1) \div 2 \in Nat
        BY <1>3
    <2> QED BY <2>1 DEF NextLevel
<1> DEFINE G == {d \in Nat : d + 1 <= n => Len(level[d + 1]) \in Nat}
<1>4. 0 \in G
    BY <1>1, <1>2
<1>5. ASSUME NEW d \in Nat, d \in G PROVE d + 1 \in G
    <2>1. PICK e : e = d + 1
        OBVIOUS
    <2>2. SUFFICES ASSUME e + 1 <= n PROVE Len(level[e + 1]) \in Nat
        BY <2>1
    <2>3. e \in 1..(n - 1) /\ e <= n
        BY <1>2, <2>1, <2>2
    <2>4. Len(level[e]) \in Nat
        BY <1>5, <2>1, <2>3
    <2>5. PICK l, k : l = level[e] /\ k = Len(l) /\ k \in Nat
        BY <2>4
    <2>6. level[e + 1] = IF k > 1 THEN NextLevel(l) ELSE l
        BY <1>2, <2>3, <2>5
    <2>7. Len(NextLevel(l)) = (k + 1) \div 2 /\ (k + 1) \div 2 \in Nat
        <3>1. Len(l) \in Nat
            BY <2>5
        <3>2. Len(NextLevel(l)) = (Len(l) + 1) \div 2
            BY <1>3, <3>1
        <3>3. \A j \in Nat : (j + 1) \div 2 \in Nat
            OBVIOUS
        <3> QED BY <2>5, <3>2, <3>3
    <2>8. CASE k > 1
        BY <2>6, <2>7, <2>8
    <2>9. CASE ~(k > 1)
        BY <2>5, <2>6, <2>9
    <2> QED BY <2>8, <2>9
<1>6. Nat \subseteq G
    <2> HIDE DEF G
    <2> QED BY <1>4, <1>5, NumberInduction
<1>7. \A d \in 1..n : Len(level[d]) \in Nat
    <2>1. SUFFICES ASSUME NEW d \in 1..n PROVE Len(level[d]) \in Nat
        OBVIOUS
    <2>2. d - 1 \in Nat /\ (d - 1) + 1 = d /\ d <= n
        BY <1>2
    <2>3. d - 1 \in G
        BY <1>6, <2>2
    <2> QED BY <2>2, <2>3
<1>8. PICK len : len = [d \in 1..n |-> Len(level[d])]
    OBVIOUS
<1>9. len \in [1..n -> Nat] /\ \A d \in 1..n : len[d] = Len(level[d])
    BY <1>7, <1>8
<1>10. 1 \in 1..n /\ n \in 1..n
    BY <1>2
<1>11. len[1] = n
    BY <1>1, <1>2, <1>9, <1>10
<1>12. ASSUME NEW d \in 1..(n - 1)
       PROVE  len[d + 1] = IF len[d] > 1 THEN (len[d] + 1) \div 2 ELSE len[d]
    <2>1. d \in 1..n /\ d + 1 \in 1..n
        BY <1>2
    <2>2. PICK l, k : l = level[d] /\ k = Len(l) /\ k = len[d] /\ k \in Nat
        BY <1>7, <1>9, <2>1
    <2>3. level[d + 1] = IF k > 1 THEN NextLevel(l) ELSE l
        BY <1>2, <2>2
    <2>4. Len(NextLevel(l)) = (k + 1) \div 2
        BY <1>3, <2>2
    <2>5. Len(level[d + 1]) = IF k > 1 THEN (k + 1) \div 2 ELSE k
        BY <2>2, <2>3, <2>4
    <2> QED BY <1>9, <2>1, <2>2, <2>5
<1>13. (\A d \in 1..n : len[d] > 0) /\ len[n] = 1
    BY <1>2, <1>9, <1>11, <1>12, HalvingEnds
<1>14. /\ \A d \in 1..n : Len(level[d]) \in Nat /\ Len(level[d]) > 0
       /\ Len(level[n]) = 1
    BY <1>7, <1>9, <1>10, <1>13
<1> QED
    BY <1>1, <1>14

\* The depth of a tree: the first level with the root alone.
LEMMA DepthIs ==
    ASSUME NEW leaves, Len(leaves) \in Nat, Len(leaves) > 0
    PROVE  LET level == TreeLevels(leaves)
               depth == Depth(level)
           IN  /\ depth \in 1..Len(leaves) /\ Len(level[depth]) = 1
               /\ \A d \in 1..(depth - 1) :
                      Len(level[d]) > 1 /\ level[d + 1] = NextLevel(level[d])
<1> DEFINE n == Len(leaves)
<1>1. PICK level : level = TreeLevels(leaves)
    OBVIOUS
<1>2. /\ n \in Nat /\ n > 0 /\ DOMAIN level = 1..n
      /\ \A d \in 1..(n - 1) :
             level[d + 1] = IF Len(level[d]) > 1 THEN NextLevel(level[d]) ELSE level[d]
    BY <1>1, TreeLevelsStep
<1>3. /\ \A d \in 1..n : Len(level[d]) \in Nat /\ Len(level[d]) > 0
      /\ Len(level[n]) = 1
    BY <1>1, TreeShape
<1> HIDE DEF n
<1> DEFINE S == {d \in 1..n : Len(level[d]) = 1}
<1>4. S \in SUBSET Nat /\ S # {}
    BY <1>2, <1>3
<1>5. PICK x \in S : \A y \in S : x <= y
    <2> HIDE DEF S
    <2> QED BY <1>4, LeastExists
<1>6. \A e \in 1..(x - 1) : Len(level[e]) > 1
    <2>1. SUFFICES ASSUME NEW e \in 1..(x - 1) PROVE Len(level[e]) > 1
        OBVIOUS
    <2>2. e \in 1..n /\ ~(x <= e)
        BY <1>2, <1>5, <2>1
    <2>3. PICK k \in Nat : k = Len(level[e])
        BY <1>3, <2>2
    <2>4. k # 1 /\ k > 0
        BY <1>3, <1>5, <2>2, <2>3
    <2>5. k > 1
        BY <2>4
    <2> QED BY <2>3, <2>5
<1> DEFINE Last(d) == Len(level[d]) = 1 /\ \A e \in 1..(d - 1) : Len(level[e]) > 1
<1>7. x \in DOMAIN level /\ Last(x)
    BY <1>2, <1>5, <1>6
<1>8. Depth(level) \in DOMAIN level /\ Last(Depth(level))
    BY <1>7 DEF Depth
<1>9. PICK depth : depth = Depth(level)
    OBVIOUS
<1>10. ASSUME NEW d \in 1..(depth - 1)
       PROVE  Len(level[d]) > 1 /\ level[d + 1] = NextLevel(level[d])
    <2>1. Len(level[d]) > 1
        BY <1>8, <1>9
    <2>2. d \in 1..(n - 1)
        BY <1>2, <1>8, <1>9
    <2> QED BY <1>2, <2>1, <2>2
<1> QED
    BY <1>1, <1>2, <1>8, <1>9, <1>10 DEF n

\* One step up the tree: a node hashed with its sibling, on the side its index
\* says, is the node's parent, and another value is not.
LEMMA ParentHash ==
    ASSUME NEW level, Len(level) \in Nat, NEW i \in 0..(Len(level) - 1), NEW x,
           NEW y, y = IF i % 2 = 0 THEN HashPair(x, GetSibling(level, i))
                      ELSE HashPair(GetSibling(level, i), x)
    PROVE  /\ i \div 2 \in 0..(Len(NextLevel(level)) - 1)
           /\ y = NextLevel(level)[(i \div 2) + 1] <=> x = level[i + 1]
<1> DEFINE L == Len(level)
           k == i \div 2
           m == (L + 1) \div 2
           next == NextLevel(level)
<1>1. /\ m \in Nat /\ k \in 0..(m - 1) /\ k + 1 \in 1..m
      /\ i % 2 = 0 => 2 * k = i
      /\ i % 2 # 0 => 2 * k = i - 1
    OBVIOUS
<1>2. /\ next = [j \in 1..m |-> HashPair(level[2 * j - 1],
                                         IF 2 * j <= L THEN level[2 * j] ELSE level[2 * j - 1])]
      /\ Len(next) = m
    BY <1>1 DEF NextLevel
<1>3. next[k + 1] = HashPair(level[2 * (k + 1) - 1],
                             IF 2 * (k + 1) <= L THEN level[2 * (k + 1)]
                             ELSE level[2 * (k + 1) - 1])
    <2> HIDE DEF next, m, k, L
    <2> QED BY <1>1, <1>2
<1>4. CASE i % 2 = 0
    <2>1. 2 * (k + 1) - 1 = i + 1 /\ 2 * (k + 1) = i + 2 /\ (i + 1 < L <=> i + 2 <= L)
        BY <1>1, <1>4
    <2>2. next[k + 1] = HashPair(level[i + 1], IF i + 2 <= L THEN level[i + 2] ELSE level[i + 1])
        <3> HIDE DEF next, k, L
        <3> QED BY <1>3, <2>1
    <2>3. GetSibling(level, i) = IF i + 2 <= L THEN level[i + 2] ELSE level[i + 1]
        <3>1. GetSibling(level, i) = IF i + 1 < L THEN level[(i + 1) + 1] ELSE level[i + 1]
            BY <1>4 DEF GetSibling
        <3>2. (i + 1) + 1 = i + 2
            OBVIOUS
        <3> HIDE DEF L
        <3> QED BY <2>1, <3>1, <3>2
    <2>4. y = HashPair(x, GetSibling(level, i))
        BY <1>4
    <2> HIDE DEF next, k, L, m
    <2>5. y = next[k + 1] <=> x = level[i + 1]
        BY <2>2, <2>3, <2>4 DEF HashPair
    <2> QED BY <1>1, <1>2, <2>5 DEF next, k, L
<1>5. CASE i % 2 # 0
    <2>1. 2 * (k + 1) - 1 = i /\ 2 * (k + 1) = i + 1 /\ i + 1 <= L /\ (i - 1) + 1 = i
        BY <1>1, <1>5
    <2>2. next[k + 1] = HashPair(level[i], level[i + 1])
        <3> HIDE DEF next, k, L
        <3> QED BY <1>3, <2>1
    <2>3. GetSibling(level, i) = level[i]
        <3>1. GetSibling(level, i) = IF i - 1 < L THEN level[(i - 1) + 1] ELSE level[i + 1]
            BY <1>5 DEF GetSibling
        <3>2. i - 1 < L
            OBVIOUS
        <3> HIDE DEF L
        <3> QED BY <2>1, <3>1, <3>2
    <2>4. y = HashPair(GetSibling(level, i), x)
        BY <1>5
    <2> HIDE DEF next, k, L, m
    <2>5. y = next[k + 1] <=> x = level[i + 1]
        BY <2>2, <2>3, <2>4 DEF HashPair
    <2> QED BY <1>1, <1>2, <2>5 DEF next, k, L
<1> QED
    BY <1>4, <1>5

\* verify_proof with what generate_proof made accepts the leaf it was made for
\* and no other, for every number of leaves.
LEMMA ProofsVerify ==
    ASSUME NEW leaves, Len(leaves) \in Nat, Len(leaves) > 0, NEW index \in 0..(Len(leaves) - 1), NEW leaf
    PROVE  VerifyProof([GenerateProof(leaves, index) EXCEPT !.leaf_hash = leaf], GetRoot(leaves))
             <=> leaf = leaves[index + 1]
<1>1. PICK level, depth : level = TreeLevels(leaves) /\ depth = Depth(level)
    OBVIOUS
<1>2. /\ depth \in 1..Len(leaves) /\ Len(level[depth]) = 1
      /\ \A d \in 1..(depth - 1) : level[d + 1] = NextLevel(level[d])
    BY <1>1, DepthIs
<1>3. /\ \A d \in 1..Len(leaves) : Len(level[d]) \in Nat /\ Len(level[d]) > 0
      /\ level[1] = leaves
    BY <1>1, TreeShape, TreeLevelsStep
<1>4. PICK at : at = IndexAt(index, depth)
    OBVIOUS
<1>5. at[1] = index /\ \A d \in 1..(depth - 1) : at[d + 1] = at[d] \div 2
    BY <1>2, <1>4, IndexAtStep
<1>6. PICK proof : proof = [GenerateProof(leaves, index) EXCEPT !.leaf_hash = leaf]
    OBVIOUS
<1>7. /\ proof.leaf_index = index /\ proof.leaf_hash = leaf
      /\ proof.sibling_hashes = [d \in 1..(depth - 1) |-> GetSibling(level[d], at[d])]
    BY <1>1, <1>4, <1>6 DEF GenerateProof
<1>8. Len(proof.sibling_hashes) = depth - 1 /\ depth - 1 \in Nat
    BY <1>2, <1>7
<1>9. GetRoot(leaves) = level[depth][1]
    BY <1>1 DEF GetRoot
<1>10. PICK root : root = GetRoot(leaves)
    OBVIOUS
<1>11. PICK up : up = IndexAt(index, depth - 1)
    OBVIOUS
<1>12. PICK f : /\ f[0] = leaf
                /\ \A d \in 1..(depth - 1) :
                       f[d] = IF up[d] % 2 = 0
                              THEN HashPair(f[d - 1], proof.sibling_hashes[d])
                              ELSE HashPair(proof.sibling_hashes[d], f[d - 1])
                /\ VerifyProof(proof, root) <=> f[depth - 1] = root
    <2>1. PICK g : /\ g[0] = proof.leaf_hash
                   /\ \A d \in 1..Len(proof.sibling_hashes) :
                          g[d] = IF IndexAt(proof.leaf_index, Len(proof.sibling_hashes))[d] % 2 = 0
                                 THEN HashPair(g[d - 1], proof.sibling_hashes[d])
                                 ELSE HashPair(proof.sibling_hashes[d], g[d - 1])
                   /\ VerifyProof(proof, root) <=> g[Len(proof.sibling_hashes)] = root
        BY <1>8, VerifyProofStep
    <2> QED BY <1>7, <1>8, <1>11, <2>1
<1>13. /\ 1 <= depth - 1 => up[1] = index
       /\ \A d \in 1..((depth - 1) - 1) : up[d + 1] = up[d] \div 2
    BY <1>8, <1>11, IndexAtStep
<1> DEFINE Up(d) == /\ d + 1 <= depth - 1 => up[d + 1] = at[d + 1]
                    /\ at[d + 1] \in 0..(Len(level[d + 1]) - 1)
                    /\ f[d] = level[d + 1][at[d + 1] + 1] <=> leaf = leaves[index + 1]
           G == {d \in Nat : d <= depth - 1 => Up(d)}
<1>14. 0 \in G
    BY <1>3, <1>5, <1>8, <1>12, <1>13
<1>15. ASSUME NEW d \in Nat, d \in G PROVE d + 1 \in G
    <2>1. SUFFICES ASSUME d + 1 <= depth - 1 PROVE Up(d + 1)
        OBVIOUS
    <2>2. /\ d + 1 \in 1..(depth - 1) /\ (d + 1) - 1 = d /\ d <= depth - 1
          /\ d + 1 \in 1..Len(leaves) /\ depth \in Nat
        BY <1>2, <1>8, <2>1
    <2>3. Up(d)
        BY <1>15, <2>2
    <2>4. PICK l, i, x : l = level[d + 1] /\ i = at[d + 1] /\ x = f[d]
        OBVIOUS
    <2>5. /\ Len(l) \in Nat /\ i \in 0..(Len(l) - 1) /\ up[d + 1] = i
          /\ x = l[i + 1] <=> leaf = leaves[index + 1]
        BY <1>3, <2>1, <2>2, <2>3, <2>4
    <2>6. level[(d + 1) + 1] = NextLevel(l) /\ at[(d + 1) + 1] = i \div 2
        BY <1>2, <1>5, <2>2, <2>4
    <2>7. f[d + 1] = IF i % 2 = 0 THEN HashPair(x, GetSibling(l, i))
                     ELSE HashPair(GetSibling(l, i), x)
        <3>1. proof.sibling_hashes[d + 1] = GetSibling(l, i)
            BY <1>7, <2>2, <2>4
        <3> QED BY <1>12, <2>2, <2>4, <2>5, <3>1
    <2>8. /\ i \div 2 \in 0..(Len(NextLevel(l)) - 1)
          /\ f[d + 1] = NextLevel(l)[(i \div 2) + 1] <=> x = l[i + 1]
        BY <2>5, <2>7, ParentHash
    <2>9. ASSUME (d + 1) + 1 <= depth - 1 PROVE up[(d + 1) + 1] = at[(d + 1) + 1]
        <3>1. d + 1 \in 1..((depth - 1) - 1)
            BY <2>2, <2>9
        <3> QED BY <1>13, <2>5, <2>6, <3>1
    <2> QED BY <2>5, <2>6, <2>8, <2>9
<1>16. Nat \subseteq G
    <2> HIDE DEF G
    <2> QED BY <1>14, <1>15, NumberInduction
<1>17. Up(depth - 1)
    <2>1. depth - 1 \in G
        BY <1>8, <1>16
    <2> HIDE DEF Up
    <2> QED BY <1>8, <2>1
<1>18. (depth - 1) + 1 = depth
    BY <1>2
<1>19. at[depth] = 0 /\ (f[depth - 1] = level[depth][1] <=> leaf = leaves[index + 1])
    <2>1. /\ at[depth] \in 0..(Len(level[depth]) - 1)
          /\ f[depth - 1] = level[depth][at[depth] + 1] <=> leaf = leaves[index + 1]
        BY <1>17, <1>18
    <2>2. at[depth] = 0
        BY <1>2, <2>1
    <2> QED BY <2>1, <2>2
<1> QED
    BY <1>6, <1>9, <1>10, <1>12, <1>19

-----------------------------------------------------------------------------
(* What a Merkle root binds *)

\* A list with a length; one with an element twice; and two that are the same
\* or of which one has an element twice.
Listed(s) == Len(s) \in Nat /\ s = [i \in 1..Len(s) |-> s[i]]
Repeats(s) == \E i, j \in 1..Len(s) : i # j /\ s[i] = s[j]
AlikeUpTo(k, l) == k = l \/ Repeats(k) \/ Repeats(l)

\* Two nodes of a level that are equal have equal children.
LEMMA RepeatsBelow ==
    ASSUME NEW l, Len(l) \in Nat, Repeats(NextLevel(l))
    PROVE  Repeats(l)
<1>1. PICK n \in Nat : n = Len(l)
    OBVIOUS
<1>2. PICK m \in Nat : m = (n + 1) \div 2
    OBVIOUS
<1>3. NextLevel(l) = [i \in 1..m |-> HashPair(l[2 * i - 1],
                                              IF 2 * i <= n THEN l[2 * i] ELSE l[2 * i - 1])]
    BY <1>1, <1>2 DEF NextLevel
<1>4. Len(NextLevel(l)) = m
    BY <1>3
<1>5. PICK i \in 1..m, j \in 1..m : i # j /\ NextLevel(l)[i] = NextLevel(l)[j]
    BY <1>4 DEF Repeats
<1>6. l[2 * i - 1] = l[2 * j - 1]
    BY <1>3, <1>5 DEF HashPair
<1>7. 2 * i - 1 \in 1..n /\ 2 * j - 1 \in 1..n /\ 2 * i - 1 # 2 * j - 1
    BY <1>2, <1>5
<1> QED
    BY <1>1, <1>6, <1>7 DEF Repeats

\* A level whose next level is another's is that one, or repeats a node.
LEMMA LevelsBound ==
    ASSUME NEW k, NEW l, Listed(k), Listed(l), NextLevel(k) = NextLevel(l)
    PROVE  AlikeUpTo(k, l)
<1> DEFINE Next(s, n, m) == [i \in 1..m |-> HashPair(s[2 * i - 1],
                                 IF 2 * i <= n THEN s[2 * i] ELSE s[2 * i - 1])]
<1>1. PICK p \in Nat, q \in Nat : p = Len(k) /\ q = Len(l)
    BY DEF Listed
<1>2. PICK m \in Nat, w \in Nat : m = (p + 1) \div 2 /\ w = (q + 1) \div 2
    OBVIOUS
<1>3. NextLevel(k) = Next(k, p, m) /\ NextLevel(l) = Next(l, q, w)
    BY <1>1, <1>2 DEF NextLevel
<1>4. m = w
    <2>1. Len(Next(k, p, m)) = m
        OBVIOUS
    <2>2. Len(Next(l, q, w)) = w
        OBVIOUS
    <2> HIDE DEF Next
    <2> QED BY <1>3, <2>1, <2>2
<1>5. \A i \in 1..m : /\ k[2 * i - 1] = l[2 * i - 1]
                      /\ (IF 2 * i <= p THEN k[2 * i] ELSE k[2 * i - 1])
                            = (IF 2 * i <= q THEN l[2 * i] ELSE l[2 * i - 1])
    <2>1. \A i \in 1..m : Next(k, p, m)[i] = Next(l, q, w)[i]
        BY <1>3
    <2> QED BY <1>4, <2>1 DEF HashPair
<1>6. CASE p = q
    <2>1. ASSUME NEW j \in 1..p PROVE k[j] = l[j]
        <3>1. CASE j % 2 = 0
            <4>1. PICK i \in 1..m : j = 2 * i
                <5>1. j \div 2 \in 1..m /\ j = 2 * (j \div 2)
                    BY <1>2, <3>1
                <5> QED BY <5>1
            <4> QED BY <1>5, <1>6, <4>1
        <3>2. CASE j % 2 # 0
            <4>1. PICK i \in 1..m : j = 2 * i - 1
                <5>1. (j + 1) \div 2 \in 1..m /\ j = 2 * ((j + 1) \div 2) - 1
                    BY <1>2, <3>2
                <5> QED BY <5>1
            <4> QED BY <1>5, <4>1
        <3> QED BY <3>1, <3>2
    <2>2. k = [j \in 1..p |-> k[j]] /\ l = [j \in 1..p |-> l[j]]
        BY <1>1, <1>6 DEF Listed
    <2>3. [j \in 1..p |-> k[j]] = [j \in 1..p |-> l[j]]
        BY <2>1
    <2> QED BY <2>2, <2>3 DEF AlikeUpTo
<1>7. CASE p < q
    <2>1. q = 2 * m /\ p = 2 * m - 1 /\ m \in 1..m
        BY <1>2, <1>4, <1>7
    <2>2. l[2 * m] = l[2 * m - 1]
        BY <1>5, <2>1
    <2>3. 2 * m \in 1..q /\ 2 * m - 1 \in 1..q /\ 2 * m # 2 * m - 1
        BY <2>1
    <2> QED BY <1>1, <2>2, <2>3 DEF AlikeUpTo, Repeats
<1>8. CASE q < p
    <2>1. p = 2 * m /\ q = 2 * m - 1 /\ m \in 1..m
        BY <1>2, <1>4, <1>8
    <2>2. k[2 * m] = k[2 * m - 1]
        BY <1>5, <2>1
    <2>3. 2 * m \in 1..p /\ 2 * m - 1 \in 1..p /\ 2 * m # 2 * m - 1
        BY <2>1
    <2> QED BY <1>1, <2>2, <2>3 DEF AlikeUpTo, Repeats
<1> QED
    BY <1>6, <1>7, <1>8

\* The levels of a tree with the given leaves, from the leaves to the root.
Tree(level, depth, leaves) ==
    /\ depth \in Nat /\ depth > 0
    /\ level[1] = leaves
    /\ \A d \in 1..depth : Listed(level[d]) /\ Len(level[d]) > 0
    /\ Len(level[depth]) = 1
    /\ \A d \in 1..(depth - 1) : level[d + 1] = NextLevel(level[d])

\* GetRoot builds such a tree.
LEMMA TreeOf ==
    ASSUME NEW leaves, Listed(leaves), leaves # <<>>
    PROVE  /\ Tree(TreeLevels(leaves), Depth(TreeLevels(leaves)), leaves)
           /\ GetRoot(leaves) = TreeLevels(leaves)[Depth(TreeLevels(leaves))][1]
<1>1. PICK n : n = Len(leaves) /\ n \in Nat
    BY DEF Listed
<1>2. n > 0
    <2>1. n = 0 => leaves = <<>>
        BY <1>1 DEF Listed
    <2> QED BY <1>1, <2>1
<1>3. Len(leaves) \in Nat /\ Len(leaves) > 0
    BY <1>1, <1>2
<1>4. PICK level, depth : level = TreeLevels(leaves) /\ depth = Depth(TreeLevels(leaves))
    OBVIOUS
<1>5. /\ depth \in 1..n /\ Len(level[depth]) = 1
      /\ \A d \in 1..(depth - 1) : level[d + 1] = NextLevel(level[d])
    BY <1>1, <1>3, <1>4, DepthIs
<1>6. /\ \A d \in 1..n : Len(level[d]) \in Nat /\ Len(level[d]) > 0
      /\ level[1] = leaves
    BY <1>1, <1>3, <1>4, TreeShape, TreeLevelsStep
<1>7. depth \in Nat /\ depth > 0 /\ \A d \in 1..depth : d \in 1..n
    BY <1>1, <1>5
<1>8. ASSUME NEW l, Len(l) \in Nat PROVE Listed(NextLevel(l))
    <2>1. (Len(l) + 1) \div 2 \in Nat
        BY <1>8
    <2> QED BY <2>1 DEF NextLevel, Listed
<1>9. ASSUME NEW d \in 1..depth PROVE Listed(level[d])
    <2>1. CASE d = 1
        BY <1>6, <2>1
    <2>2. CASE d # 1
        <3>1. d - 1 \in 1..(depth - 1) /\ (d - 1) + 1 = d /\ d - 1 \in 1..n
            BY <1>7, <2>2
        <3>2. PICK e : e = d - 1
            OBVIOUS
        <3>3. level[d] = NextLevel(level[e]) /\ Len(level[e]) \in Nat
            BY <1>5, <1>6, <3>1, <3>2
        <3> QED BY <1>8, <3>3
    <2> QED BY <2>1, <2>2
<1>10. Tree(level, depth, leaves)
    BY <1>5, <1>6, <1>7, <1>9 DEF Tree
<1> QED
    BY <1>4, <1>10 DEF GetRoot

\* A repetition on any level goes back to one among the leaves.
LEMMA RepeatsAtLeaves ==
    ASSUME NEW level, NEW depth, NEW leaves, Tree(level, depth, leaves),
           NEW d \in 1..depth, Repeats(level[d])
    PROVE  Repeats(leaves)
<1> DEFINE G == {e \in Nat : e + 1 <= depth /\ Repeats(level[e + 1]) => Repeats(leaves)}
<1>0. depth \in Nat
    BY DEF Tree
<1>1. 0 \in G
    BY DEF Tree
<1>2. ASSUME NEW e \in Nat, e \in G PROVE e + 1 \in G
    <2>1. PICK f : f = e + 1
        OBVIOUS
    <2>2. SUFFICES ASSUME f + 1 <= depth, Repeats(level[f + 1]) PROVE Repeats(leaves)
        BY <2>1
    <2>3. f \in 1..(depth - 1) /\ f \in 1..depth /\ f <= depth
        BY <1>0, <2>1, <2>2
    <2>4. Repeats(level[f])
        <3>1. level[f + 1] = NextLevel(level[f]) /\ Len(level[f]) \in Nat
            BY <2>3 DEF Tree, Listed
        <3> QED BY <2>2, <3>1, RepeatsBelow
    <2> QED BY <1>2, <2>1, <2>3, <2>4
<1>3. Nat \subseteq G
    <2> HIDE DEF G
    <2> QED BY <1>1, <1>2, NumberInduction
<1>4. d - 1 \in Nat /\ (d - 1) + 1 = d /\ d <= depth
    BY <1>0
<1>5. d - 1 \in G
    BY <1>3, <1>4
<1> QED
    BY <1>4, <1>5

\* Two trees with one root agree from the root down, as far as both go.
LEMMA TreesAgree ==
    ASSUME NEW la, NEW da, NEW a, Tree(la, da, a),
           NEW lb, NEW db, NEW b, Tree(lb, db, b),
           la[da][1] = lb[db][1],
           NEW j \in Nat, j < da, j < db
    PROVE  AlikeUpTo(la[da - j], lb[db - j])
<1> DEFINE G == {i \in Nat : i < da /\ i < db => AlikeUpTo(la[da - i], lb[db - i])}
<1>0. da \in Nat /\ db \in Nat /\ da > 0 /\ db > 0
    BY DEF Tree
<1>1. 0 \in G
    <2>1. da - 0 = da /\ db - 0 = db /\ da \in 1..da /\ db \in 1..db
        BY <1>0
    <2>2. /\ Listed(la[da]) /\ Len(la[da]) = 1
          /\ Listed(lb[db]) /\ Len(lb[db]) = 1
        BY <2>1 DEF Tree
    <2>3. la[da] = [i \in 1..1 |-> la[da][i]] /\ lb[db] = [i \in 1..1 |-> lb[db][i]]
        BY <2>2 DEF Listed
    <2>4. [i \in 1..1 |-> la[da][i]] = [i \in 1..1 |-> lb[db][i]]
        BY <1>0
    <2>5. la[da] = lb[db]
        BY <2>3, <2>4
    <2> QED BY <2>1, <2>5 DEF AlikeUpTo
<1>2. ASSUME NEW i \in Nat, i \in G PROVE i + 1 \in G
    <2>1. SUFFICES ASSUME i + 1 < da, i + 1 < db
                   PROVE  AlikeUpTo(la[da - (i + 1)], lb[db - (i + 1)])
        OBVIOUS
    <2>2. PICK x, y : x = da - (i + 1) /\ y = db - (i + 1)
        OBVIOUS
    <2>3. /\ x \in 1..(da - 1) /\ x \in 1..da /\ x + 1 = da - i /\ x + 1 \in 1..da
          /\ y \in 1..(db - 1) /\ y \in 1..db /\ y + 1 = db - i /\ y + 1 \in 1..db
          /\ i < da /\ i < db
        BY <1>0, <2>1, <2>2
    <2>4. /\ la[x + 1] = NextLevel(la[x]) /\ Listed(la[x])
          /\ lb[y + 1] = NextLevel(lb[y]) /\ Listed(lb[y])
        BY <2>3 DEF Tree
    <2>5. AlikeUpTo(la[x + 1], lb[y + 1])
        BY <1>2, <2>3
    <2>6. CASE la[x + 1] = lb[y + 1]
        BY <2>2, <2>4, <2>6, LevelsBound
    <2>7. CASE Repeats(la[x + 1])
        BY <2>2, <2>4, <2>7, RepeatsBelow DEF AlikeUpTo, Listed
    <2>8. CASE Repeats(lb[y + 1])
        BY <2>2, <2>4, <2>8, RepeatsBelow DEF AlikeUpTo, Listed
    <2> QED BY <2>5, <2>6, <2>7, <2>8 DEF AlikeUpTo
<1>3. Nat \subseteq G
    <2> HIDE DEF G
    <2> QED BY <1>1, <1>2, NumberInduction
<1> QED
    BY <1>3

\* Above the leaves, what a level holds are pairs.
LEMMA InnerNode ==
    ASSUME NEW level, NEW depth, NEW leaves, Tree(level, depth, leaves), NEW d \in 2..depth
    PROVE  \E y, z : level[d][1] = <<y, z>>
<1>1. PICK e : e = d - 1
    OBVIOUS
<1>2. e \in 1..(depth - 1) /\ e + 1 = d /\ e \in 1..depth
    BY <1>1 DEF Tree
<1>3. level[d] = NextLevel(level[e]) /\ Len(level[e]) \in Nat /\ Len(level[e]) > 0
    BY <1>2 DEF Tree, Listed
<1>4. PICK n : n = Len(level[e]) /\ n \in Nat /\ n > 0
    BY <1>3
<1>5. PICK m \in Nat : m = (n + 1) \div 2 /\ 1 \in 1..m
    <2>1. \A i \in Nat : i > 0 => (i + 1) \div 2 \in Nat /\ 1 \in 1..((i + 1) \div 2)
        OBVIOUS
    <2> QED BY <1>4, <2>1
<1>6. PICK y, z : NextLevel(level[e])[1] = HashPair(y, z)
    BY <1>4, <1>5 DEF NextLevel
<1> QED
    BY <1>3, <1>6 DEF HashPair

\* A tree that goes deeper has pairs where the other has leaves, which are single.
LEMMA UnequalDepth ==
    ASSUME NEW la, NEW da, NEW a, Tree(la, da, a),
           NEW lb, NEW db, NEW b, Tree(lb, db, b),
           la[da][1] = lb[db][1], db < da,
           NEW x, b[1] = <<x>>
    PROVE  Repeats(a) \/ Repeats(b)
<1>0. da \in Nat /\ db \in Nat /\ db > 0
    BY DEF Tree
<1>1. PICK j \in Nat : j = db - 1
    BY <1>0
<1>2. j < da /\ j < db /\ db - j = 1
    BY <1>0, <1>1
<1>3. PICK d : d = da - j
    OBVIOUS
<1>4. d \in 1..da /\ d \in 2..da
    BY <1>0, <1>1, <1>3
<1>5. AlikeUpTo(la[d], b)
    <2>1. AlikeUpTo(la[da - j], lb[db - j])
        BY <1>2, TreesAgree
    <2> QED BY <1>2, <1>3, <2>1 DEF Tree
<1>6. la[d] # b
    <2>1. PICK y, z : la[d][1] = <<y, z>>
        BY <1>4, InnerNode
    <2>2. Len(<<x>>) = 1 /\ Len(<<y, z>>) = 2
        OBVIOUS
    <2> QED BY <2>1, <2>2
<1>7. CASE Repeats(la[d])
    BY <1>4, <1>7, RepeatsAtLeaves
<1> QED
    BY <1>5, <1>6, <1>7 DEF AlikeUpTo

\* A Merkle root binds the list it was made from, but for repetitions.
LEMMA RootBinds ==
    ASSUME NEW s, NEW t, Listed(s), Listed(t), RootOfList(s) = RootOfList(t)
    PROVE  AlikeUpTo(s, t)
<1> DEFINE Leaves(r) == [i \in DOMAIN r |-> <<r[i]>>]
<1>1. ASSUME NEW r, Listed(r)
      PROVE  /\ Listed(Leaves(r)) /\ Len(Leaves(r)) = Len(r) /\ DOMAIN r = 1..Len(r)
             /\ \A i \in 1..Len(r) : Leaves(r)[i] = <<r[i]>>
             /\ r # <<>> <=> Leaves(r) # <<>>
             /\ r # <<>> => 1 \in 1..Len(r)
    <2>1. PICK n : n = Len(r) /\ n \in Nat /\ r = [i \in 1..n |-> r[i]]
        BY <1>1 DEF Listed
    <2>2. DOMAIN r = 1..n
        BY <2>1
    <2>3. Leaves(r) = [i \in 1..n |-> <<r[i]>>]
        BY <2>2
    <2>4. Len(Leaves(r)) = n /\ \A i \in 1..n : Leaves(r)[i] = <<r[i]>>
        BY <2>1, <2>3
    <2>5. Leaves(r) = [i \in 1..n |-> Leaves(r)[i]]
        BY <2>3
    <2> HIDE DEF Leaves
    <2>6. Listed(Leaves(r))
        BY <2>1, <2>4, <2>5 DEF Listed
    <2>7. n = 0 <=> r = <<>>
        BY <2>1
    <2>8. n = 0 <=> Leaves(r) = <<>>
        BY <2>1, <2>4, <2>5
    <2>9. n # 0 => 1 \in 1..n
        BY <2>1
    <2> QED BY <2>1, <2>2, <2>4, <2>6, <2>7, <2>8, <2>9
<1>2. PICK a, b : a = Leaves(s) /\ b = Leaves(t)
    OBVIOUS
<1>3. GetRoot(a) = GetRoot(b)
    BY <1>2 DEF RootOfList
<1>4. /\ Listed(a) /\ Len(a) = Len(s) /\ \A i \in 1..Len(s) : a[i] = <<s[i]>>
      /\ s # <<>> <=> a # <<>>
      /\ s # <<>> => 1 \in 1..Len(s)
    <2> HIDE DEF Leaves
    <2> QED BY <1>1, <1>2
<1>5. /\ Listed(b) /\ Len(b) = Len(t) /\ \A i \in 1..Len(t) : b[i] = <<t[i]>>
      /\ t # <<>> <=> b # <<>>
      /\ t # <<>> => 1 \in 1..Len(t)
    <2> HIDE DEF Leaves
    <2> QED BY <1>1, <1>2
<1> HIDE DEF Leaves
<1>6. ASSUME NEW x, NEW y \in {s, t}, x = Leaves(y), Repeats(x) PROVE Repeats(y)
    <2>1. Listed(y)
        OBVIOUS
    <2>2. Len(x) = Len(y) /\ \A i \in 1..Len(y) : x[i] = <<y[i]>>
        BY <1>1, <1>6, <2>1
    <2> QED BY <1>6, <2>2 DEF Repeats
<1>7. ASSUME a = b PROVE s = t
    <2>1. Len(s) = Len(t)
        BY <1>4, <1>5, <1>7
    <2>2. \A i \in 1..Len(s) : s[i] = t[i]
        BY <1>4, <1>5, <1>7, <2>1
    <2>3. [i \in 1..Len(s) |-> s[i]] = [i \in 1..Len(s) |-> t[i]]
        BY <2>2
    <2> QED BY <2>1, <2>3 DEF Listed
<1>8. AlikeUpTo(a, b) => AlikeUpTo(s, t)
    BY <1>2, <1>6, <1>7 DEF AlikeUpTo
\* No node is the zero hash.
<1>9. ASSUME NEW x, NEW r, Listed(x), x # <<>>, x[1] = <<r>> PROVE GetRoot(x) # <<>>
    <2>1. PICK l, d : l = TreeLevels(x) /\ d = Depth(TreeLevels(x))
        OBVIOUS
    <2>2. Tree(l, d, x) /\ GetRoot(x) = l[d][1]
        BY <1>9, <2>1, TreeOf
    <2>3. d \in Nat /\ d > 0
        BY <2>2 DEF Tree
    <2>4. CASE d = 1
        <3>1. GetRoot(x) = <<r>>
            BY <1>9, <2>2, <2>4 DEF Tree
        <3> QED BY <3>1
    <2>5. CASE d # 1
        <3>1. d \in 2..d
            BY <2>3, <2>5
        <3>2. PICK y, z : GetRoot(x) = <<y, z>>
            BY <2>2, <3>1, InnerNode
        <3> QED BY <3>2
    <2> QED BY <2>4, <2>5
<1>10. GetRoot(<<>>) = <<>>
    BY DEF GetRoot
<1>11. CASE s = <<>> \/ t = <<>>
    <2>1. s = <<>> /\ t = <<>>
        <3>1. a = <<>> <=> b = <<>>
            BY <1>3, <1>4, <1>5, <1>9, <1>10
        <3> QED BY <1>4, <1>5, <1>11, <3>1
    <2> QED BY <2>1 DEF AlikeUpTo
<1>12. CASE s # <<>> /\ t # <<>>
    <2>1. PICK la, da, lb, db : /\ Tree(la, da, a) /\ GetRoot(a) = la[da][1]
                                /\ Tree(lb, db, b) /\ GetRoot(b) = lb[db][1]
        <3>1. \E la, da : Tree(la, da, a) /\ GetRoot(a) = la[da][1]
            BY <1>4, <1>12, TreeOf
        <3>2. \E lb, db : Tree(lb, db, b) /\ GetRoot(b) = lb[db][1]
            BY <1>5, <1>12, TreeOf
        <3> QED BY <3>1, <3>2
    <2>2. la[da][1] = lb[db][1] /\ lb[db][1] = la[da][1]
        BY <1>3, <2>1
    <2>3. da \in Nat /\ db \in Nat /\ da > 0 /\ db > 0 /\ la[1] = a /\ lb[1] = b
        BY <2>1 DEF Tree
    <2>4. a[1] = <<s[1]>> /\ b[1] = <<t[1]>>
        BY <1>4, <1>5, <1>12
    <2>5. CASE db < da
        BY <1>8, <2>1, <2>2, <2>4, <2>5, UnequalDepth DEF AlikeUpTo
    <2>6. CASE da < db
        BY <1>8, <2>1, <2>2, <2>4, <2>6, UnequalDepth DEF AlikeUpTo
    <2>7. CASE da = db
        <3>1. PICK j \in Nat : j = da - 1
            BY <2>3
        <3>2. j < da /\ j < db /\ da - j = 1 /\ db - j = 1
            BY <2>3, <2>7, <3>1
        <3>3. AlikeUpTo(la[da - j], lb[db - j])
            BY <2>1, <2>2, <3>2, TreesAgree
        <3> QED BY <1>8, <2>3, <3>2, <3>3
    <2> QED BY <2>3, <2>5, <2>6, <2>7
<1> QED
    BY <1>11, <1>12
=============================================================================
