------------------------- MODULE RecursionTheorems -------------------------
(***************************************************************************)
(* Lemmas about recursive definitions: least elements in place of          *)
(* induction, remainders, powers of two, and the sum of a function,        *)
(* FoldFunction(+, 0, f), which is the number of its units.                *)
(***************************************************************************)
EXTENDS Integers, Sequences, FiniteSets, Functions,
        FiniteSetTheorems, WellFoundedInduction, TLAPS

-----------------------------------------------------------------------------
(* Least elements.                                                         *)

\* A set of naturals has a least element.
LEMMA LeastNatural ==
    ASSUME NEW T, T \subseteq Nat, T # {}
    PROVE  \E n \in T : \A m \in T : n =< m
  <1>1. PICK n \in T : \A m \in T : ~(<<m, n>> \in OpToRel(<, Nat))
    BY NatLessThanWellFounded, WFMin
  <1>2. ASSUME NEW m \in T
        PROVE  n =< m
    <2>1. m \in Nat /\ n \in Nat
      OBVIOUS
    <2>2. ~(m < n)
      BY <1>1, <2>1 DEF OpToRel
    <2> QED BY <2>1, <2>2
  <1> QED BY <1>2

\* A set that holds 0, and with each number the next, holds all of them.
LEMMA AllNaturals ==
    ASSUME NEW T, 0 \in T, \A n \in Nat : n \in T => n + 1 \in T
    PROVE  Nat \subseteq T
  <1> SUFFICES ASSUME Nat \ T # {}
               PROVE  FALSE
    OBVIOUS
  <1>1. PICK n \in Nat \ T : \A m \in Nat \ T : n =< m
    BY LeastNatural
  <1>2. n \in Nat /\ n # 0
    BY <1>1
  <1>3. n - 1 \in Nat /\ ~(n =< n - 1) /\ (n - 1) + 1 = n
    BY <1>2
  <1>4. n - 1 \in T
    BY <1>1, <1>3
  <1> QED BY <1>1, <1>3, <1>4

\* A set of finite sets has one without a smaller one inside.
LEMMA LeastSubset ==
    ASSUME NEW S, IsFiniteSet(S), NEW T, T \subseteq SUBSET S, T # {}
    PROVE  \E s \in T : \A r \in T : ~(r \subseteq s /\ r # s)
  <1>1. IsWellFoundedOn(StrictSubsetOrdering(S), SUBSET S)
    BY FS_FiniteSubsetsOfFinite, FS_StrictSubsetOrderingWellFounded
  <1>2. PICK s \in T : \A r \in T : ~(<<r, s>> \in StrictSubsetOrdering(S))
    BY <1>1, WFMin
  <1>3. ASSUME NEW r \in T, r \subseteq s, r # s
        PROVE  FALSE
    BY <1>2, <1>3 DEF StrictSubsetOrdering
  <1> QED BY <1>3

-----------------------------------------------------------------------------
(* Quotients and remainders.                                               *)

\* A residue is determined by its class.
LEMMA Residue ==
    ASSUME NEW w \in Nat, w > 0, NEW n \in 0 .. w - 1, NEW x \in Int, NEW k \in Int,
           n = x + k * w
    PROVE  n = x % w
  <1>1. PICK r, q \in Int : r = x % w /\ q = x \div w
    OBVIOUS
  <1>2. r \in 0 .. w - 1 /\ x = q * w + r
    BY <1>1
  <1>3. n - r = (q + k) * w
    BY <1>2
  <1>4. n - r < w /\ n - r > -w
    BY <1>2
  <1>5. q + k = 0
    BY <1>3, <1>4
  <1> QED BY <1>1, <1>3, <1>5

\* Division by a positive number is monotonic.
LEMMA DivGrows ==
    ASSUME NEW a \in Nat, a > 0, NEW m \in Nat, NEW n \in Nat, m =< n
    PROVE  m \div a =< n \div a
  <1>1. PICK i, j \in Int : i = m \div a /\ j = n \div a
    OBVIOUS
  <1>2. i * a =< m /\ m < i * a + a /\ j * a =< n /\ n < j * a + a
    BY <1>1
  <1>3. ASSUME i > j
        PROVE  FALSE
    <2>1. i >= j + 1
      BY <1>3
    <2>2. i * a >= (j + 1) * a
      BY <2>1
    <2>3. (j + 1) * a = j * a + a
      OBVIOUS
    <2>4. i * a \in Int /\ j * a \in Int
      OBVIOUS
    <2> QED BY <1>2, <2>2, <2>3, <2>4
  <1> QED BY <1>1, <1>3

\* Quotient and remainder are determined by their equation.
LEMMA Quotient ==
    ASSUME NEW w \in Nat, w > 0, NEW q \in Nat, NEW r \in 0 .. w - 1
    PROVE  (q * w + r) \div w = q /\ (q * w + r) % w = r
  <1> DEFINE n == q * w + r
  <1>1. n \in Int /\ q * w \in Int
    OBVIOUS
  <1>2. r = n + (-q) * w
    BY <1>1
  <1>3. r = n % w
    BY <1>1, <1>2, Residue
  <1>4. PICK i \in Int : i = n \div w
    BY <1>1
  <1>5. n = i * w + (n % w)
    BY <1>1, <1>4
  <1>6. i * w = q * w
    BY <1>1, <1>3, <1>5
  <1>7. i = q
    BY <1>6
  <1> QED BY <1>3, <1>4, <1>7

-----------------------------------------------------------------------------
(* Powers of two, which count the subsets of an interval.                  *)

LEMMA PowerOfZero == 2 ^ 0 = 1
  <1>1. IsFiniteSet({}) /\ Cardinality({}) = 0
    BY FS_EmptySet
  <1>2. Cardinality(SUBSET {}) = 2 ^ Cardinality({})
    BY <1>1, FS_SUBSET
  <1>3. Cardinality({{}}) = 1
    BY FS_Singleton
  <1>4. SUBSET {} = {{}}
    OBVIOUS
  <1> QED BY <1>1, <1>2, <1>3, <1>4

LEMMA PowerNext ==
    ASSUME NEW i \in Nat
    PROVE  2 ^ i \in Nat /\ 2 ^ (i + 1) = 2 * 2 ^ i
  <1> DEFINE S == 1 .. i
             T == 1 .. (i + 1)
             P == SUBSET S
             Q == {s \cup {i + 1} : s \in P}
             g == [s \in P |-> s \cup {i + 1}]
  <1>1. IsFiniteSet(S) /\ Cardinality(S) = i /\ IsFiniteSet(T) /\ Cardinality(T) = i + 1
    <2>1. /\ IsFiniteSet(S) /\ Cardinality(S) = IF 1 > i THEN 0 ELSE i - 1 + 1
          /\ IsFiniteSet(T) /\ Cardinality(T) = IF 1 > i + 1 THEN 0 ELSE i + 1 - 1 + 1
      BY FS_Interval
    <2> HIDE DEF S, T
    <2> QED BY <2>1
  <1>2. /\ IsFiniteSet(P) /\ Cardinality(P) = 2 ^ i
        /\ Cardinality(SUBSET T) = 2 ^ (i + 1)
    <2> HIDE DEF S, T
    <2> QED BY <1>1, FS_SUBSET
  <1>3. \A s \in P : i + 1 \notin s
    OBVIOUS
  <1>4. g \in Bijection(P, Q)
    <2>1. \A s, r \in P : g[s] = g[r] => s = r
      <3>1. \A s \in P : g[s] \ {i + 1} = s
        BY <1>3
      <3> QED BY <3>1
    <2>2. g \in [P -> Q] /\ \A r \in Q : \E s \in P : g[s] = r
      OBVIOUS
    <2> HIDE DEF P, Q, g
    <2> QED BY <2>1, <2>2 DEF Bijection, Injection, Surjection, IsInjective
  <1>5. IsFiniteSet(Q) /\ Cardinality(Q) = Cardinality(P)
    <2> HIDE DEF P, Q, g
    <2> QED BY <1>2, <1>4, FS_Bijection DEF ExistsBijection
  <1>6. P \cap Q = {}
    BY <1>3
  <1>7. SUBSET T = P \cup Q
    <2>1. S \subseteq T /\ i + 1 \in T /\ T \ {i + 1} = S
      OBVIOUS
    <2>2. ASSUME NEW s \in SUBSET T
          PROVE  s \in P \cup Q
      <3>1. CASE i + 1 \in s
        <4>1. s \ {i + 1} \in P /\ s = (s \ {i + 1}) \cup {i + 1}
          BY <2>1, <3>1
        <4> QED BY <4>1
      <3>2. CASE i + 1 \notin s
        BY <2>1, <3>2
      <3> QED BY <3>1, <3>2
    <2>3. P \subseteq SUBSET T /\ Q \subseteq SUBSET T
      BY <2>1
    <2> HIDE DEF P, Q, T
    <2> QED BY <2>2, <2>3
  <1> HIDE DEF S, T, P, Q, g
  <1>8. Cardinality(P \cup Q) = Cardinality(P) + Cardinality(Q) - Cardinality(P \cap Q)
    BY <1>2, <1>5, FS_Union
  <1>9. Cardinality(P \cap Q) = 0 /\ Cardinality(P) \in Nat
    BY <1>2, <1>6, FS_EmptySet, FS_CardinalityType
  <1>10. Cardinality(P \cup Q) = Cardinality(P) + Cardinality(P)
    BY <1>5, <1>8, <1>9
  <1>11. 2 ^ (i + 1) = Cardinality(P \cup Q)
    BY <1>2, <1>7, Zenon
  <1>12. 2 ^ (i + 1) = Cardinality(P) + Cardinality(P)
    BY <1>10, <1>11, Zenon
  <1> QED BY <1>2, <1>9, <1>12

LEMMA PowerPositive == \A i \in Nat : 2 ^ i \in Nat /\ 2 ^ i > i
  <1> DEFINE T == {i \in Nat : 2 ^ i > i}
  <1>1. 0 \in T
    BY PowerOfZero
  <1>2. ASSUME NEW i \in Nat, i \in T
        PROVE  i + 1 \in T
    <2>1. 2 ^ i > i /\ 2 ^ i \in Nat /\ 2 ^ (i + 1) = 2 * 2 ^ i
      BY <1>2, PowerNext
    <2> QED BY <2>1
  <1>3. Nat \subseteq T
    <2> HIDE DEF T
    <2> QED BY <1>1, <1>2, AllNaturals
  <1> QED BY <1>3, PowerNext

LEMMA PowerOfSum == \A i, d \in Nat : 2 ^ (i + d) = 2 ^ d * 2 ^ i
  <1> SUFFICES ASSUME NEW i \in Nat
               PROVE  \A d \in Nat : 2 ^ (i + d) = 2 ^ d * 2 ^ i
    OBVIOUS
  <1> DEFINE T == {d \in Nat : 2 ^ (i + d) = 2 ^ d * 2 ^ i}
  <1>1. 0 \in T
    <2>1. 2 ^ (i + 0) = 2 ^ i /\ 2 ^ i \in Nat
      BY PowerNext
    <2> QED BY <2>1, PowerOfZero
  <1>2. ASSUME NEW d \in Nat, d \in T
        PROVE  d + 1 \in T
    <2>1. 2 ^ (i + d) = 2 ^ d * 2 ^ i /\ i + d \in Nat /\ i + (d + 1) = (i + d) + 1
      BY <1>2
    <2>2. /\ 2 ^ ((i + d) + 1) = 2 * 2 ^ (i + d) /\ 2 ^ (d + 1) = 2 * 2 ^ d
          /\ 2 ^ d \in Nat /\ 2 ^ i \in Nat
      BY <2>1, PowerNext
    <2>3. 2 * (2 ^ d * 2 ^ i) = (2 * 2 ^ d) * 2 ^ i
      BY <2>2
    <2>4. 2 ^ (i + (d + 1)) = 2 ^ (d + 1) * 2 ^ i
      BY <2>1, <2>2, <2>3
    <2> QED BY <2>4
  <1>3. Nat \subseteq T
    <2> HIDE DEF T
    <2> QED BY <1>1, <1>2, AllNaturals
  <1> QED BY <1>3

-----------------------------------------------------------------------------
(* Sums.                                                                   *)

\* The units that f counts over S.
Units(f, S) == {u \in S \X Nat : u[2] < f[u[1]]}

LEMMA UnitsOfOne ==
    ASSUME NEW S, NEW f \in [S -> Nat], NEW x \in S
    PROVE  IsFiniteSet(Units(f, {x})) /\ Cardinality(Units(f, {x})) = f[x]
  <1> DEFINE I == 0 .. f[x] - 1
             g == [i \in I |-> <<x, i>>]
  <1>1. f[x] \in Nat
    OBVIOUS
  <1>2. IsFiniteSet(I) /\ Cardinality(I) = f[x]
    BY <1>1, FS_Interval
  <1>3. g \in Bijection(I, Units(f, {x}))
    <2>1. ASSUME NEW i \in I
          PROVE  g[i] \in Units(f, {x}) /\ g[i] = <<x, i>>
      BY <1>1 DEF Units
    <2>2. \A i, j \in I : g[i] = g[j] => i = j
      OBVIOUS
    <2>3. ASSUME NEW u \in Units(f, {x})
          PROVE  \E i \in I : g[i] = u
      <3>1. u = <<x, u[2]>> /\ u[2] \in I
        BY <1>1 DEF Units
      <3> QED BY <3>1
    <2> QED BY <2>1, <2>2, <2>3 DEF Bijection, Injection, Surjection, IsInjective
  <1>4. ExistsBijection(I, Units(f, {x}))
    BY <1>3 DEF ExistsBijection
  <1> QED BY <1>2, <1>4, FS_Bijection

LEMMA UnitsSplit ==
    ASSUME NEW S, NEW f, NEW x \in S
    PROVE  /\ Units(f, S) = Units(f, {x}) \cup Units(f, S \ {x})
           /\ Units(f, {x}) \cap Units(f, S \ {x}) = {}
  BY DEF Units

\* Each element counts for itself.
LEMMA CountSplit ==
    ASSUME NEW S, IsFiniteSet(S), NEW f \in [S -> Nat], NEW T \in SUBSET S, NEW x \in T
    PROVE  (IsFiniteSet(Units(f, T \ {x})) =>
                /\ IsFiniteSet(Units(f, T))
                /\ Cardinality(Units(f, T)) = f[x] + Cardinality(Units(f, T \ {x})))
  <1> SUFFICES ASSUME IsFiniteSet(Units(f, T \ {x}))
               PROVE  /\ IsFiniteSet(Units(f, T))
                      /\ Cardinality(Units(f, T)) = f[x] + Cardinality(Units(f, T \ {x}))
    OBVIOUS
  <1> DEFINE A == Units(f, {x})
             B == Units(f, T \ {x})
  <1>1. IsFiniteSet(A) /\ Cardinality(A) = f[x]
    BY UnitsOfOne
  <1>2. Units(f, T) = A \cup B /\ A \cap B = {}
    BY UnitsSplit
  <1>3. IsFiniteSet(B)
    OBVIOUS
  <1> HIDE DEF A, B
  <1>4. /\ IsFiniteSet(A \cup B)
        /\ Cardinality(A \cup B) = Cardinality(A) + Cardinality(B) - Cardinality(A \cap B)
    BY <1>1, <1>3, FS_Union
  <1>5. Cardinality(A \cap B) = 0 /\ Cardinality(A) \in Nat /\ Cardinality(B) \in Nat
    BY <1>1, <1>2, <1>3, FS_EmptySet, FS_CardinalityType
  <1>6. Cardinality(A \cup B) = f[x] + Cardinality(B)
    BY <1>1, <1>4, <1>5
  <1> QED BY <1>2, <1>4, <1>6 DEF A, B

LEMMA UnitsFinite ==
    ASSUME NEW S, IsFiniteSet(S), NEW f \in [S -> Nat]
    PROVE  \A T \in SUBSET S : IsFiniteSet(Units(f, T))
  <1> DEFINE Bad == {T \in SUBSET S : ~IsFiniteSet(Units(f, T))}
  <1> SUFFICES ASSUME Bad # {}
               PROVE  FALSE
    OBVIOUS
  <1>1. PICK T \in Bad : \A R \in Bad : ~(R \subseteq T /\ R # T)
    <2>1. Bad \subseteq SUBSET S
      OBVIOUS
    <2> HIDE DEF Bad
    <2> QED BY <2>1, LeastSubset
  <1>2. CASE T = {}
    <2>1. Units(f, T) = {}
      BY <1>2 DEF Units
    <2> QED BY <1>1, <2>1, FS_EmptySet
  <1>3. CASE T # {}
    <2>1. PICK x \in T : TRUE
      BY <1>3
    <2>2. T \ {x} \notin Bad /\ T \ {x} \in SUBSET S
      BY <1>1, <2>1
    <2>3. IsFiniteSet(Units(f, T \ {x}))
      BY <2>2
    <2>4. IsFiniteSet(Units(f, T))
      BY <2>1, <2>3, CountSplit
    <2> QED BY <1>1, <2>4
  <1> QED BY <1>2, <1>3

Pick(T) == CHOOSE x \in T : TRUE

\* iter sums f up along Pick, as FoldFunction does.
Sums(iter, f, S) ==
    iter = [T \in SUBSET S |-> IF T = {} THEN 0 ELSE f[Pick(T)] + iter[T \ {Pick(T)}]]

\* The sum of f is the number of its units.
LEMMA SumIsCount ==
    ASSUME NEW S, IsFiniteSet(S), NEW f \in [S -> Nat]
    PROVE  /\ FoldFunction(+, 0, f) = Cardinality(Units(f, S))
           /\ FoldFunction(+, 0, f) \in Nat
  <1> DEFINE count == [T \in SUBSET S |-> Cardinality(Units(f, T))]
             iter == CHOOSE i : Sums(i, f, S)
  <1>1. \A T \in SUBSET S : T # {} => Pick(T) \in T
    BY DEF Pick
  <1>2. ASSUME NEW T \in SUBSET S
        PROVE  count[T] = IF T = {} THEN 0 ELSE f[Pick(T)] + count[T \ {Pick(T)}]
    <2>1. CASE T = {}
      <3>1. Units(f, T) = {}
        BY <2>1 DEF Units
      <3> QED BY <2>1, <3>1, FS_EmptySet
    <2>2. CASE T # {}
      <3>1. Pick(T) \in T /\ T \ {Pick(T)} \in SUBSET S
        BY <1>1, <2>2
      <3>2. IsFiniteSet(Units(f, T \ {Pick(T)}))
        BY <3>1, UnitsFinite
      <3>3. Cardinality(Units(f, T)) = f[Pick(T)] + Cardinality(Units(f, T \ {Pick(T)}))
        BY <3>1, <3>2, CountSplit
      <3> QED BY <2>2, <3>1, <3>3
    <2> QED BY <2>1, <2>2
  <1>3. Sums(count, f, S)
    BY <1>2 DEF Sums
  <1> HIDE DEF count
  <1>4. Sums(iter, f, S)
    BY <1>3
  <1>5. FoldFunction(+, 0, f) = iter[S]
    BY DEF FoldFunction, FoldFunctionOnSet, MapThenFoldSet, Sums, Pick
  <1> HIDE DEF iter
  <1>6. iter[S] = count[S]
    <2> DEFINE Bad == {T \in SUBSET S : iter[T] # count[T]}
    <2> SUFFICES ASSUME Bad # {}
                 PROVE  FALSE
      OBVIOUS
    <2>1. PICK T \in Bad : \A R \in Bad : ~(R \subseteq T /\ R # T)
      <3>1. Bad \subseteq SUBSET S
        OBVIOUS
      <3> HIDE DEF Bad
      <3> QED BY <3>1, LeastSubset
    <2>2. T \in SUBSET S /\ iter[T] # count[T]
      BY <2>1
    <2>3. /\ iter[T] = IF T = {} THEN 0 ELSE f[Pick(T)] + iter[T \ {Pick(T)}]
          /\ count[T] = IF T = {} THEN 0 ELSE f[Pick(T)] + count[T \ {Pick(T)}]
      BY <1>3, <1>4, <2>2 DEF Sums
    <2>4. T # {}
      BY <2>2, <2>3
    <2>5. Pick(T) \in T /\ T \ {Pick(T)} \in SUBSET S
      BY <1>1, <2>2, <2>4
    <2>6. iter[T \ {Pick(T)}] = count[T \ {Pick(T)}]
      BY <2>1, <2>5
    <2> QED BY <2>2, <2>3, <2>6
  <1>7. count[S] = Cardinality(Units(f, S)) /\ IsFiniteSet(Units(f, S))
    BY UnitsFinite DEF count
  <1> QED BY <1>5, <1>6, <1>7, FS_CardinalityType

Total(f) == FoldFunction(+, 0, f)

LEMMA TotalSplit ==
    ASSUME NEW S, IsFiniteSet(S), NEW f \in [S -> Nat], NEW x \in S
    PROVE  /\ Total(f) = f[x] + Cardinality(Units(f, S \ {x}))
           /\ Cardinality(Units(f, S \ {x})) \in Nat
  <1>1. IsFiniteSet(Units(f, S \ {x}))
    BY UnitsFinite
  <1>2. Cardinality(Units(f, S)) = f[x] + Cardinality(Units(f, S \ {x}))
    BY <1>1, CountSplit
  <1> QED BY <1>1, <1>2, SumIsCount, FS_CardinalityType DEF Total

\* One element of the sum changes.
LEMMA TotalChange ==
    ASSUME NEW S, IsFiniteSet(S), NEW f \in [S -> Nat], NEW g \in [S -> Nat],
           NEW x \in S, \A y \in S \ {x} : g[y] = f[y]
    PROVE  Total(g) = Total(f) - f[x] + g[x]
  <1>1. Units(g, S \ {x}) = Units(f, S \ {x})
    BY DEF Units
  <1>2. f[x] \in Nat /\ g[x] \in Nat
    OBVIOUS
  <1> QED BY <1>1, <1>2, TotalSplit

LEMMA TotalZero ==
    ASSUME NEW S, IsFiniteSet(S), NEW f \in [S -> Nat], \A x \in S : f[x] = 0
    PROVE  Total(f) = 0
  <1>1. Units(f, S) = {}
    BY DEF Units
  <1> QED BY <1>1, SumIsCount, FS_EmptySet DEF Total

\* The elements of A have room for one more under the bound m, and x adds nothing.
LEMMA TotalBound ==
    ASSUME NEW S, IsFiniteSet(S), NEW f \in [S -> Nat], NEW x \in S, NEW m \in Nat \ {0},
           NEW A, A \subseteq S \ {x}, f[x] = 0,
           \A y \in S : f[y] =< m, \A y \in A : f[y] < m
    PROVE  Total(f) + Cardinality(A) =< (Cardinality(S) - 1) * m
  <1> DEFINE R == S \ {x}
             I == 0 .. m - 1
             U == Units(f, R)
             g == [a \in A |-> <<a, m - 1>>]
             V == {<<a, m - 1>> : a \in A}
  <1>1. IsFiniteSet(R) /\ Cardinality(R) = Cardinality(S) - 1
    BY FS_RemoveElement
  <1>2. IsFiniteSet(I) /\ Cardinality(I) = m
    <2>1. m - 1 \in Int /\ 0 \in Int
      OBVIOUS
    <2>2. /\ IsFiniteSet(I)
          /\ Cardinality(I) = IF 0 > m - 1 THEN 0 ELSE (m - 1) - 0 + 1
      BY <2>1, FS_Interval
    <2> HIDE DEF I
    <2> QED BY <2>2
  <1>3. IsFiniteSet(R \X I) /\ Cardinality(R \X I) = (Cardinality(S) - 1) * m
    <2> HIDE DEF R, I
    <2>1. IsFiniteSet(R \X I) /\ Cardinality(R \X I) = Cardinality(R) * Cardinality(I)
      BY <1>1, <1>2, FS_Product
    <2> QED BY <1>1, <1>2, <2>1
  <1>4. IsFiniteSet(A) /\ IsFiniteSet(U)
    BY <1>1, FS_Subset, UnitsFinite
  <1>5. IsFiniteSet(V) /\ Cardinality(V) = Cardinality(A)
    <2>1. g \in Bijection(A, V)
      BY DEF Bijection, Injection, Surjection, IsInjective
    <2> QED BY <1>4, <2>1, FS_Bijection DEF ExistsBijection
  <1>6. U \cap V = {}
    <2> SUFFICES ASSUME NEW a \in A, <<a, m - 1>> \in U
                 PROVE  FALSE
      OBVIOUS
    <2>1. m - 1 < f[a] /\ f[a] < m /\ f[a] \in Nat
      BY DEF Units
    <2> QED BY <2>1
  <1>7. U \cup V \subseteq R \X I
    <2>1. ASSUME NEW u \in U
          PROVE  u \in R \X I
      <3>1. u \in R \X Nat /\ u[2] < f[u[1]] /\ f[u[1]] \in Nat /\ f[u[1]] =< m
        BY DEF Units
      <3> QED BY <3>1
    <2>2. V \subseteq R \X I
      OBVIOUS
    <2> QED BY <2>1, <2>2
  <1>8. Total(f) = Cardinality(U)
    BY TotalSplit
  <1> HIDE DEF U, V, R, I
  <1>9. Cardinality(U \cup V) = Cardinality(U) + Cardinality(V) - Cardinality(U \cap V)
    BY <1>4, <1>5, FS_Union
  <1>10. Cardinality(U \cap V) = 0
    BY <1>6, FS_EmptySet
  <1>11. Cardinality(U) \in Nat /\ Cardinality(V) \in Nat
    BY <1>4, <1>5, FS_CardinalityType
  <1>12. Cardinality(U) + Cardinality(V) = Cardinality(U \cup V)
    BY <1>9, <1>10, <1>11
  <1>13. Cardinality(U \cup V) =< Cardinality(R \X I)
    BY <1>3, <1>7, FS_Subset
  <1> QED BY <1>3, <1>5, <1>8, <1>12, <1>13

-----------------------------------------------------------------------------
(* Sums over sequences.                                                    *)

LEMMA TotalOfSeq ==
    ASSUME NEW q \in Seq(Nat)
    PROVE  Total(q) = Cardinality(Units(q, 1 .. Len(q))) /\ Total(q) \in Nat
  <1>1. q \in [1 .. Len(q) -> Nat] /\ IsFiniteSet(1 .. Len(q))
    BY FS_Interval
  <1> QED BY <1>1, SumIsCount DEF Total

LEMMA TotalEmpty == Total(<< >>) = 0
  <1>1. << >> \in Seq(Nat) /\ Len(<< >>) = 0
    OBVIOUS
  <1>2. 1 .. 0 = {}
    OBVIOUS
  <1>3. Units(<< >>, 1 .. Len(<< >>)) = {}
    BY <1>1, <1>2 DEF Units
  <1> QED BY <1>1, <1>3, TotalOfSeq, FS_EmptySet

LEMMA TotalAppend ==
    ASSUME NEW q \in Seq(Nat), NEW n \in Nat
    PROVE  Total(Append(q, n)) = Total(q) + n
  <1> DEFINE r == Append(q, n)
             D == 1 .. Len(r)
             x == Len(r)
  <1>1. r \in Seq(Nat) /\ Len(r) = Len(q) + 1 /\ r[x] = n /\ Len(q) \in Nat
    OBVIOUS
  <1>2. \A i \in 1 .. Len(q) : r[i] = q[i]
    OBVIOUS
  <1>3. D \ {x} = 1 .. Len(q) /\ x \in D
    BY <1>1
  <1>4. r \in [D -> Nat] /\ IsFiniteSet(D)
    <2>1. IsFiniteSet(D)
      BY <1>1, FS_Interval
    <2> HIDE DEF r
    <2> QED BY <1>1, <2>1
  <1>5. Units(r, D \ {x}) = Units(q, 1 .. Len(q))
    BY <1>2, <1>3 DEF Units
  <1> HIDE DEF r, D, x
  <1>6. Total(r) = r[x] + Cardinality(Units(r, D \ {x}))
    BY <1>3, <1>4, TotalSplit
  <1>7. Total(q) = Cardinality(Units(q, 1 .. Len(q))) /\ Total(q) \in Nat
    BY TotalOfSeq
  <1>8. Total(r) = Total(q) + n
    BY <1>1, <1>5, <1>6, <1>7
  <1> QED BY <1>8 DEF r

LEMMA TotalTail ==
    ASSUME NEW q \in Seq(Nat), q # << >>
    PROVE  Total(q) = q[1] + Total(Tail(q)) /\ Total(Tail(q)) \in Nat
  <1> DEFINE D == 1 .. Len(q)
             r == Tail(q)
             U == Units(q, D \ {1})
             V == Units(r, 1 .. Len(r))
             g == [u \in U |-> <<u[1] - 1, u[2]>>]
  <1>1. /\ r \in Seq(Nat) /\ Len(r) = Len(q) - 1 /\ Len(q) \in Nat \ {0}
        /\ \A i \in 1 .. Len(r) : r[i] = q[i + 1]
    OBVIOUS
  <1>2. q \in [D -> Nat] /\ IsFiniteSet(D) /\ 1 \in D
    <2>1. IsFiniteSet(D)
      BY <1>1, FS_Interval
    <2> QED BY <1>1, <2>1
  <1>3. Total(q) = q[1] + Cardinality(U)
    BY <1>2, TotalSplit
  <1>4. IsFiniteSet(U)
    BY <1>2, UnitsFinite
  <1>5. g \in Bijection(U, V)
    <2>1. ASSUME NEW u \in U
          PROVE  g[u] \in V /\ u = <<g[u][1] + 1, g[u][2]>>
      <3>1. u \in (D \ {1}) \X Nat /\ u[2] < q[u[1]]
        BY DEF Units
      <3>2. u[1] \in 2 .. Len(q) /\ u = <<u[1], u[2]>> /\ u[2] \in Nat
        BY <3>1
      <3>3. u[1] - 1 \in 1 .. Len(r) /\ r[u[1] - 1] = q[u[1]] /\ (u[1] - 1) + 1 = u[1]
        BY <1>1, <3>2
      <3>4. g[u] = <<u[1] - 1, u[2]>>
        OBVIOUS
      <3> QED BY <3>1, <3>2, <3>3, <3>4 DEF Units
    <2>2. ASSUME NEW v \in V
          PROVE  \E u \in U : g[u] = v
      <3> DEFINE u == <<v[1] + 1, v[2]>>
      <3>1. v \in (1 .. Len(r)) \X Nat /\ v[2] < r[v[1]]
        BY DEF Units
      <3>2. v[1] \in 1 .. Len(r) /\ v = <<v[1], v[2]>> /\ v[2] \in Nat
        BY <3>1
      <3>3. v[1] + 1 \in D \ {1} /\ q[v[1] + 1] = r[v[1]] /\ (v[1] + 1) - 1 = v[1]
        BY <1>1, <3>2
      <3>4. u \in U
        BY <3>1, <3>2, <3>3 DEF Units
      <3>5. g[u] = v
        BY <3>2, <3>3, <3>4
      <3> QED BY <3>4, <3>5
    <2>3. \A u, w \in U : g[u] = g[w] => u = w
      BY <2>1
    <2> QED BY <2>1, <2>2, <2>3 DEF Bijection, Injection, Surjection, IsInjective
  <1>6. Cardinality(V) = Cardinality(U)
    BY <1>4, <1>5, FS_Bijection DEF ExistsBijection
  <1>7. Total(r) = Cardinality(V) /\ Total(r) \in Nat
    BY <1>1, TotalOfSeq
  <1> QED BY <1>3, <1>6, <1>7
=============================================================================
