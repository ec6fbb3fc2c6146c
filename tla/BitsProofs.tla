----------------------------- MODULE BitsProofs -----------------------------
(***************************************************************************)
(* Facts about the bits of numbers, by induction on their width, and about *)
(* functions defined by recursion.  The library's induction theorems       *)
(* cannot be used: what stands in for them is that a set of natural        *)
(* numbers has a least element.                                            *)
(***************************************************************************)
EXTENDS Bits, FiniteSets, TLAPS, FiniteSetTheorems, WellFoundedInduction

-------------------------------------------------------------------------------
(* Induction.                                                              *)

\* A set of natural numbers has a least element.
LEMMA LeastElement ==
  ASSUME NEW T \in SUBSET Nat, T # {}
  PROVE  \E x \in T : \A y \in T : x <= y
<1> DEFINE U == {0 .. x : x \in T}
<1>1. IsWellFoundedOn(StrictSubsetOrdering(Nat), FiniteSubsetsOf(Nat))
  BY FS_StrictSubsetOrderingWellFounded
<1>2. U \subseteq FiniteSubsetsOf(Nat) /\ U # {}
  <2>1. \A x \in T : 0 .. x \in SUBSET Nat /\ IsFiniteSet(0 .. x)
    BY FS_Interval
  <2>2. QED BY <2>1 DEF FiniteSubsetsOf
<1>3. PICK X \in U : \A Y \in U : ~ (<<Y, X>> \in StrictSubsetOrdering(Nat))
  <2> HIDE DEF U
  <2> QED BY <1>1, <1>2, WFMin
<1>4. PICK x \in T : X = 0 .. x
  OBVIOUS
<1>5. ASSUME NEW y \in T, y < x PROVE FALSE
  <2>1. 0 .. y \in SUBSET Nat /\ 0 .. x \in SUBSET Nat
    OBVIOUS
  <2>2. 0 .. y \subseteq 0 .. x /\ x \in 0 .. x /\ x \notin 0 .. y
    BY <1>5
  <2>3. <<0 .. y, 0 .. x>> \in StrictSubsetOrdering(Nat)
    BY <2>1, <2>2 DEF StrictSubsetOrdering
  <2>4. QED BY <2>3, <1>3, <1>4
<1>6. QED BY <1>5

\* A set that holds zero and the successor of each of its elements holds every
\* natural number.
LEMMA Induction ==
  ASSUME NEW S, 0 \in S, \A n \in Nat : n \in S => n + 1 \in S
  PROVE  \A n \in Nat : n \in S
<1> DEFINE T == Nat \ S
<1>1. SUFFICES ASSUME T # {} PROVE FALSE
  OBVIOUS
<1>2. PICK x \in T : \A y \in T : x <= y
  <2>1. T \in SUBSET Nat OBVIOUS
  <2>2. QED BY <1>1, <2>1, LeastElement
<1>3. x # 0 /\ x - 1 \in Nat /\ x - 1 \notin T
  BY <1>2
<1>4. (x - 1) + 1 \in S
  BY <1>3
<1>5. QED BY <1>2, <1>4
-------------------------------------------------------------------------------
(* Powers of two and division.                                             *)

\* The library knows the powers of two as the sizes of sets of subsets.
LEMMA PowerIsCardinality ==
  ASSUME NEW n \in Nat
  PROVE  /\ IsFiniteSet(SUBSET (1 .. n))
         /\ Cardinality(SUBSET (1 .. n)) = 2^n
<1>1. IsFiniteSet(1 .. n) /\ Cardinality(1 .. n) = n
  BY FS_Interval
<1>2. QED BY <1>1, FS_SUBSET

LEMMA PowerZero == 2^0 = 1
OBVIOUS

LEMMA PowerPositive ==
  ASSUME NEW n \in Nat
  PROVE  2^n \in Nat \ {0}
<1>1. Cardinality(SUBSET (1 .. n)) \in Nat
  BY PowerIsCardinality, FS_CardinalityType
<1>2. SUBSET (1 .. n) # {}
  OBVIOUS
<1>3. Cardinality(SUBSET (1 .. n)) # 0
  BY <1>2, PowerIsCardinality, FS_EmptySet
<1>4. QED BY <1>1, <1>3, PowerIsCardinality

LEMMA PowerNext ==
  ASSUME NEW n \in Nat
  PROVE  2^(n + 1) = 2 * 2^n
<1> DEFINE A == SUBSET (1 .. n)
           B == {X \cup {n + 1} : X \in A}
<1>1. IsFiniteSet(A) /\ Cardinality(A) = 2^n
  BY PowerIsCardinality
<1>2. SUBSET (1 .. n + 1) = A \cup B
  <2>1. ASSUME NEW X \in SUBSET (1 .. n + 1) PROVE X \in A \cup B
    <3>1. CASE n + 1 \in X
      <4>1. X \ {n + 1} \in A /\ X = (X \ {n + 1}) \cup {n + 1}
        BY <3>1
      <4>2. QED BY <4>1
    <3>2. CASE n + 1 \notin X
      BY <3>2
    <3>3. QED BY <3>1, <3>2
  <2>2. A \subseteq SUBSET (1 .. n + 1)
    OBVIOUS
  <2>3. \A X \in A : X \cup {n + 1} \in SUBSET (1 .. n + 1)
    OBVIOUS
  <2>4. B \subseteq SUBSET (1 .. n + 1)
    BY <2>3
  <2> HIDE DEF A, B
  <2>5. QED BY <2>1, <2>2, <2>4
<1>3. A \cap B = {}
  <2>1. \A X \in A : n + 1 \notin X
    OBVIOUS
  <2>2. QED BY <2>1
<1>4. IsFiniteSet(B) /\ Cardinality(B) = Cardinality(A)
  <2> DEFINE f == [X \in A |-> X \cup {n + 1}]
  <2>1. f \in Bijection(A, B)
    <3>1. \A X, Y \in A : f[X] = f[Y] => X = Y
      <4>1. \A X \in A : n + 1 \notin X
        OBVIOUS
      <4>2. \A X \in A : (X \cup {n + 1}) \ {n + 1} = X
        BY <4>1
      <4>3. QED BY <4>2
    <3>2. f \in [A -> B]
      OBVIOUS
    <3>3. \A Y \in B : \E X \in A : f[X] = Y
      OBVIOUS
    <3> HIDE DEF f, A, B
    <3>4. f \in Injection(A, B) BY <3>1, <3>2 DEF Injection, IsInjective
    <3>5. f \in Surjection(A, B) BY <3>2, <3>3 DEF Surjection
    <3>6. QED BY <3>4, <3>5 DEF Bijection
  <2> HIDE DEF f, A, B
  <2>2. ExistsBijection(A, B) BY <2>1 DEF ExistsBijection
  <2>3. QED BY <1>1, <2>2, FS_Bijection
<1>5. Cardinality(A \cup B) = Cardinality(A) + Cardinality(B) - Cardinality(A \cap B)
  <2> HIDE DEF A, B
  <2> QED BY <1>1, <1>4, FS_Union
<1>6. Cardinality(A \cap B) = 0
  BY <1>3, FS_EmptySet
<1>7. Cardinality(SUBSET (1 .. n + 1)) = 2^(n + 1)
  BY PowerIsCardinality
<1>8. 2^n \in Nat
  BY PowerPositive
<1> HIDE DEF A, B
<1>9. Cardinality(A \cup B) = 2^n + 2^n
  BY <1>1, <1>4, <1>5, <1>6, <1>8
<1>10. 2^n + 2^n = 2 * 2^n
  BY <1>8
<1>11. 2^(n + 1) = Cardinality(A \cup B)
  BY <1>2, <1>7, Zenon
<1>12. QED BY <1>9, <1>10, <1>11, Zenon

\* Quotient and remainder are determined by what defines them.
LEMMA Division ==
  ASSUME NEW x \in Nat, NEW d \in Nat \ {0}, NEW q \in Nat, NEW r \in 0 .. d - 1,
         x = d * q + r
  PROVE  x \div d = q /\ x % d = r
<1> DEFINE p == x \div d  s == x % d
<1>1. x = d * p + s /\ s \in 0 .. d - 1 /\ p \in Int
  OBVIOUS
<1> HIDE DEF p, s
<1>2. CASE p < q
  <2>1. q - p \in Nat \ {0} BY <1>1, <1>2
  <2>2. d * (q - p) >= d BY <2>1
  <2>3. d * (q - p) = d * q - d * p BY <1>1
  <2>4. QED BY <2>2, <2>3, <1>1
<1>3. CASE q < p
  <2>1. p - q \in Nat \ {0} BY <1>1, <1>3
  <2>2. d * (p - q) >= d BY <2>1
  <2>3. d * (p - q) = d * p - d * q BY <1>1
  <2>4. QED BY <2>2, <2>3, <1>1
<1>4. CASE p = q
  BY <1>4, <1>1 DEF p, s
<1>5. QED BY <1>1, <1>2, <1>3, <1>4

\* Halving a remainder, and the remainder of a half.
LEMMA HalfOfRemainder ==
  ASSUME NEW x \in Nat, NEW d \in Nat \ {0}
  PROVE  /\ (x % (2 * d)) \div 2 = (x \div 2) % d
         /\ (x % (2 * d)) % 2 = x % 2
         /\ (x \div 2) \div d = x \div (2 * d)
<1> DEFINE h == x \div 2  b == x % 2  q == h \div d  r == h % d
<1>1. x = 2 * h + b /\ h \in Nat /\ b \in 0 .. 1
  OBVIOUS
<1>2. h = d * q + r /\ r \in 0 .. d - 1 /\ q \in Nat
  BY <1>1
<1> HIDE DEF h, b, q, r
<1>3. x = (2 * d) * q + (2 * r + b) /\ 2 * r + b \in 0 .. (2 * d - 1) /\ 2 * d \in Nat \ {0}
  <2>1. 2 * (d * q) = (2 * d) * q BY <1>2
  <2>2. QED BY <2>1, <1>1, <1>2
<1>4. x \div (2 * d) = q /\ x % (2 * d) = 2 * r + b
  BY <1>2, <1>3, Division
<1>5. (2 * r + b) \div 2 = r /\ (2 * r + b) % 2 = b
  BY <1>1, <1>2
<1>6. QED BY <1>4, <1>5 DEF h, b, q, r

LEMMA PowerMonotone ==
  ASSUME NEW m \in Nat, NEW n \in Nat, m <= n
  PROVE  2^m <= 2^n
<1> DEFINE S == {k \in Nat : 2^m <= 2^(m + k)}
<1>1. 0 \in S
  BY PowerPositive
<1>2. ASSUME NEW k \in Nat, k \in S PROVE k + 1 \in S
  <2>1. 2^((m + k) + 1) = 2 * 2^(m + k) /\ 2^(m + k) \in Nat /\ 2^m \in Nat
    BY PowerNext, PowerPositive
  <2>2. (m + k) + 1 = m + (k + 1)
    OBVIOUS
  <2>3. 2^m <= 2^((m + k) + 1)
    BY <1>2, <2>1
  <2>4. QED BY <2>2, <2>3
<1>3. n - m \in S
  <2> HIDE DEF S
  <2> QED BY <1>1, <1>2, Induction
<1>4. m + (n - m) = n
  OBVIOUS
<1>5. QED BY <1>3, <1>4
-------------------------------------------------------------------------------
(* Bits.                                                                   *)

\* The lowest bit is the parity, the others are those of the half.
LEMMA BitCases ==
  ASSUME NEW x \in Nat
  PROVE  /\ Bit(x, 1) <=> x % 2 = 1
         /\ \A k \in Nat \ {0} : Bit(x, k + 1) <=> Bit(x \div 2, k)
         /\ x \div 2 \in Nat
<1>1. Bit(x, 1) <=> x % 2 = 1
  <2>1. x \div 2^(1 - 1) = x
    BY PowerZero
  <2>2. QED BY <2>1 DEF Bit
<1>2. ASSUME NEW k \in Nat \ {0} PROVE Bit(x, k + 1) <=> Bit(x \div 2, k)
  <2>1. k - 1 \in Nat /\ (k - 1) + 1 = (k + 1) - 1
    OBVIOUS
  <2>2. 2^((k + 1) - 1) = 2 * 2^(k - 1) /\ 2^(k - 1) \in Nat \ {0}
    BY <2>1, PowerNext, PowerPositive
  <2>3. (x \div 2) \div 2^(k - 1) = x \div 2^((k + 1) - 1)
    BY <2>2, HalfOfRemainder
  <2>4. QED BY <2>3 DEF Bit
<1>3. QED BY <1>1, <1>2

\* A number of n bits has no higher ones.
LEMMA NoHigherBits ==
  ASSUME NEW n \in Nat, NEW x \in 0 .. 2^n - 1, NEW k \in Nat \ {0}, n < k
  PROVE  ~ Bit(x, k)
<1> DEFINE S == {m \in Nat : \A y \in 0 .. 2^m - 1 : \A j \in Nat : m < j => ~ Bit(y, j)}
<1>1. 0 \in S
  <2>1. SUFFICES ASSUME NEW j \in Nat, 0 < j PROVE ~ Bit(0, j)
    BY PowerZero
  <2>2. 2^(j - 1) \in Nat \ {0}
    BY <2>1, PowerPositive
  <2>3. 0 \div 2^(j - 1) = 0
    BY <2>2
  <2>4. 0 % 2 # 1
    OBVIOUS
  <2>5. QED BY <2>3, <2>4, Zenon DEF Bit
<1>2. ASSUME NEW m \in Nat, m \in S PROVE m + 1 \in S
  <2>1. SUFFICES ASSUME NEW y \in 0 .. 2^(m + 1) - 1, NEW j \in Nat, m + 1 < j
                 PROVE  ~ Bit(y, j)
    OBVIOUS
  <2>2. 2^(m + 1) = 2 * 2^m /\ 2^m \in Nat \ {0}
    BY PowerNext, PowerPositive
  <2>3. y \in Nat /\ y \div 2 \in 0 .. 2^m - 1
    BY <2>2
  <2>4. j - 1 \in Nat \ {0} /\ m < j - 1 /\ (j - 1) + 1 = j
    BY <2>1
  <2>5. ~ Bit(y \div 2, j - 1)
    BY <1>2, <2>3, <2>4
  <2>6. QED BY <2>3, <2>4, <2>5, BitCases
<1>3. n \in S
  <2> HIDE DEF S
  <2> QED BY <1>1, <1>2, Induction
<1>4. QED BY <1>3

\* Numbers of n bits that have the same bits are the same.
LEMMA SameBits ==
  ASSUME NEW n \in Nat, NEW x \in 0 .. 2^n - 1, NEW y \in 0 .. 2^n - 1,
         \A k \in 1 .. n : Bit(x, k) <=> Bit(y, k)
  PROVE  x = y
<1> DEFINE Same(m, a, b) == \A k \in 1 .. m : Bit(a, k) <=> Bit(b, k)
           S == {m \in Nat : \A a, b \in 0 .. 2^m - 1 : Same(m, a, b) => a = b}
<1>1. 0 \in S
  BY PowerZero
<1>2. ASSUME NEW m \in Nat, m \in S PROVE m + 1 \in S
  <2>1. SUFFICES ASSUME NEW a \in 0 .. 2^(m + 1) - 1, NEW b \in 0 .. 2^(m + 1) - 1,
                        Same(m + 1, a, b)
                 PROVE  a = b
    OBVIOUS
  <2>2. 2^(m + 1) = 2 * 2^m /\ 2^m \in Nat \ {0} /\ a \in Nat /\ b \in Nat
    BY PowerNext, PowerPositive
  <2>3. a \div 2 \in 0 .. 2^m - 1 /\ b \div 2 \in 0 .. 2^m - 1
    BY <2>2
  <2>4. a % 2 = 1 <=> b % 2 = 1
    BY <2>1, <2>2, BitCases
  <2>5. Same(m, a \div 2, b \div 2)
    BY <2>1, <2>2, BitCases
  <2>6. a \div 2 = b \div 2
    BY <1>2, <2>3, <2>5
  <2>7. QED BY <2>2, <2>4, <2>6
<1>3. n \in S
  <2> HIDE DEF S
  <2> QED BY <1>1, <1>2, Induction
<1>4. QED BY <1>3

\* Any n bits are those of a number.
LEMMA BitsHaveNumber ==
  ASSUME NEW n \in Nat, NEW f \in [1 .. n -> BOOLEAN]
  PROVE  \E x \in 0 .. 2^n - 1 : \A k \in 1 .. n : Bit(x, k) <=> f[k]
<1> DEFINE Has(m, g) == \E x \in 0 .. 2^m - 1 : \A k \in 1 .. m : Bit(x, k) <=> g[k]
           S == {m \in Nat : \A g \in [1 .. m -> BOOLEAN] : Has(m, g)}
<1>1. 0 \in S
  BY PowerZero
<1>2. ASSUME NEW m \in Nat, m \in S PROVE m + 1 \in S
  <2>1. SUFFICES ASSUME NEW g \in [1 .. m + 1 -> BOOLEAN] PROVE Has(m + 1, g)
    OBVIOUS
  <2> DEFINE h == [k \in 1 .. m |-> g[k + 1]]
  <2>2. h \in [1 .. m -> BOOLEAN]
    OBVIOUS
  <2>3. PICK y \in 0 .. 2^m - 1 : \A k \in 1 .. m : Bit(y, k) <=> h[k]
    <3> HIDE DEF h
    <3> QED BY <1>2, <2>2
  <2> DEFINE x == 2 * y + (IF g[1] THEN 1 ELSE 0)
  <2>4. 2^(m + 1) = 2 * 2^m /\ 2^m \in Nat \ {0}
    BY PowerNext, PowerPositive
  <2>5. x \in 0 .. 2^(m + 1) - 1 /\ x \in Nat /\ x \div 2 = y /\ (x % 2 = 1 <=> g[1])
    BY <2>4
  <2>6. ASSUME NEW k \in 1 .. m + 1 PROVE Bit(x, k) <=> g[k]
    <3> HIDE DEF x
    <3>1. CASE k = 1
      BY <3>1, <2>5, BitCases
    <3>2. CASE k # 1
      <4>1. k - 1 \in 1 .. m /\ (k - 1) + 1 = k /\ k - 1 \in Nat \ {0}
        BY <3>2
      <4>2. Bit(x, k) <=> Bit(y, k - 1)
        BY <4>1, <2>5, BitCases
      <4>3. QED BY <4>1, <4>2, <2>3
    <3>3. QED BY <3>1, <3>2
  <2>7. QED BY <2>5, <2>6
<1>3. n \in S
  <2> HIDE DEF S
  <2> QED BY <1>1, <1>2, Induction
<1>4. QED BY <1>3

\* Number(n, f) is the one number with the bits f.
LEMMA NumberBits ==
  ASSUME NEW n \in Nat, NEW f \in [1 .. n -> BOOLEAN]
  PROVE  /\ Number(n, f) \in 0 .. 2^n - 1
         /\ \A k \in 1 .. n : Bit(Number(n, f), k) <=> f[k]
<1>1. PICK x \in 0 .. 2^n - 1 : \A k \in 1 .. n : Bit(x, k) <=> f[k]
  BY BitsHaveNumber
<1>2. BitsOf(n, x) = f
  <2>1. \A k \in 1 .. n : Bit(x, k) = f[k]
    <3>1. \A k \in 1 .. n : Bit(x, k) \in BOOLEAN /\ f[k] \in BOOLEAN
      BY DEF Bit
    <3>2. QED BY <1>1, <3>1
  <2>2. QED BY <2>1 DEF BitsOf
<1>3. Number(n, f) \in 0 .. 2^n - 1 /\ BitsOf(n, Number(n, f)) = f
  BY <1>2 DEF Number
<1>4. QED BY <1>3 DEF BitsOf

LEMMA NumberIs ==
  ASSUME NEW n \in Nat, NEW f \in [1 .. n -> BOOLEAN], NEW x \in 0 .. 2^n - 1,
         \A k \in 1 .. n : Bit(x, k) <=> f[k]
  PROVE  Number(n, f) = x
BY NumberBits, SameBits

\* The remainder by a power of two keeps the low bits.
LEMMA BitsOfRemainder ==
  ASSUME NEW n \in Nat, NEW x \in Nat, NEW k \in Nat \ {0}
  PROVE  /\ x % 2^n \in 0 .. 2^n - 1
         /\ Bit(x % 2^n, k) <=> k <= n /\ Bit(x, k)
<1> DEFINE Low(m, y, j) == j <= m => (Bit(y % 2^m, j) <=> Bit(y, j))
           S == {i \in Nat : \A m, y \in Nat : Low(m, y, i + 1)}
<1>1. ASSUME NEW m \in Nat \ {0}, NEW y \in Nat
      PROVE  /\ m - 1 \in Nat /\ 2^m = 2 * 2^(m - 1) /\ 2^(m - 1) \in Nat \ {0}
             /\ y % 2^m \in Nat
             /\ (y % 2^m) \div 2 = (y \div 2) % 2^(m - 1) /\ (y % 2^m) % 2 = y % 2
  <2>1. m - 1 \in Nat /\ (m - 1) + 1 = m
    OBVIOUS
  <2>2. 2^m = 2 * 2^(m - 1) /\ 2^(m - 1) \in Nat \ {0}
    BY <2>1, PowerNext, PowerPositive
  <2>3. /\ (y % (2 * 2^(m - 1))) \div 2 = (y \div 2) % 2^(m - 1)
        /\ (y % (2 * 2^(m - 1))) % 2 = y % 2
    BY <2>2, HalfOfRemainder
  <2>4. y % (2 * 2^(m - 1)) \in Nat
    BY <2>2
  <2>5. QED BY <2>1, <2>2, <2>3, <2>4, Zenon
<1>2. 0 \in S
  <2>1. SUFFICES ASSUME NEW m \in Nat, NEW y \in Nat, 1 <= m
                 PROVE  Bit(y % 2^m, 1) <=> Bit(y, 1)
    OBVIOUS
  <2>2. m \in Nat \ {0}
    BY <2>1
  <2>3. y % 2^m \in Nat /\ (y % 2^m) % 2 = y % 2
    BY <2>2, <1>1
  <2>4. QED BY <2>3, BitCases, Zenon
<1>3. ASSUME NEW i \in Nat, i \in S PROVE i + 1 \in S
  <2>1. SUFFICES ASSUME NEW m \in Nat, NEW y \in Nat, (i + 1) + 1 <= m
                 PROVE  Bit(y % 2^m, (i + 1) + 1) <=> Bit(y, (i + 1) + 1)
    OBVIOUS
  <2>2. i + 1 <= m - 1 /\ i + 1 \in Nat \ {0} /\ y \div 2 \in Nat
    BY <2>1
  <2>3. Bit((y \div 2) % 2^(m - 1), i + 1) <=> Bit(y \div 2, i + 1)
    BY <1>3, <2>1, <2>2
  <2>4. m \in Nat \ {0}
    BY <2>1
  <2>5. y % 2^m \in Nat /\ (y % 2^m) \div 2 = (y \div 2) % 2^(m - 1)
    BY <2>4, <1>1
  <2>6. Bit(y % 2^m, (i + 1) + 1) <=> Bit((y % 2^m) \div 2, i + 1)
    BY <2>2, <2>5, BitCases, Zenon
  <2>7. Bit(y, (i + 1) + 1) <=> Bit(y \div 2, i + 1)
    BY <2>2, BitCases, Zenon
  <2>8. QED BY <2>3, <2>5, <2>6, <2>7, Zenon
<1>4. k - 1 \in S /\ (k - 1) + 1 = k
  <2> HIDE DEF S
  <2> QED BY <1>2, <1>3, Induction
<1>5. x % 2^n \in 0 .. 2^n - 1
  BY PowerPositive
<1>6. QED BY <1>4, <1>5, NoHigherBits

\* A mask has its low bits set.
LEMMA BitsOfMask ==
  ASSUME NEW n \in Nat, NEW k \in Nat \ {0}
  PROVE  Bit(2^n - 1, k) <=> k <= n
<1> DEFINE S == {i \in Nat : \A m \in Nat : Bit(2^m - 1, i + 1) <=> i + 1 <= m}
<1>1. ASSUME NEW m \in Nat \ {0}
      PROVE  /\ m - 1 \in Nat /\ 2^m - 1 \in Nat /\ 2^(m - 1) - 1 \in Nat
             /\ (2^m - 1) \div 2 = 2^(m - 1) - 1 /\ (2^m - 1) % 2 = 1
  <2>1. m - 1 \in Nat /\ (m - 1) + 1 = m
    OBVIOUS
  <2>2. 2^m = 2 * 2^(m - 1) /\ 2^(m - 1) \in Nat \ {0}
    BY <2>1, PowerNext, PowerPositive
  <2>3. QED BY <2>1, <2>2
<1>2. \A j \in Nat \ {0} : ~ Bit(2^0 - 1, j)
  <2>1. 0 \in Nat /\ 2^0 - 1 \in 0 .. 2^0 - 1 /\ \A j \in Nat \ {0} : 0 < j
    BY PowerZero
  <2>2. QED BY <2>1, NoHigherBits, Zenon
<1>3. 0 \in S
  <2>1. SUFFICES ASSUME NEW m \in Nat PROVE Bit(2^m - 1, 1) <=> 1 <= m
    OBVIOUS
  <2>2. CASE m = 0
    BY <2>2, <1>2
  <2>3. CASE m # 0
    BY <2>3, <1>1, BitCases
  <2>4. QED BY <2>2, <2>3
<1>4. ASSUME NEW i \in Nat, i \in S PROVE i + 1 \in S
  <2>1. SUFFICES ASSUME NEW m \in Nat
                 PROVE  Bit(2^m - 1, (i + 1) + 1) <=> (i + 1) + 1 <= m
    OBVIOUS
  <2>2. CASE m = 0
    BY <2>2, <1>2
  <2>3. CASE m # 0
    <3>1. Bit(2^(m - 1) - 1, i + 1) <=> i + 1 <= m - 1
      BY <1>4, <2>3
    <3>2. QED BY <2>3, <3>1, <1>1, BitCases
  <2>4. QED BY <2>2, <2>3
<1>5. k - 1 \in S /\ (k - 1) + 1 = k
  <2> HIDE DEF S
  <2> QED BY <1>3, <1>4, Induction
<1>6. QED BY <1>5

\* & with a mask is the remainder.
LEMMA AndMask ==
  ASSUME NEW w \in Nat, NEW n \in 0 .. w, NEW x \in 0 .. 2^w - 1
  PROVE  And(w, x, 2^n - 1) = x % 2^n
<1> DEFINE f == [k \in 1 .. w |-> Bit(x, k) /\ Bit(2^n - 1, k)]
<1>1. x \in Nat /\ x % 2^n \in 0 .. 2^w - 1
  BY PowerPositive, PowerMonotone, BitsOfRemainder
<1>2. f \in [1 .. w -> BOOLEAN]
  BY DEF Bit
<1>3. ASSUME NEW k \in 1 .. w PROVE Bit(x % 2^n, k) <=> f[k]
  <2>1. k \in Nat \ {0} /\ n \in Nat
    OBVIOUS
  <2>2. Bit(x % 2^n, k) <=> k <= n /\ Bit(x, k)
    BY <1>1, <2>1, BitsOfRemainder, Zenon
  <2>3. Bit(2^n - 1, k) <=> k <= n
    BY <2>1, BitsOfMask, Zenon
  <2>4. QED BY <2>2, <2>3, Zenon
<1> HIDE DEF f
<1>4. Number(w, f) = x % 2^n
  BY <1>1, <1>2, <1>3, NumberIs
<1>5. QED BY <1>4 DEF And, f

\* ^ of numbers of n bits has n bits.
LEMMA XorBits ==
  ASSUME NEW w \in Nat, NEW n \in 0 .. w, NEW x \in 0 .. 2^n - 1, NEW y \in 0 .. 2^n - 1
  PROVE  /\ Xor(w, x, y) \in 0 .. 2^n - 1
         /\ \A k \in 1 .. n : Bit(Xor(w, x, y), k) <=> (Bit(x, k) # Bit(y, k))
<1> DEFINE f == [k \in 1 .. w |-> Bit(x, k) # Bit(y, k)]
           g == [k \in 1 .. n |-> Bit(x, k) # Bit(y, k)]
<1>1. f \in [1 .. w -> BOOLEAN] /\ g \in [1 .. n -> BOOLEAN]
  OBVIOUS
<1>2. /\ Number(n, g) \in 0 .. 2^n - 1
      /\ \A k \in 1 .. n : Bit(Number(n, g), k) <=> g[k]
  <2> HIDE DEF g
  <2> QED BY <1>1, NumberBits
<1>3. Number(n, g) \in 0 .. 2^w - 1
  <2>1. 2^n <= 2^w /\ 2^n \in Nat /\ 2^w \in Nat
    BY PowerPositive, PowerMonotone
  <2> HIDE DEF g
  <2>2. QED BY <2>1, <1>2
<1>4. \A k \in 1 .. w : Bit(Number(n, g), k) <=> f[k]
  <2>1. TAKE k \in 1 .. w
  <2>2. CASE k <= n
    <3>1. k \in 1 .. n
      BY <2>2
    <3>2. g[k] = f[k]
      BY <3>1
    <3>3. QED BY <3>1, <3>2, <1>2, Zenon
  <2>3. CASE n < k
    <3>1. ~ Bit(Number(n, g), k) /\ ~ Bit(x, k) /\ ~ Bit(y, k)
      <4> HIDE DEF g
      <4> QED BY <1>2, <2>3, NoHigherBits
    <3>2. QED BY <3>1 DEF Bit
  <2>4. QED BY <2>2, <2>3
<1>5. Number(w, f) = Number(n, g)
  <2> HIDE DEF f, g
  <2> QED BY <1>1, <1>3, <1>4, NumberIs
<1>6. Xor(w, x, y) = Number(n, g)
  BY <1>5 DEF Xor
<1>7. QED BY <1>2, <1>6

\* Shifting a bit into a register of w bits moves the others up.
LEMMA BitsOfShift ==
  ASSUME NEW w \in Nat, NEW r \in 0 .. 2^w - 1, NEW b \in 0 .. 1
  PROVE  /\ (2 * r + b) % 2^w \in 0 .. 2^w - 1
         /\ \A k \in 1 .. w : Bit((2 * r + b) % 2^w, k) <=> IF k = 1 THEN b = 1 ELSE Bit(r, k - 1)
<1> DEFINE x == 2 * r + b
<1>1. r \in Nat /\ x \in Nat /\ x \div 2 = r /\ x % 2 = b
  BY PowerPositive
<1> HIDE DEF x
<1>2. x % 2^w \in 0 .. 2^w - 1
  BY <1>1, PowerPositive
<1>3. ASSUME NEW k \in 1 .. w PROVE Bit(x % 2^w, k) <=> IF k = 1 THEN b = 1 ELSE Bit(r, k - 1)
  <2>1. Bit(x % 2^w, k) <=> Bit(x, k)
    BY <1>1, BitsOfRemainder
  <2>2. CASE k = 1
    BY <2>1, <2>2, <1>1, BitCases
  <2>3. CASE k # 1
    <3>1. k - 1 \in Nat \ {0} /\ (k - 1) + 1 = k
      BY <2>3
    <3>2. Bit(x, k) <=> Bit(r, k - 1)
      BY <3>1, <1>1, BitCases
    <3>3. QED BY <2>1, <2>3, <3>2
  <2>4. QED BY <2>2, <2>3
<1>4. QED BY <1>2, <1>3 DEF x

LEMMA PowerExceeds ==
  ASSUME NEW n \in Nat
  PROVE  n < 2^n
<1> DEFINE S == {k \in Nat : k < 2^k}
<1>1. 0 \in S
  BY PowerZero
<1>2. ASSUME NEW k \in Nat, k \in S PROVE k + 1 \in S
  BY <1>2, PowerNext, PowerPositive
<1>3. n \in S
  <2> HIDE DEF S
  <2> QED BY <1>1, <1>2, Induction
<1>4. QED BY <1>3
-------------------------------------------------------------------------------
(* Functions defined by recursion.                                         *)

\* A start and a step for each number define a function.
Iterates(c, N, V, start, step) ==
  /\ c \in [0 .. N -> V]
  /\ c[0] = start
  /\ \A i \in 1 .. N : c[i] = step[i][c[i - 1]]

LEMMA RecursionExists ==
  ASSUME NEW N \in Nat, NEW V, NEW start \in V, NEW step \in [1 .. N -> [V -> V]]
  PROVE  \E c : Iterates(c, N, V, start, step)
<1> DEFINE Steps(m, c) == c[0] = start /\ \A i \in 1 .. m : c[i] = step[i][c[i - 1]]
           S == {m \in Nat : m <= N => \E c \in [0 .. m -> V] : Steps(m, c)}
<1>1. 0 \in S
  <2>1. [i \in 0 .. 0 |-> start] \in [0 .. 0 -> V] /\ Steps(0, [i \in 0 .. 0 |-> start])
    OBVIOUS
  <2>2. QED BY <2>1
<1>2. ASSUME NEW m \in Nat, m \in S PROVE m + 1 \in S
  <2>1. SUFFICES ASSUME m + 1 <= N PROVE \E d \in [0 .. m + 1 -> V] : Steps(m + 1, d)
    OBVIOUS
  <2>2. PICK c \in [0 .. m -> V] : Steps(m, c)
    BY <1>2, <2>1
  <2> DEFINE d == [i \in 0 .. m + 1 |-> IF i = m + 1 THEN step[m + 1][c[m]] ELSE c[i]]
  <2>3. step[m + 1][c[m]] \in V
    BY <2>1
  <2>4. d \in [0 .. m + 1 -> V]
    BY <2>3
  <2>5. \A i \in 0 .. m : d[i] = c[i]
    OBVIOUS
  <2>6. d[m + 1] = step[m + 1][d[m]]
    OBVIOUS
  <2> HIDE DEF d
  <2>7. Steps(m + 1, d)
    <3>1. d[0] = start
      BY <2>2, <2>5
    <3>2. ASSUME NEW i \in 1 .. m + 1 PROVE d[i] = step[i][d[i - 1]]
      <4>1. CASE i = m + 1
        BY <2>6, <4>1
      <4>2. CASE i # m + 1
        <5>1. i \in 1 .. m /\ i \in 0 .. m /\ i - 1 \in 0 .. m
          BY <4>2
        <5>2. QED BY <5>1, <2>2, <2>5
      <4>3. QED BY <4>1, <4>2
    <3>3. QED BY <3>1, <3>2
  <2>8. QED BY <2>4, <2>7
<1>3. N \in S
  <2> HIDE DEF S
  <2> QED BY <1>1, <1>2, Induction
<1>4. QED BY <1>3 DEF Iterates

\* Two functions that start alike and step alike are alike.
LEMMA RecursionUnique ==
  ASSUME NEW N \in Nat, NEW c, NEW d, c[0] = d[0],
         \A i \in 1 .. N : c[i - 1] = d[i - 1] => c[i] = d[i]
  PROVE  \A i \in 0 .. N : c[i] = d[i]
<1> DEFINE S == {i \in Nat : i <= N => c[i] = d[i]}
<1>1. 0 \in S
  OBVIOUS
<1>2. ASSUME NEW i \in Nat, i \in S PROVE i + 1 \in S
  <2>1. SUFFICES ASSUME i + 1 <= N PROVE c[i + 1] = d[i + 1]
    OBVIOUS
  <2>2. i + 1 \in 1 .. N /\ (i + 1) - 1 = i /\ c[i] = d[i]
    BY <1>2, <2>1
  <2>3. QED BY <2>2
<1>3. \A i \in Nat : i \in S
  <2> HIDE DEF S
  <2> QED BY <1>1, <1>2, Induction
<1>4. QED BY <1>3
===============================================================================
