-------------------------- MODULE ArithmeticLemmas --------------------------
(***************************************************************************)
(* Facts of arithmetic that the other proofs rest on: induction over the   *)
(* naturals, in a form without an operator parameter; powers of two, from  *)
(* the number of subsets of a set; remainders; that a function defined by  *)
(* recursion on a natural number exists; and sums over finite sets.        *)
(***************************************************************************)
EXTENDS Integers, FiniteSets, TLAPS, WellFoundedInduction, FiniteSetTheorems

\* A nonempty set of naturals has a least element.
LEMMA LeastElement ==
  ASSUME NEW T, T \subseteq Nat, T # {}
  PROVE  \E x \in T : \A y \in T : ~(y < x)
<1>1. IsWellFoundedOn(OpToRel(<, Nat), Nat)
  BY NatLessThanWellFounded
<1>2. \E x \in T : \A y \in T : ~(<<y, x>> \in OpToRel(<, Nat))
  BY <1>1, WFMin
<1>. QED
  BY <1>2 DEF OpToRel

\* A set that holds 0 and with every natural the next one holds them all.
LEMMA SetInduction ==
  ASSUME NEW S, 0 \in S, \A n \in Nat : n \in S => n + 1 \in S
  PROVE  \A n \in Nat : n \in S
<1> SUFFICES ASSUME Nat \ S # {} PROVE FALSE
  OBVIOUS
<1>1. PICK x \in Nat \ S : \A y \in Nat \ S : ~(y < x)
  BY LeastElement
<1>2. x - 1 \in Nat /\ x - 1 < x
  BY <1>1
<1>3. x - 1 \in S
  BY <1>1, <1>2
<1>. QED
  BY <1>2, <1>3

\* A finite nonempty set of naturals has a largest element.
LEMMA LargestElement ==
  ASSUME NEW T, T \subseteq Nat, T # {}, IsFiniteSet(T)
  PROVE  \E x \in T : \A y \in T : y <= x
<1> DEFINE Bounded(U) == \E b \in Nat : \A y \in U : y <= b
           S == {n \in Nat : \A U \in SUBSET Nat :
                    IsFiniteSet(U) /\ Cardinality(U) = n => Bounded(U)}
<1>1. 0 \in S
  BY FS_EmptySet
<1>2. ASSUME NEW n \in Nat, n \in S PROVE n + 1 \in S
  <2> SUFFICES ASSUME NEW U \in SUBSET Nat, IsFiniteSet(U), Cardinality(U) = n + 1
               PROVE  Bounded(U)
    OBVIOUS
  <2>1. PICK x \in U : TRUE
    <3>1. U # {}
      BY FS_EmptySet
    <3>. QED
      BY <3>1
  <2>2. U \ {x} \in SUBSET Nat /\ IsFiniteSet(U \ {x}) /\ Cardinality(U \ {x}) = n
    <3>1. IsFiniteSet(U \ {x}) /\ Cardinality(U \ {x}) = Cardinality(U) - 1
      BY FS_RemoveElement, Zenon
    <3>. QED
      BY <3>1
  <2>3. PICK b \in Nat : \A y \in U \ {x} : y <= b
    BY <1>2, <2>2
  <2>4. b + x \in Nat /\ \A y \in U : y <= b + x
    BY <2>3
  <2>. QED
    BY <2>4
<1> HIDE DEF S
<1>3. \A n \in Nat : n \in S
  BY <1>1, <1>2, SetInduction
<1>4. Cardinality(T) \in S
  BY <1>3, FS_CardinalityType
<1>5. Bounded(T)
  BY <1>4 DEF S
<1> DEFINE B == {b \in Nat : \A y \in T : y <= b}
<1>6. PICK b \in B : \A c \in B : ~(c < b)
  BY <1>5, LeastElement
<1>7. b \in T
  <2> SUFFICES ASSUME b \notin T PROVE FALSE
    OBVIOUS
  <2>1. PICK x \in T : TRUE
    OBVIOUS
  <2>2. x \in Nat /\ x <= b /\ x # b /\ b \in Nat
    BY <1>6
  <2>3. b - 1 \in Nat /\ b - 1 < b /\ \A y \in T : y <= b - 1
    BY <1>6, <2>2
  <2>. QED
    BY <1>6, <2>3
<1>. QED
  BY <1>6, <1>7

-----------------------------------------------------------------------------
(* Powers of two.                                                          *)
LEMMA PowerIsCount ==
  ASSUME NEW n \in Nat
  PROVE  /\ IsFiniteSet(SUBSET (1 .. n)) /\ Cardinality(SUBSET (1 .. n)) \in Nat
         /\ 2 ^ n = Cardinality(SUBSET (1 .. n))
<1>1. IsFiniteSet(1 .. n) /\ Cardinality(1 .. n) = n
  BY FS_Interval
<1>2. IsFiniteSet(SUBSET (1 .. n)) /\ Cardinality(SUBSET (1 .. n)) = 2 ^ n
  <2>1. Cardinality(SUBSET (1 .. n)) = 2 ^ Cardinality(1 .. n)
    BY <1>1, FS_SUBSET
  <2>. QED
    BY <1>1, <2>1, FS_SUBSET
<1>. QED
  BY <1>2, FS_CardinalityType

LEMMA PowerZero == 2 ^ 0 = 1
<1>1. SUBSET (1 .. 0) = {{}}
  OBVIOUS
<1>. QED
  BY <1>1, PowerIsCount, FS_Singleton

LEMMA PowerSucc == \A n \in Nat : 2 ^ (n + 1) = 2 * 2 ^ n /\ 2 ^ n \in Nat \ {0}
<1> SUFFICES ASSUME NEW n \in Nat
             PROVE  2 ^ (n + 1) = 2 * 2 ^ n /\ 2 ^ n \in Nat \ {0}
  OBVIOUS
<1> DEFINE A == SUBSET (1 .. n)
           B == {T \in SUBSET (1 .. n + 1) : n + 1 \in T}
           C == SUBSET (1 .. n + 1)
           f == [T \in A |-> T \cup {n + 1}]
<1>1. C = A \cup B /\ A \cap B = {}
  <2>1. 1 .. n + 1 = (1 .. n) \cup {n + 1} /\ n + 1 \notin 1 .. n
    OBVIOUS
  <2>. QED
    BY <2>1
<1>2. f \in Bijection(A, B)
  <2>1. 1 .. n + 1 = (1 .. n) \cup {n + 1} /\ n + 1 \notin 1 .. n
    OBVIOUS
  <2>2. f \in [A -> B]
    BY <2>1
  <2>3. \A S, T \in A : f[S] = f[T] => S = T
    BY <2>1
  <2>4. \A T \in B : \E S \in A : f[S] = T
    <3> SUFFICES ASSUME NEW T \in B PROVE f[T \ {n + 1}] = T /\ T \ {n + 1} \in A
      OBVIOUS
    <3>. QED
      BY <2>1
  <2>. QED
    BY <2>2, <2>3, <2>4 DEF Bijection, Injection, Surjection, IsInjective
<1>3. /\ IsFiniteSet(A) /\ Cardinality(A) = 2 ^ n /\ Cardinality(A) \in Nat
      /\ Cardinality(C) = 2 ^ (n + 1)
  BY PowerIsCount
<1> HIDE DEF A, B, C, f
<1>4. IsFiniteSet(B) /\ Cardinality(B) = Cardinality(A)
  BY <1>2, <1>3, FS_Bijection DEF ExistsBijection
<1>5. Cardinality(C) = 2 * Cardinality(A)
  <2>1. Cardinality(A \cup B) = Cardinality(A) + Cardinality(B) - Cardinality(A \cap B)
    BY <1>3, <1>4, FS_Union
  <2>2. Cardinality(A \cap B) = 0
    BY <1>1, FS_EmptySet
  <2>. QED
    BY <1>1, <1>3, <1>4, <2>1, <2>2
<1>6. Cardinality(A) # 0
  <2>1. A # {}
    BY DEF A
  <2>. QED
    BY <2>1, <1>3, FS_EmptySet
<1>. QED
  BY <1>3, <1>5, <1>6

LEMMA PowerAdd == \A m, n \in Nat : 2 ^ (m + n) = 2 ^ m * 2 ^ n
<1> SUFFICES ASSUME NEW m \in Nat PROVE \A n \in Nat : 2 ^ (m + n) = 2 ^ m * 2 ^ n
  OBVIOUS
<1> DEFINE S == {n \in Nat : 2 ^ (m + n) = 2 ^ m * 2 ^ n}
<1>1. 0 \in S
  <2>1. m + 0 = m /\ 2 ^ m \in Nat
    BY PowerSucc
  <2>. QED
    BY <2>1, PowerZero
<1>2. ASSUME NEW n \in Nat, n \in S PROVE n + 1 \in S
  <2>1. m + (n + 1) = (m + n) + 1 /\ m + n \in Nat
    OBVIOUS
  <2>2. 2 ^ ((m + n) + 1) = 2 * 2 ^ (m + n) /\ 2 ^ (n + 1) = 2 * 2 ^ n
    BY <2>1, PowerSucc
  <2> DEFINE a == 2 ^ m
             b == 2 ^ n
  <2>3. a \in Nat /\ b \in Nat /\ 2 ^ (m + n) = a * b
    BY <1>2, PowerSucc
  <2> HIDE DEF a, b
  <2>4. 2 * (a * b) = a * (2 * b)
    BY <2>3
  <2>. QED
    BY <2>1, <2>2, <2>3, <2>4 DEF a, b
<1> HIDE DEF S
<1>3. \A n \in Nat : n \in S
  BY <1>1, <1>2, SetInduction
<1>. QED
  BY <1>3 DEF S

\* A larger exponent gives a larger power.
LEMMA PowerMonotone ==
  ASSUME NEW m \in Nat, NEW n \in Nat, m <= n
  PROVE  2 ^ m <= 2 ^ n
<1> DEFINE S == {k \in Nat : 2 ^ m <= 2 ^ (m + k)}
<1>1. 0 \in S
  BY PowerSucc
<1>2. ASSUME NEW k \in Nat, k \in S PROVE k + 1 \in S
  <2>1. /\ 2 ^ ((m + k) + 1) = 2 * 2 ^ (m + k)
        /\ 2 ^ m \in Nat /\ 2 ^ (m + k) \in Nat
    BY PowerSucc
  <2>2. m + (k + 1) = (m + k) + 1
    OBVIOUS
  <2>. QED
    BY <1>2, <2>1, <2>2
<1> HIDE DEF S
<1>3. \A k \in Nat : k \in S
  BY <1>1, <1>2, SetInduction
<1>4. n - m \in S
  BY <1>3
<1>5. m + (n - m) = n
  OBVIOUS
<1>. QED
  BY <1>4, <1>5 DEF S

\* The power of a number exceeds it.
LEMMA PowerExceeds == \A n \in Nat : n < 2 ^ n
<1> DEFINE S == {k \in Nat : k < 2 ^ k}
<1>1. 0 \in S
  BY PowerZero
<1>2. ASSUME NEW k \in Nat, k \in S PROVE k + 1 \in S
  BY <1>2, PowerSucc
<1> HIDE DEF S
<1>3. \A k \in Nat : k \in S
  BY <1>1, <1>2, SetInduction
<1>. QED
  BY <1>3 DEF S

-----------------------------------------------------------------------------
(* Remainders.                                                             *)
LEMMA ModSmall ==
  ASSUME NEW n \in Nat \ {0}, NEW x \in 0 .. n - 1
  PROVE  x % n = x
<1>1. x = n * (x \div n) + (x % n) /\ x % n \in 0 .. n - 1 /\ x \div n \in Nat
  OBVIOUS
<1>2. ASSUME NEW q \in Nat, q >= 1 PROVE n * q >= n
  BY <1>2
<1>. QED
  BY <1>1, <1>2

\* Quotient and remainder, and that they are the only ones.
LEMMA DivMod ==
  ASSUME NEW n \in Nat \ {0}, NEW x \in Nat
  PROVE  /\ x = n * (x \div n) + (x % n)
         /\ x \div n \in Nat /\ x % n \in 0 .. n - 1
<1>1. x = n * (x \div n) + (x % n)
  OBVIOUS
<1>2. x % n \in 0 .. n - 1
  OBVIOUS
<1>3. x \div n \in Int
  OBVIOUS
<1>4. ASSUME x \div n < 0 PROVE FALSE
  <2>1. \A q \in Int : q < 0 => n * q <= -n
    OBVIOUS
  <2>. QED
    BY <1>1, <1>2, <1>3, <1>4, <2>1
<1>. QED
  BY <1>1, <1>2, <1>3, <1>4

LEMMA DivModUnique ==
  ASSUME NEW n \in Nat \ {0}, NEW q \in Nat, NEW r \in 0 .. n - 1
  PROVE  (n * q + r) \div n = q /\ (n * q + r) % n = r
<1> DEFINE x == n * q + r
           d == x \div n
           m == x % n
<1>1. x \in Nat
  OBVIOUS
<1>2. x = n * d + m /\ d \in Nat /\ m \in 0 .. n - 1
  BY <1>1, DivMod
<1> HIDE DEF d, m
<1>3. n * q + r = n * d + m
  BY <1>2
<1>4. d = q
  <2>1. CASE d > q
    <3>1. d - q >= 1 /\ d - q \in Nat /\ n * d = n * q + n * (d - q)
      BY <1>2, <2>1
    <3>2. n * (d - q) >= n
      BY <3>1
    <3>. QED
      BY <1>2, <1>3, <3>1, <3>2
  <2>2. CASE q > d
    <3>1. q - d >= 1 /\ q - d \in Nat /\ n * q = n * d + n * (q - d)
      BY <1>2, <2>2
    <3>2. n * (q - d) >= n
      BY <3>1
    <3>. QED
      BY <1>2, <1>3, <3>1, <3>2
  <2>. QED
    BY <1>2, <2>1, <2>2
<1>. QED
  BY <1>2, <1>3, <1>4 DEF d, m

\* Counting on by one: the remainder goes up by one or starts again.
LEMMA ModSucc ==
  ASSUME NEW n \in Nat \ {0}, NEW x \in Nat
  PROVE  /\ x % n < n - 1 => (x + 1) % n = (x % n) + 1 /\ (x + 1) \div n = x \div n
         /\ x % n = n - 1 => (x + 1) % n = 0 /\ (x + 1) \div n = x \div n + 1
<1> DEFINE d == x \div n
           m == x % n
<1>1. x = n * d + m /\ d \in Nat /\ m \in 0 .. n - 1
  BY DivMod
<1> HIDE DEF d, m
<1>2. CASE m < n - 1
  <2>1. x + 1 = n * d + (m + 1) /\ m + 1 \in 0 .. n - 1
    BY <1>1, <1>2
  <2>2. (n * d + (m + 1)) \div n = d /\ (n * d + (m + 1)) % n = m + 1
    BY <1>1, <2>1, DivModUnique
  <2>. QED
    BY <1>1, <1>2, <2>1, <2>2 DEF d, m
<1>3. CASE m = n - 1
  <2>1. x + 1 = n * (d + 1) + 0 /\ d + 1 \in Nat
    BY <1>1, <1>3
  <2>2. (n * (d + 1) + 0) \div n = d + 1 /\ (n * (d + 1) + 0) % n = 0
    BY <1>1, <2>1, DivModUnique
  <2>. QED
    BY <1>1, <1>3, <2>1, <2>2 DEF d, m
<1>. QED
  BY <1>1, <1>2, <1>3 DEF d, m

-----------------------------------------------------------------------------
(* Recursion: a start value c and a step G[n] for every n determine a      *)
(* function on the naturals.  Run(V, c, G, n) are its first n + 1 values.  *)
Run(V, c, G, n) == {g \in [0 .. n -> V] : /\ g[0] = c
                                          /\ \A k \in 0 .. n - 1 : g[k + 1] = G[k][g[k]]}

LEMMA RunsExist ==
  ASSUME NEW V, NEW c \in V, NEW G \in [Nat -> [V -> V]]
  PROVE  \A n \in Nat : Run(V, c, G, n) # {}
<1> DEFINE S == {n \in Nat : Run(V, c, G, n) # {}}
<1>1. 0 \in S
  <2>1. [k \in 0 .. 0 |-> c] \in Run(V, c, G, 0)
    BY DEF Run
  <2>. QED
    BY <2>1
<1>2. ASSUME NEW n \in Nat, n \in S PROVE n + 1 \in S
  <2>1. PICK g \in [0 .. n -> V] : /\ g[0] = c
                                   /\ \A k \in 0 .. n - 1 : g[k + 1] = G[k][g[k]]
    BY <1>2 DEF Run
  <2> DEFINE h == [k \in 0 .. n + 1 |-> IF k = n + 1 THEN G[n][g[n]] ELSE g[k]]
  <2>2. g[n] \in V /\ G[n][g[n]] \in V
    OBVIOUS
  <2>3. h \in [0 .. n + 1 -> V] /\ h[0] = c
    BY <2>1, <2>2
  <2>4. ASSUME NEW k \in 0 .. (n + 1) - 1 PROVE h[k + 1] = G[k][h[k]]
    <3>1. CASE k = n
      BY <3>1
    <3>2. CASE k # n
      <4>1. k \in 0 .. n - 1 /\ k + 1 # n + 1 /\ k + 1 \in 0 .. n
        BY <3>2
      <4>. QED
        BY <2>1, <4>1
    <3>. QED
      BY <3>1, <3>2
  <2> HIDE DEF h
  <2>5. h \in Run(V, c, G, n + 1)
    BY <2>3, <2>4 DEF Run
  <2>. QED
    BY <2>5
<1> HIDE DEF S
<1>3. \A n \in Nat : n \in S
  BY <1>1, <1>2, SetInduction
<1>. QED
  BY <1>3 DEF S

LEMMA RunsAgree ==
  ASSUME NEW V, NEW c \in V, NEW G \in [Nat -> [V -> V]],
         NEW m \in Nat, NEW n \in Nat,
         NEW g \in Run(V, c, G, m), NEW h \in Run(V, c, G, n)
  PROVE  \A k \in Nat : k <= m /\ k <= n => g[k] = h[k]
<1> DEFINE S == {k \in Nat : k <= m /\ k <= n => g[k] = h[k]}
<1>1. 0 \in S
  BY DEF Run
<1>2. ASSUME NEW k \in Nat, k \in S PROVE k + 1 \in S
  <2> SUFFICES ASSUME k + 1 <= m, k + 1 <= n PROVE g[k + 1] = h[k + 1]
    OBVIOUS
  <2>1. k \in 0 .. m - 1 /\ k \in 0 .. n - 1 /\ g[k] = h[k]
    BY <1>2
  <2>2. g[k + 1] = G[k][g[k]] /\ h[k + 1] = G[k][h[k]]
    BY <2>1 DEF Run
  <2>. QED
    BY <2>1, <2>2
<1> HIDE DEF S
<1>3. \A k \in Nat : k \in S
  BY <1>1, <1>2, SetInduction
<1>. QED
  BY <1>3 DEF S

Follows(c, G, f) == f[0] = c /\ \A n \in Nat : f[n + 1] = G[n][f[n]]

LEMMA RecursiveFunction ==
  ASSUME NEW V, NEW c \in V, NEW G \in [Nat -> [V -> V]]
  PROVE  \E f \in [Nat -> V] : Follows(c, G, f)
<1> DEFINE g(n) == CHOOSE x : x \in Run(V, c, G, n)
           f    == [n \in Nat |-> g(n)[n]]
<1>1. \A n \in Nat : g(n) \in Run(V, c, G, n)
  BY RunsExist
<1> HIDE DEF g
<1>2. \A n \in Nat : g(n) \in [0 .. n -> V] /\ n \in 0 .. n
  BY <1>1 DEF Run
<1>3. f \in [Nat -> V]
  BY <1>2
<1>4. f[0] = c
  BY <1>1 DEF Run
<1>5. ASSUME NEW n \in Nat PROVE f[n + 1] = G[n][f[n]]
  <2>1. g(n + 1)[n] = g(n)[n]
    BY <1>1, RunsAgree
  <2>2. g(n + 1) \in Run(V, c, G, n + 1) /\ n \in 0 .. (n + 1) - 1
    BY <1>1
  <2>3. g(n + 1)[n + 1] = G[n][g(n + 1)[n]]
    BY <2>2 DEF Run
  <2>. QED
    BY <2>1, <2>3
<1>. QED
  BY <1>3, <1>4, <1>5 DEF Follows

-----------------------------------------------------------------------------
(* clog2: some power of two lies between a number and its double.          *)
LEMMA PowerBetween ==
  ASSUME NEW n \in Nat, n >= 2
  PROVE  \E k \in 0 .. n : n <= 2 ^ k /\ 2 ^ k < 2 * n
<1> DEFINE T == {k \in Nat : n <= 2 ^ k}
<1>1. n \in T
  BY PowerExceeds, PowerSucc
<1>2. PICK k \in T : \A j \in T : ~(j < k)
  BY <1>1, LeastElement
<1>3. k # 0 /\ k \in Nat /\ n <= 2 ^ k
  <2>1. k = 0 => 2 ^ k = 1
    BY PowerZero
  <2>. QED
    BY <1>2, <2>1
<1>4. k - 1 \in Nat /\ k - 1 < k /\ (k - 1) + 1 = k
  BY <1>3
<1>5. ~(n <= 2 ^ (k - 1))
  BY <1>2, <1>4
<1>6. 2 ^ ((k - 1) + 1) = 2 * 2 ^ (k - 1) /\ 2 ^ (k - 1) \in Nat
  BY <1>4, PowerSucc
<1>7. 2 ^ k = 2 * 2 ^ (k - 1)
  BY <1>4, <1>6
<1>8. k <= n
  BY <1>1, <1>2
<1>. QED
  BY <1>3, <1>5, <1>6, <1>7, <1>8

-----------------------------------------------------------------------------
(* The loop of PIFO_SRAM.sv that adds up powers of two, cyclically from    *)
(* the one after 2^l, has a closed form.                                   *)
LoopDef(L, l, f) ==
  f = [i \in 0 .. L - 1 |-> IF i = 0 THEN 0 ELSE f[i - 1] + 2 ^ ((i + l) % L)]

LEMMA LoopExists ==
  ASSUME NEW L \in Nat \ {0}, NEW l \in 0 .. L - 1
  PROVE  \E f : LoopDef(L, l, f)
<1> DEFINE e(n) == 2 ^ (((n + 1) + l) % L)
           G == [n \in Nat |-> [v \in Nat |-> v + e(n)]]
<1>1. \A n \in Nat : e(n) \in Nat
  <2>1. \A n \in Nat : ((n + 1) + l) % L \in Nat
    OBVIOUS
  <2>. QED
    BY <2>1, PowerSucc
<1> HIDE DEF e
<1>2. G \in [Nat -> [Nat -> Nat]]
  BY <1>1
<1>3. PICK f \in [Nat -> Nat] : /\ f[0] = 0
                               /\ \A n \in Nat : f[n + 1] = f[n] + e(n)
  <2> HIDE DEF G
  <2>1. PICK f \in [Nat -> Nat] : Follows(0, G, f)
    BY <1>2, 0 \in Nat, RecursiveFunction
  <2>2. f[0] = 0 /\ \A n \in Nat : f[n + 1] = G[n][f[n]]
    BY <2>1 DEF Follows
  <2>3. \A n \in Nat : f[n + 1] = f[n] + e(n)
    BY <2>2 DEF G
  <2>. QED
    BY <2>2, <2>3
<1> DEFINE g == [i \in 0 .. L - 1 |-> f[i]]
<1>4. ASSUME NEW i \in 0 .. L - 1
      PROVE  g[i] = IF i = 0 THEN 0 ELSE g[i - 1] + 2 ^ ((i + l) % L)
  <2>1. CASE i = 0
    BY <1>3, <2>1
  <2>2. CASE i # 0
    <3>1. i - 1 \in Nat /\ i - 1 \in 0 .. L - 1 /\ (i - 1) + 1 = i
      BY <2>2
    <3>2. f[(i - 1) + 1] = f[i - 1] + 2 ^ ((((i - 1) + 1) + l) % L)
      BY <1>3, <3>1 DEF e
    <3>. QED
      BY <2>2, <3>1, <3>2
  <2>. QED
    BY <2>1, <2>2
<1>5. LoopDef(L, l, g)
  BY <1>4 DEF LoopDef
<1>. QED
  BY <1>5

LEMMA LoopValue ==
  ASSUME NEW L \in Nat \ {0}, NEW l \in 0 .. L - 1, NEW f, LoopDef(L, l, f)
  PROVE  \A k \in 0 .. L - 1 :
           /\ f[k] \in Nat
           /\ k + l < L => f[k] + 2 ^ (l + 1) = 2 ^ (k + l + 1)
           /\ k + l >= L => f[k] + 2 ^ (l + 1) = (2 ^ L + 2 ^ (k + l + 1 - L)) - 1
<1> DEFINE Value(k) ==
             /\ f[k] \in Nat
             /\ k + l < L => f[k] + 2 ^ (l + 1) = 2 ^ (k + l + 1)
             /\ k + l >= L => f[k] + 2 ^ (l + 1) = (2 ^ L + 2 ^ (k + l + 1 - L)) - 1
           S == {k \in Nat : k \in 0 .. L - 1 => Value(k)}
<1>1. 0 \in S
  <2>1. f[0] = 0
    BY DEF LoopDef
  <2>2. 2 ^ (l + 1) \in Nat /\ 0 + l + 1 = l + 1
    BY PowerSucc
  <2>. QED
    BY <2>1, <2>2
<1>2. ASSUME NEW k \in Nat, k \in S PROVE k + 1 \in S
  <2> SUFFICES ASSUME k + 1 \in 0 .. L - 1 PROVE Value(k + 1)
    OBVIOUS
  <2>1. k \in 0 .. L - 1 /\ Value(k)
    BY <1>2
  <2>2. f[k + 1] = f[k] + 2 ^ ((k + 1 + l) % L)
    <3>1. k + 1 # 0 /\ (k + 1) - 1 = k
      OBVIOUS
    <3>. QED
      BY <3>1 DEF LoopDef
  <2>3. 2 ^ (l + 1) \in Nat
    BY PowerSucc
  <2> HIDE DEF S
  <2>4. CASE k + 1 + l < L
    <3>1. (k + 1 + l) % L = k + l + 1
      BY <2>4, ModSmall
    <3>2. 2 ^ ((k + l + 1) + 1) = 2 * 2 ^ (k + l + 1) /\ 2 ^ (k + l + 1) \in Nat
      BY PowerSucc
    <3>3. (k + 1) + l + 1 = (k + l + 1) + 1
      OBVIOUS
    <3>. QED
      BY <2>1, <2>2, <2>3, <2>4, <3>1, <3>2, <3>3
  <2>5. CASE k + 1 + l = L
    <3>1. (k + 1 + l) % L = 0
      BY <2>5
    <3>2. 2 ^ 0 = 1 /\ 2 ^ (0 + 1) = 2 * 2 ^ 0
      BY PowerZero, PowerSucc
    <3>3. (k + 1) + l + 1 - L = 0 + 1 /\ k + l + 1 = L
      BY <2>5
    <3>4. f[k] + 2 ^ (l + 1) = 2 ^ L
      BY <2>1, <2>5, <3>3
    <3>5. 2 ^ L \in Nat /\ 2 ^ ((k + 1) + l + 1 - L) = 2
      <4>1. 2 ^ ((k + 1) + l + 1 - L) = 2 ^ (0 + 1)
        BY <3>3
      <4>. QED
        BY <3>2, <4>1, PowerSucc
    <3>6. f[k + 1] = f[k] + 1
      BY <2>2, <3>1, <3>2
    <3>. QED
      BY <2>1, <2>3, <2>5, <3>4, <3>5, <3>6
  <2>6. CASE k + 1 + l > L
    <3>1. (k + 1 + l) % L = k + l + 1 - L
      <4>1. k + 1 + l = L * 1 + (k + l + 1 - L) /\ k + l + 1 - L \in 0 .. L - 1
        BY <2>6, <2>1
      <4>. QED
        BY <4>1, DivModUnique
    <3>2. k + l + 1 - L \in Nat
      BY <2>6
    <3>3. /\ 2 ^ ((k + l + 1 - L) + 1) = 2 * 2 ^ (k + l + 1 - L)
          /\ 2 ^ (k + l + 1 - L) \in Nat /\ 2 ^ L \in Nat
      BY <3>2, PowerSucc
    <3>4. (k + 1) + l + 1 - L = (k + l + 1 - L) + 1
      OBVIOUS
    <3>5. f[k + 1] = f[k] + 2 ^ (k + l + 1 - L)
      BY <2>2, <3>1
    <3>6. 2 ^ ((k + 1) + l + 1 - L) = 2 * 2 ^ (k + l + 1 - L)
      BY <3>3, <3>4
    <3>7. f[k] + 2 ^ (l + 1) = (2 ^ L + 2 ^ (k + l + 1 - L)) - 1
      BY <2>1, <2>6
    <3>. QED
      BY <2>1, <2>3, <2>6, <3>3, <3>5, <3>6, <3>7
  <2>. QED
    BY <2>4, <2>5, <2>6
<1> HIDE DEF S
<1>3. \A k \in Nat : k \in S
  BY <1>1, <1>2, SetInduction
<1>. QED
  BY <1>3 DEF S

\* One turn more of the loop for l is the loop for the level after l and the
\* room of that level; a full loop and the room of its level fill a tree.
LEMMA LoopShift ==
  ASSUME NEW L \in Nat \ {0}, NEW l \in 0 .. L - 1, NEW f, LoopDef(L, l, f),
         NEW g, LoopDef(L, (l + 1) % L, g)
  PROVE  /\ \A k \in 0 .. L - 2 : f[k + 1] = g[k] + 2 ^ ((l + 1) % L)
         /\ g[L - 1] + 2 ^ ((l + 1) % L) = 2 ^ L - 1
         /\ f[0] = 0
<1> DEFINE m == (l + 1) % L
<1>1. /\ m \in 0 .. L - 1
      /\ l < L - 1 => m = l + 1
      /\ l = L - 1 => m = 0
  BY ModSmall
<1> HIDE DEF m
<1>2. /\ 2 ^ (m + 1) = 2 * 2 ^ m /\ 2 ^ m \in Nat /\ 2 ^ (m + 1) \in Nat
      /\ 2 ^ (l + 1) \in Nat /\ 2 ^ L \in Nat /\ 2 ^ 0 = 1
  BY <1>1, PowerSucc, PowerZero
<1>3. ASSUME NEW k \in 0 .. L - 2 PROVE f[k + 1] = g[k] + 2 ^ m
  <2>1. /\ k \in 0 .. L - 1 /\ k + 1 \in 0 .. L - 1
        /\ f[k + 1] \in Nat /\ g[k] \in Nat
    BY <1>1, LoopValue DEF m
  <2>2. CASE l < L - 1 /\ (k + 1) + l < L
    <3>1. /\ f[k + 1] + 2 ^ (l + 1) = 2 ^ ((k + 1) + l + 1)
          /\ g[k] + 2 ^ (m + 1) = 2 ^ (k + m + 1)
      BY <1>1, <2>1, <2>2, LoopValue DEF m
    <3>2. (k + 1) + l + 1 = k + m + 1 /\ m = l + 1
      BY <1>1, <2>2
    <3>3. f[k + 1] + 2 ^ m = g[k] + 2 ^ (m + 1)
      BY <3>1, <3>2
    <3>. QED
      BY <1>2, <2>1, <3>3
  <2>3. CASE l < L - 1 /\ (k + 1) + l >= L
    <3>1. /\ f[k + 1] + 2 ^ (l + 1) = (2 ^ L + 2 ^ ((k + 1) + l + 1 - L)) - 1
          /\ g[k] + 2 ^ (m + 1) = (2 ^ L + 2 ^ (k + m + 1 - L)) - 1
      BY <1>1, <2>1, <2>3, LoopValue DEF m
    <3>2. (k + 1) + l + 1 - L = k + m + 1 - L /\ m = l + 1
      BY <1>1, <2>3
    <3>3. f[k + 1] + 2 ^ m = g[k] + 2 ^ (m + 1)
      BY <3>1, <3>2
    <3>. QED
      BY <1>2, <2>1, <3>3
  <2>4. CASE l = L - 1
    <3>1. /\ f[k + 1] + 2 ^ (l + 1) = (2 ^ L + 2 ^ ((k + 1) + l + 1 - L)) - 1
          /\ g[k] + 2 ^ (m + 1) = 2 ^ (k + m + 1)
      BY <1>1, <2>1, <2>4, LoopValue DEF m
    <3>2. (k + 1) + l + 1 - L = k + 1 /\ k + m + 1 = k + 1 /\ m = 0 /\ l + 1 = L
      BY <1>1, <2>4
    <3>3. 2 ^ (k + 1) \in Nat /\ 2 ^ m = 1
      BY <1>2, <3>2, PowerSucc
    <3>4. /\ f[k + 1] + 2 ^ L = (2 ^ L + 2 ^ (k + 1)) - 1
          /\ g[k] + 2 ^ (m + 1) = 2 ^ (k + 1)
      BY <3>1, <3>2
    <3>. QED
      BY <1>2, <2>1, <3>3, <3>4
  <2>. QED
    BY <2>2, <2>3, <2>4
<1>4. g[L - 1] + 2 ^ m = 2 ^ L - 1
  <2>1. L - 1 \in 0 .. L - 1 /\ g[L - 1] \in Nat
    BY <1>1, LoopValue DEF m
  <2>2. CASE m = 0
    <3>1. g[L - 1] + 2 ^ (m + 1) = 2 ^ ((L - 1) + m + 1)
      BY <1>1, <2>1, <2>2, LoopValue DEF m
    <3>2. (L - 1) + m + 1 = L
      BY <2>2
    <3>3. g[L - 1] + 2 ^ (m + 1) = 2 ^ L /\ 2 ^ m = 1
      BY <1>2, <2>2, <3>1, <3>2
    <3>. QED
      BY <1>2, <2>1, <3>3
  <2>3. CASE m # 0
    <3>1. g[L - 1] + 2 ^ (m + 1) = (2 ^ L + 2 ^ ((L - 1) + m + 1 - L)) - 1
      BY <1>1, <2>1, <2>3, LoopValue DEF m
    <3>2. (L - 1) + m + 1 - L = m
      BY <1>1
    <3>3. g[L - 1] + 2 ^ (m + 1) = (2 ^ L + 2 ^ m) - 1
      BY <3>1, <3>2
    <3>. QED
      BY <1>2, <2>1, <3>3
  <2>. QED
    BY <2>2, <2>3
<1>5. f[0] = 0
  BY DEF LoopDef
<1>. QED
  BY <1>3, <1>4, <1>5 DEF m

\* The loop leaves room for its own level in a tree's share of the memory.
LEMMA LoopBound ==
  ASSUME NEW L \in Nat \ {0}, NEW l \in 0 .. L - 1, NEW f, LoopDef(L, l, f),
         NEW k \in 0 .. L - 1
  PROVE  f[k] \in Nat /\ f[k] + 2 ^ l <= 2 ^ L - 1
<1>1. 2 ^ (l + 1) = 2 * 2 ^ l /\ 2 ^ l \in Nat \ {0} /\ 2 ^ L \in Nat /\ f[k] \in Nat
  BY PowerSucc, LoopValue
<1>2. CASE k + l < L
  <2>1. f[k] + 2 ^ (l + 1) = 2 ^ (k + l + 1)
    BY <1>2, LoopValue
  <2>2. 2 ^ (k + l + 1) <= 2 ^ L /\ 2 ^ (k + l + 1) \in Nat
    <3>1. k + l + 1 \in Nat /\ k + l + 1 <= L
      BY <1>2
    <3>. QED
      BY <3>1, PowerMonotone, PowerSucc
  <2>. QED
    BY <1>1, <2>1, <2>2
<1>3. CASE k + l >= L
  <2>1. f[k] + 2 ^ (l + 1) = (2 ^ L + 2 ^ (k + l + 1 - L)) - 1
    BY <1>3, LoopValue
  <2>2. 2 ^ (k + l + 1 - L) <= 2 ^ l /\ 2 ^ (k + l + 1 - L) \in Nat
    <3>1. k + l + 1 - L \in Nat /\ k + l + 1 - L <= l
      BY <1>3
    <3>. QED
      BY <3>1, PowerMonotone, PowerSucc
  <2>. QED
    BY <1>1, <2>1, <2>2
<1>. QED
  BY <1>2, <1>3

-----------------------------------------------------------------------------
(* Sums over finite sets.                                                  *)

\* What holds of the empty set, and of a set when it holds of the sets with one
\* element less, holds of all subsets of a finite set.
LEMMA SubsetInduction ==
  ASSUME NEW Q, IsFiniteSet(Q), NEW T, {} \in T,
         \A S \in SUBSET Q : S # {} /\ (\A x \in S : S \ {x} \in T) => S \in T
  PROVE  \A S \in SUBSET Q : S \in T
<1> DEFINE N == {n \in Nat : \A S \in SUBSET Q : Cardinality(S) = n => S \in T}
<1>1. \A S \in SUBSET Q : IsFiniteSet(S) /\ Cardinality(S) \in Nat
  BY FS_Subset, FS_CardinalityType
<1>2. 0 \in N
  BY <1>1, FS_EmptySet
<1>3. ASSUME NEW n \in Nat, n \in N PROVE n + 1 \in N
  <2> SUFFICES ASSUME NEW S \in SUBSET Q, Cardinality(S) = n + 1 PROVE S \in T
    BY <1>3
  <2>1. S # {}
    <3>1. n + 1 # 0
      OBVIOUS
    <3> QED
      BY <3>1, FS_EmptySet
  <2>2. ASSUME NEW x \in S PROVE S \ {x} \in T
    <3>1. Cardinality(S \ {x}) = n
      BY <1>1, FS_RemoveElement
    <3> QED
      BY <1>3, <3>1
  <2> QED
    BY <2>1, <2>2
<1> HIDE DEF N
<1>4. \A n \in Nat : n \in N
  BY <1>2, <1>3, SetInduction
<1> QED
  BY <1>1, <1>4 DEF N

Pick(S) == CHOOSE x \in S : TRUE

LEMMA PickIn == \A S : S # {} => Pick(S) \in S
  BY DEF Pick

\* The sum of w over a set, element by element in the order of CHOOSE.
SumDef(Q, w, f) ==
  f = [S \in SUBSET Q |-> IF S = {} THEN 0 ELSE w[Pick(S)] + f[S \ {Pick(S)}]]

LEMMA SumExists ==
  ASSUME NEW Q, IsFiniteSet(Q), NEW w, \A x \in Q : w[x] \in Int
  PROVE  \E f : SumDef(Q, w, f)
<1> DEFINE V == [SUBSET Q -> Int]
           c == [S \in SUBSET Q |-> 0]
           F(v) == [S \in SUBSET Q |-> IF S = {} THEN 0 ELSE w[Pick(S)] + v[S \ {Pick(S)}]]
           G == [n \in Nat |-> [v \in V |-> F(v)]]
<1>1. c \in V
  OBVIOUS
<1>2. ASSUME NEW v \in V PROVE F(v) \in V
  <2>1. ASSUME NEW S \in SUBSET Q, S # {} PROVE w[Pick(S)] + v[S \ {Pick(S)}] \in Int
    <3>1. Pick(S) \in Q /\ S \ {Pick(S)} \in SUBSET Q
      BY <2>1, PickIn
    <3> QED
      BY <3>1
  <2> QED
    BY <2>1
<1> HIDE DEF F, V
<1>3. G \in [Nat -> [V -> V]]
  BY <1>2
<1> HIDE DEF c, G
<1>4. PICK h \in [Nat -> V] : Follows(c, G, h)
  BY <1>1, <1>3, RecursiveFunction
<1>5. h[0] = c /\ \A n \in Nat : h[n + 1] = F(h[n])
  BY <1>4 DEF Follows, G
<1> DEFINE f == [S \in SUBSET Q |-> h[Cardinality(S)][S]]
<1>6. ASSUME NEW S \in SUBSET Q
      PROVE  f[S] = IF S = {} THEN 0 ELSE w[Pick(S)] + f[S \ {Pick(S)}]
  <2>1. CASE S = {}
    <3>1. h[0][S] = 0
      BY <1>5 DEF c
    <3> QED
      BY <2>1, <3>1, FS_EmptySet
  <2>2. CASE S # {}
    <3> DEFINE R == S \ {Pick(S)}
    <3>1. Pick(S) \in S /\ IsFiniteSet(S)
      BY <2>2, PickIn, FS_Subset
    <3>2. Cardinality(S) \in Nat /\ Cardinality(R) \in Nat /\ Cardinality(S) = Cardinality(R) + 1
      <4>1. IsFiniteSet(R) /\ Cardinality(R) = Cardinality(S) - 1
        BY <3>1, FS_RemoveElement
      <4>2. Cardinality(R) \in Nat /\ Cardinality(S) \in Nat
        BY <3>1, <4>1, FS_CardinalityType
      <4> QED
        BY <4>1, <4>2
    <3>3. h[Cardinality(S)] = F(h[Cardinality(R)])
      BY <1>5, <3>2
    <3>4. F(h[Cardinality(R)])[S] = w[Pick(S)] + h[Cardinality(R)][R]
      BY <2>2 DEF F
    <3>5. f[R] = h[Cardinality(R)][R] /\ f[S] = h[Cardinality(S)][S]
      OBVIOUS
    <3> QED
      BY <2>2, <3>3, <3>4, <3>5
  <2> QED
    BY <2>1, <2>2
<1>7. f = [S \in SUBSET Q |-> f[S]]
  OBVIOUS
<1> HIDE DEF f
<1>8. SumDef(Q, w, f)
  BY <1>6, <1>7 DEF SumDef
<1> QED
  BY <1>8

\* What a sum is for a set with something in it.
LEMMA SumUnfold ==
  ASSUME NEW Q, NEW w, NEW f, SumDef(Q, w, f)
  PROVE  /\ f[{}] = 0
         /\ \A S \in SUBSET Q : S # {} => f[S] = w[Pick(S)] + f[S \ {Pick(S)}]
<1>1. \A S \in SUBSET Q : f[S] = IF S = {} THEN 0 ELSE w[Pick(S)] + f[S \ {Pick(S)}]
  BY DEF SumDef
<1> QED
  BY <1>1

\* A sum of natural numbers is one.
LEMMA SumNat ==
  ASSUME NEW Q, IsFiniteSet(Q), NEW w, \A x \in Q : w[x] \in Nat, NEW f, SumDef(Q, w, f)
  PROVE  \A S \in SUBSET Q : f[S] \in Nat
<1> DEFINE T == {S \in SUBSET Q : f[S] \in Nat}
<1>1. {} \in T
  BY SumUnfold
<1>2. ASSUME NEW S \in SUBSET Q, S # {}, \A x \in S : S \ {x} \in T PROVE S \in T
  <2>1. Pick(S) \in S
    BY <1>2, PickIn
  <2>2. f[S \ {Pick(S)}] \in Nat /\ w[Pick(S)] \in Nat
    BY <1>2, <2>1
  <2>3. f[S] = w[Pick(S)] + f[S \ {Pick(S)}]
    <3>1. S # {}
      BY <1>2
    <3>2. \A U \in SUBSET Q : U # {} => f[U] = w[Pick(U)] + f[U \ {Pick(U)}]
      BY SumUnfold
    <3> QED
      BY <3>1, <3>2
  <2>4. \A a, b \in Nat : a + b \in Nat
    OBVIOUS
  <2>5. f[S] \in Nat
    BY <2>2, <2>3, <2>4
  <2> QED
    BY <2>5
<1> HIDE DEF T
<1>3. \A S \in SUBSET Q : S \in T
  BY <1>1, <1>2, SubsetInduction
<1> QED
  BY <1>3 DEF T

\* The order in which the elements are taken does not matter.
LEMMA SumRemove ==
  ASSUME NEW Q, IsFiniteSet(Q), NEW w, \A x \in Q : w[x] \in Nat, NEW f, SumDef(Q, w, f)
  PROVE  \A S \in SUBSET Q : \A x \in S : f[S] = w[x] + f[S \ {x}]
<1> DEFINE T == {S \in SUBSET Q : \A x \in S : f[S] = w[x] + f[S \ {x}]}
<1>1. {} \in T
  OBVIOUS
<1>2. ASSUME NEW S \in SUBSET Q, S # {}, \A x \in S : S \ {x} \in T PROVE S \in T
  <2> DEFINE c == Pick(S)
  <2>1. c \in S
    BY <1>2, PickIn
  <2>2. f[S] = w[c] + f[S \ {c}]
    BY <1>2, SumUnfold
  <2> HIDE DEF c
  <2> SUFFICES ASSUME NEW x \in S, x # c PROVE f[S] = w[x] + f[S \ {x}]
    BY <2>2
  <2>3. f[S \ {c}] = w[x] + f[(S \ {c}) \ {x}]
    BY <1>2, <2>1
  <2>4. f[S \ {x}] = w[c] + f[(S \ {x}) \ {c}]
    BY <1>2, <2>1
  <2>5. (S \ {c}) \ {x} = (S \ {x}) \ {c}
    OBVIOUS
  <2>6. f[(S \ {x}) \ {c}] \in Nat /\ w[x] \in Nat /\ w[c] \in Nat
    <3>1. (S \ {x}) \ {c} \in SUBSET Q
      OBVIOUS
    <3> QED
      BY <2>1, <3>1, SumNat
  <2>7. \A a, b, r \in Nat : a + (b + r) = b + (a + r)
    OBVIOUS
  <2>8. f[S] = w[c] + (w[x] + f[(S \ {x}) \ {c}])
    BY <2>2, <2>3, <2>5
  <2> QED
    BY <2>4, <2>6, <2>7, <2>8
<1> HIDE DEF T
<1>3. \A S \in SUBSET Q : S \in T
  BY <1>1, <1>2, SubsetInduction
<1> QED
  BY <1>3 DEF T

\* Sums of the same weights agree, whatever else there is to sum.
LEMMA SumAgree ==
  ASSUME NEW Q, IsFiniteSet(Q), NEW w, NEW f, SumDef(Q, w, f),
         NEW R, NEW v, NEW g, SumDef(R, v, g),
         Q \subseteq R, \A x \in Q : w[x] = v[x]
  PROVE  \A S \in SUBSET Q : f[S] = g[S]
<1> DEFINE T == {S \in SUBSET Q : f[S] = g[S]}
<1>1. {} \in T
  BY SumUnfold
<1>2. ASSUME NEW S \in SUBSET Q, S # {}, \A x \in S : S \ {x} \in T PROVE S \in T
  <2> DEFINE c == Pick(S)
  <2>1. c \in S
    BY <1>2, PickIn
  <2>2. f[S] = w[c] + f[S \ {c}] /\ g[S] = v[c] + g[S \ {c}]
    BY <1>2, SumUnfold
  <2> HIDE DEF c
  <2>3. f[S \ {c}] = g[S \ {c}] /\ w[c] = v[c]
    BY <1>2, <2>1
  <2> QED
    BY <2>2, <2>3
<1> HIDE DEF T
<1>3. \A S \in SUBSET Q : S \in T
  BY <1>1, <1>2, SubsetInduction
<1> QED
  BY <1>3 DEF T

\* One element more adds its weight.
LEMMA SumAdd ==
  ASSUME NEW Q, NEW w, NEW f, SumDef(Q, w, f),
         NEW R, IsFiniteSet(R), NEW v, \A y \in R : v[y] \in Nat, NEW g, SumDef(R, v, g),
         NEW x, x \notin Q, R = Q \cup {x}, \A y \in Q : w[y] = v[y]
  PROVE  g[R] = v[x] + f[Q]
<1>1. Q \subseteq R /\ IsFiniteSet(Q) /\ R \ {x} = Q /\ x \in R /\ R \in SUBSET R /\ Q \in SUBSET Q
  BY FS_Subset
<1>2. g[R] = v[x] + g[R \ {x}]
  BY <1>1, SumRemove
<1>3. f[Q] = g[Q]
  BY <1>1, SumAgree
<1> QED
  BY <1>1, <1>2, <1>3

\* Smaller weights have a smaller sum.
LEMMA SumBelow ==
  ASSUME NEW Q, IsFiniteSet(Q), NEW u, NEW w, NEW f, NEW g, SumDef(Q, u, f), SumDef(Q, w, g),
         \A x \in Q : u[x] \in Nat /\ w[x] \in Nat /\ u[x] <= w[x]
  PROVE  /\ f[Q] \in Nat /\ g[Q] \in Nat /\ f[Q] <= g[Q]
         /\ (\E x \in Q : u[x] < w[x]) => f[Q] < g[Q]
<1> DEFINE T == {S \in SUBSET Q : f[S] <= g[S]}
<1>0. \A S \in SUBSET Q : f[S] \in Nat /\ g[S] \in Nat
  <2>1. \A S \in SUBSET Q : f[S] \in Nat
    BY SumNat
  <2>2. \A S \in SUBSET Q : g[S] \in Nat
    BY SumNat
  <2> QED
    BY <2>1, <2>2
<1>1. {} \in T
  <2>1. f[{}] = 0 /\ g[{}] = 0
    BY SumUnfold
  <2> QED
    BY <2>1
<1>r. \A S \in SUBSET Q : \A x \in S : f[S] = u[x] + f[S \ {x}] /\ g[S] = w[x] + g[S \ {x}]
  <2> SUFFICES ASSUME NEW S \in SUBSET Q, NEW x \in S
               PROVE  f[S] = u[x] + f[S \ {x}] /\ g[S] = w[x] + g[S \ {x}]
    OBVIOUS
  <2>1. (\A y \in Q : u[y] \in Nat) /\ (\A y \in Q : w[y] \in Nat)
    OBVIOUS
  <2>2. f[S] = u[x] + f[S \ {x}]
    BY <2>1, SumRemove
  <2>3. g[S] = w[x] + g[S \ {x}]
    BY <2>1, SumRemove
  <2> QED
    BY <2>2, <2>3
<1>2. ASSUME NEW S \in SUBSET Q, S # {}, \A x \in S : S \ {x} \in T PROVE S \in T
  <2>1. PICK x \in S : TRUE
    BY <1>2
  <2>2. S \ {x} \in SUBSET Q /\ f[S \ {x}] <= g[S \ {x}]
    BY <1>2
  <2>3. f[S \ {x}] \in Nat /\ g[S \ {x}] \in Nat /\ u[x] \in Nat /\ w[x] \in Nat /\ u[x] <= w[x]
    BY <1>0, <2>2
  <2>4. f[S] = u[x] + f[S \ {x}] /\ g[S] = w[x] + g[S \ {x}]
    BY <1>r
  <2>5. f[S] <= g[S]
    BY <2>2, <2>3, <2>4
  <2> QED
    BY <2>5
<1> HIDE DEF T
<1>3. \A S \in SUBSET Q : S \in T
  BY <1>1, <1>2, SubsetInduction
<1>4. ASSUME NEW x \in Q, u[x] < w[x] PROVE f[Q] < g[Q]
  <2>1. Q \ {x} \in SUBSET Q /\ Q \in SUBSET Q
    OBVIOUS
  <2>2. f[Q \ {x}] <= g[Q \ {x}] /\ f[Q \ {x}] \in Nat /\ g[Q \ {x}] \in Nat
    BY <1>0, <1>3, <2>1 DEF T
  <2>3. f[Q] = u[x] + f[Q \ {x}] /\ g[Q] = w[x] + g[Q \ {x}]
    BY <1>r, <2>1
  <2>4. u[x] \in Nat /\ w[x] \in Nat
    OBVIOUS
  <2> QED
    BY <1>4, <2>2, <2>3, <2>4
<1> QED
  BY <1>0, <1>3, <1>4 DEF T
=============================================================================
