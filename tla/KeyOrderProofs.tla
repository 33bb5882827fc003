--------------------------- MODULE KeyOrderProofs ---------------------------
(***************************************************************************)
(* The order of the token keys, for every base, every width and every       *)
(* number of tokens: it is a strict total order, and the order of the       *)
(* numbers as long as these keep to their width.                            *)
(***************************************************************************)
EXTENDS TokenQueries, WellFoundedInduction, TLAPS

-----------------------------------------------------------------------------
(* Powers.  The function exists: it is put together from its beginnings,    *)
(* each of which is unique.                                                 *)

\* A set of natural numbers that is not empty has a least element.
LEMMA LeastNumber ==
    ASSUME NEW S \in SUBSET Nat, S # {}
    PROVE  \E i \in S : \A j \in S : i <= j
<1> DEFINE R == OpToRel(<, Nat)
<1>1. \E x \in S : \A y \in S : <<y, x>> \notin R
  <2> HIDE DEF R
  <2>1. IsWellFoundedOn(R, Nat)
    BY NatLessThanWellFounded DEF R
  <2>2. QED
    BY <2>1, WFMin, Zenon
<1>2. \A x \in Nat, y \in Nat : <<y, x>> \notin R => x <= y
  BY DEF OpToRel
<1> HIDE DEF R
<1>3. QED
  BY <1>1, <1>2

\* f is the beginning of Power up to n.
Beginning(f, n) ==
    /\ f \in [0 .. n -> Nat]
    /\ f[0] = 1
    /\ \A k \in 1 .. n : f[k] = Base * f[k - 1]

LEMMA BeginningExists == \A n \in Nat : \E f : Beginning(f, n)
<1> DEFINE S == {n \in Nat : ~ \E f : Beginning(f, n)}
<1>1. SUFFICES ASSUME S # {} PROVE FALSE
  OBVIOUS
<1>2. PICK n \in S : \A j \in S : n <= j
  <2>1. S \in SUBSET Nat
    OBVIOUS
  <2>2. QED
    BY <1>1, <2>1, LeastNumber
<1>3. CASE n = 0
  <2>1. Beginning([k \in 0 .. 0 |-> 1], 0)
    BY DEF Beginning
  <2>2. QED
    BY <1>3, <2>1
<1>4. CASE n # 0
  <2>1. n \in Nat /\ n - 1 \in Nat /\ n - 1 \notin S
    BY <1>2, <1>4
  <2>2. PICK f : Beginning(f, n - 1)
    BY <2>1
  <2> DEFINE g == [k \in 0 .. n |-> IF k = n THEN Base * f[n - 1] ELSE f[k]]
  <2>3. f \in [0 .. n - 1 -> Nat] /\ f[0] = 1 /\ \A k \in 1 .. n - 1 : f[k] = Base * f[k - 1]
    BY <2>2 DEF Beginning
  <2>4. Base \in Nat /\ f[n - 1] \in Nat
    BY <2>1, <2>3, QueriesAssumption
  <2>5. Base * f[n - 1] \in Nat
    BY <2>4
  <2>6. \A k \in 0 .. n : g[k] \in Nat
    BY <2>1, <2>3, <2>5
  <2>7. g[0] = 1
    BY <1>4, <2>1, <2>3
  <2>8. \A k \in 1 .. n : g[k] = Base * g[k - 1]
    <3>1. ASSUME NEW k \in 1 .. n PROVE g[k] = Base * g[k - 1]
      <4>1. k \in 0 .. n /\ k - 1 \in 0 .. n /\ k - 1 # n
        BY <2>1
      <4>2. g[k - 1] = f[k - 1]
        BY <4>1
      <4>3. CASE k = n
        BY <4>1, <4>2, <4>3
      <4>4. CASE k # n
        <5>1. k \in 1 .. n - 1
          BY <2>1, <4>4
        <5>2. QED
          BY <2>3, <4>1, <4>2, <4>4, <5>1
      <4>5. QED
        BY <4>3, <4>4
    <3>2. QED
      BY <3>1
  <2>9. Beginning(g, n)
    BY <2>6, <2>7, <2>8 DEF Beginning
  <2>10. QED
    BY <2>9
<1>5. QED
  BY <1>3, <1>4

LEMMA BeginningUnique ==
    ASSUME NEW m \in Nat, NEW n \in Nat, NEW f, NEW g, Beginning(f, m), Beginning(g, n),
           m <= n
    PROVE  \A k \in 0 .. m : f[k] = g[k]
<1> DEFINE S == {k \in 0 .. m : f[k] # g[k]}
<1>1. SUFFICES ASSUME S # {} PROVE FALSE
  OBVIOUS
<1>2. PICK k \in S : \A j \in S : k <= j
  <2>1. S \in SUBSET Nat
    OBVIOUS
  <2>2. QED
    BY <1>1, <2>1, LeastNumber
<1>3. k # 0
  BY <1>2 DEF Beginning
<1>4. k \in 1 .. m /\ k \in 1 .. n /\ k - 1 \in 0 .. m /\ k - 1 \notin S
  BY <1>2, <1>3
<1>5. f[k - 1] = g[k - 1]
  BY <1>4
<1>6. f[k] = Base * f[k - 1] /\ g[k] = Base * g[k - 1]
  BY <1>4 DEF Beginning
<1>7. QED
  BY <1>2, <1>5, <1>6

\* What the recursive definition says.
LEMMA PowerDef ==
    Power = [n \in Nat |-> IF n = 0 THEN 1 ELSE Base * Power[n - 1]]
<1> DEFINE F(n) == CHOOSE f : Beginning(f, n)
           g == [n \in Nat |-> F(n)[n]]
<1>1. \A n \in Nat : Beginning(F(n), n)
  BY BeginningExists
<1>2. g = [n \in Nat |-> IF n = 0 THEN 1 ELSE Base * g[n - 1]]
  <2> HIDE DEF F
  <2>1. ASSUME NEW n \in Nat
        PROVE  F(n)[n] = IF n = 0 THEN 1 ELSE Base * g[n - 1]
    <3>1. Beginning(F(n), n)
      BY <1>1
    <3>2. CASE n = 0
      BY <3>1, <3>2 DEF Beginning
    <3>3. CASE n # 0
      <4>1. n - 1 \in Nat /\ n \in 1 .. n /\ n - 1 \in 0 .. n - 1
        BY <3>3
      <4>2. Beginning(F(n - 1), n - 1)
        BY <1>1, <4>1
      <4>3. F(n - 1)[n - 1] = F(n)[n - 1]
        BY <3>1, <4>1, <4>2, BeginningUnique
      <4>4. F(n)[n] = Base * F(n)[n - 1]
        BY <3>1, <4>1 DEF Beginning
      <4>5. g[n - 1] = F(n - 1)[n - 1]
        BY <4>1
      <4>6. QED
        BY <3>3, <4>3, <4>4, <4>5
    <3>4. QED
      BY <3>2, <3>3
  <2>2. QED
    BY <2>1
<1> HIDE DEF g
<1>3. \E h : h = [n \in Nat |-> IF n = 0 THEN 1 ELSE Base * h[n - 1]]
  BY <1>2
<1>4. QED
  BY <1>3, Zenon DEF Power

LEMMA PowerStep ==
    /\ Power[0] = 1
    /\ \A n \in Nat : Power[n + 1] = Base * Power[n]
<1>1. Power[0] = 1
  BY PowerDef
<1>2. ASSUME NEW n \in Nat PROVE Power[n + 1] = Base * Power[n]
  <2>1. n + 1 \in Nat /\ n + 1 # 0 /\ (n + 1) - 1 = n
    OBVIOUS
  <2>2. Power[n + 1] = IF n + 1 = 0 THEN 1 ELSE Base * Power[(n + 1) - 1]
    BY <2>1, PowerDef
  <2>3. QED
    BY <2>1, <2>2
<1>3. QED
  BY <1>1, <1>2

\* A power is greater than its exponent.
LEMMA PowerGreater == \A n \in Nat : Power[n] \in Nat /\ n < Power[n]
<1> DEFINE Good(n) == Power[n] \in Nat /\ n < Power[n]
           S == {n \in Nat : ~Good(n)}
<1>1. SUFFICES ASSUME S # {} PROVE FALSE
  OBVIOUS
<1>2. PICK n \in S : \A j \in S : n <= j
  <2>1. S \in SUBSET Nat
    OBVIOUS
  <2> HIDE DEF S
  <2>2. QED
    BY <1>1, <2>1, LeastNumber
<1>3. n # 0
  BY <1>2, PowerStep
<1>4. n \in Nat /\ n - 1 \in Nat /\ Good(n - 1) /\ ~Good(n)
  BY <1>2, <1>3
<1>5. Power[n] = Base * Power[n - 1]
  <2>1. Power[(n - 1) + 1] = Base * Power[n - 1] /\ (n - 1) + 1 = n
    BY <1>4, PowerStep
  <2>2. QED
    BY <2>1
<1>6. \A x \in Nat : Base * x \in Nat /\ 2 * x <= Base * x
  BY QueriesAssumption, SMTT(30)
<1>7. Power[n] \in Nat /\ 2 * Power[n - 1] <= Power[n] /\ Power[n - 1] \in Nat /\ n <= Power[n - 1]
  BY <1>4, <1>5, <1>6
<1>8. QED
  BY <1>3, <1>4, <1>7

LEMMA PowerPositive == \A n \in Nat : Power[n] \in Nat \ {0}
BY PowerGreater

\* The powers grow with their exponents.
LEMMA PowerGrows ==
    ASSUME NEW m \in Nat, NEW n \in Nat, m <= n
    PROVE  Power[m] <= Power[n]
<1> DEFINE S == {k \in Nat : m <= k /\ ~(Power[m] <= Power[k])}
<1>1. SUFFICES ASSUME S # {} PROVE FALSE
  OBVIOUS
<1>2. PICK k \in S : \A j \in S : k <= j
  <2>1. S \in SUBSET Nat
    OBVIOUS
  <2> HIDE DEF S
  <2>2. QED
    BY <1>1, <2>1, LeastNumber
<1>3. k # m
  BY <1>2, PowerPositive
<1>4. k - 1 \in Nat /\ m <= k - 1 /\ Power[m] <= Power[k - 1] /\ (k - 1) + 1 = k
  BY <1>2, <1>3
<1>5. Power[k] = Base * Power[k - 1]
  BY <1>4, PowerStep
<1>6. \A x \in Nat : Base * x \in Nat /\ x <= Base * x
  BY QueriesAssumption, SMTT(30)
<1>7. Power[m] \in Nat /\ Power[k] \in Nat /\ Power[k - 1] \in Nat
  BY <1>2, <1>4, PowerPositive
<1>8. QED
  BY <1>2, <1>4, <1>5, <1>6, <1>7

-----------------------------------------------------------------------------
(* Digits.                                                                  *)

\* Every ID has a number of digits.
LEMMA DigitsExist ==
    ASSUME NEW i \in TokenId
    PROVE  /\ Digits(i) \in Nat /\ Width <= Digits(i)
           /\ i < Power[Digits(i)]
           /\ Digits(i) = Width \/ Power[Digits(i) - 1] <= i
<1> DEFINE S == {n \in Nat : Width <= n /\ i < Power[n]}
<1>1. Width \in Nat \ {0} /\ MaxSequence \in Nat /\ i \in Nat /\ i <= MaxSequence
  BY QueriesAssumption, TokenAssumption DEF TokenId
<1>2. Width + MaxSequence \in S
  <2>1. Width + MaxSequence \in Nat
    BY <1>1
  <2>2. Width + MaxSequence < Power[Width + MaxSequence] /\ Power[Width + MaxSequence] \in Nat
    BY <2>1, PowerGreater
  <2>3. QED
    BY <1>1, <2>1, <2>2
<1>3. PICK n \in S : \A j \in S : n <= j
  <2>1. S \in SUBSET Nat /\ S # {}
    BY <1>2
  <2> HIDE DEF S
  <2>2. QED
    BY <2>1, LeastNumber
<1>4. n \in Width .. Width + MaxSequence /\ i < Power[n]
  BY <1>1, <1>2, <1>3
<1>5. n = Width \/ Power[n - 1] <= i
  <2>1. SUFFICES ASSUME n # Width PROVE Power[n - 1] <= i
    OBVIOUS
  <2>2. n - 1 \in Nat /\ Width <= n - 1 /\ n - 1 \notin S
    BY <1>1, <1>3, <1>4, <2>1
  <2>3. QED
    BY <1>1, <2>2, PowerPositive
<1>6. \E m \in Width .. Width + MaxSequence : i < Power[m] /\ (m = Width \/ Power[m - 1] <= i)
  BY <1>4, <1>5
<1>7. /\ Digits(i) \in Width .. Width + MaxSequence
      /\ i < Power[Digits(i)] /\ (Digits(i) = Width \/ Power[Digits(i) - 1] <= i)
  BY <1>6 DEF Digits
<1>8. QED
  BY <1>1, <1>7

\* An ID that fits the width is padded to it.
LEMMA Padded ==
    ASSUME NEW i \in TokenId, i < Power[Width]
    PROVE  Digits(i) = Width
<1>1. SUFFICES ASSUME Digits(i) # Width PROVE FALSE
  OBVIOUS
<1>2. Digits(i) \in Nat /\ Width <= Digits(i) /\ Power[Digits(i) - 1] <= i
  BY <1>1, DigitsExist
<1>3. Width \in Nat /\ i \in Nat
  BY QueriesAssumption DEF TokenId
<1>4. Digits(i) - 1 \in Nat /\ Width <= Digits(i) - 1
  BY <1>1, <1>2, <1>3
<1>5. Power[Width] <= Power[Digits(i) - 1] /\ Power[Width] \in Nat /\ Power[Digits(i) - 1] \in Nat
  BY <1>3, <1>4, PowerGrows, PowerPositive
<1>6. QED
  BY <1>2, <1>3, <1>5

-----------------------------------------------------------------------------
(* The order.                                                               *)

\* Comparing fractions.
LEMMA Cross ==
    ASSUME NEW i \in Nat, NEW j \in Nat, NEW k \in Nat,
           NEW p \in Nat \ {0}, NEW q \in Nat \ {0}, NEW r \in Nat \ {0},
           i * q <= j * p, j * r <= k * q
    PROVE  /\ i * r <= k * p
           /\ i * q < j * p \/ j * r < k * q => i * r < k * p
<1>1. /\ (i * q) * r <= (j * p) * r
      /\ i * q < j * p => (i * q) * r < (j * p) * r
  BY SMTT(30)
<1>2. /\ (j * r) * p <= (k * q) * p
      /\ j * r < k * q => (j * r) * p < (k * q) * p
  BY SMTT(30)
<1>3. /\ (i * q) * r = (i * r) * q /\ (j * p) * r = (j * r) * p /\ (k * q) * p = (k * p) * q
      /\ (i * q) * r \in Nat /\ (j * p) * r \in Nat /\ (k * q) * p \in Nat
  BY SMTT(30)
<1>4. /\ (i * r) * q <= (k * p) * q
      /\ i * q < j * p \/ j * r < k * q => (i * r) * q < (k * p) * q
  BY <1>1, <1>2, <1>3
<1>5. \A x \in Nat, y \in Nat : /\ x * q <= y * q => x <= y
                                /\ x * q < y * q => x < y
  BY SMTT(30)
<1>6. i * r \in Nat /\ k * p \in Nat
  OBVIOUS
<1>7. QED
  BY <1>4, <1>5, <1>6

LEMMA BeforeIrreflexive == \A i \in TokenId : ~Before(i, i)
<1>1. SUFFICES ASSUME NEW i \in TokenId, Before(i, i) PROVE FALSE
  OBVIOUS
<1>2. Digits(i) \in Nat /\ i \in Nat /\ Power[Digits(i)] \in Nat
  BY DigitsExist, PowerPositive DEF TokenId
<1>3. i * Power[Digits(i)] \in Nat
  BY <1>2
<1>4. QED
  BY <1>1, <1>2, <1>3 DEF Before

LEMMA BeforeTransitive ==
    ASSUME NEW i \in TokenId, NEW j \in TokenId, NEW k \in TokenId, Before(i, j), Before(j, k)
    PROVE  Before(i, k)
<1> DEFINE di == Digits(i)
           dj == Digits(j)
           dk == Digits(k)
           p == Power[di]
           q == Power[dj]
           r == Power[dk]
<1>1. /\ i \in Nat /\ j \in Nat /\ k \in Nat /\ di \in Nat /\ dj \in Nat /\ dk \in Nat
      /\ p \in Nat \ {0} /\ q \in Nat \ {0} /\ r \in Nat \ {0}
  BY DigitsExist, PowerPositive DEF TokenId
<1>2. i * q < j * p \/ (i * q = j * p /\ di < dj)
  BY DEF Before
<1>3. j * r < k * q \/ (j * r = k * q /\ dj < dk)
  BY DEF Before
<1>4. Before(i, k) <=> (i * r < k * p \/ (i * r = k * p /\ di < dk))
  BY DEF Before
<1> HIDE DEF di, dj, dk, p, q, r
<1>5. i * q \in Nat /\ j * p \in Nat /\ j * r \in Nat /\ k * q \in Nat /\ i * r \in Nat /\ k * p \in Nat
  BY <1>1
<1>6. i * q <= j * p /\ j * r <= k * q
  BY <1>2, <1>3, <1>5
<1>7. i * r <= k * p /\ ((i * q < j * p \/ j * r < k * q) => i * r < k * p)
  BY <1>1, <1>6, Cross
<1>8. QED
  BY <1>1, <1>2, <1>3, <1>4, <1>5, <1>7

LEMMA BeforeTotal ==
    ASSUME NEW i \in TokenId, NEW j \in TokenId, i # j
    PROVE  Before(i, j) \/ Before(j, i)
<1> DEFINE di == Digits(i)
           dj == Digits(j)
           p == Power[di]
           q == Power[dj]
<1>1. /\ i \in Nat /\ j \in Nat /\ di \in Nat /\ dj \in Nat
      /\ p \in Nat \ {0} /\ q \in Nat \ {0}
  BY DigitsExist, PowerPositive DEF TokenId
<1>2. Before(i, j) <=> (i * q < j * p \/ (i * q = j * p /\ di < dj))
  BY DEF Before
<1>3. Before(j, i) <=> (j * p < i * q \/ (j * p = i * q /\ dj < di))
  BY DEF Before
<1>4. di = dj => p = q
  OBVIOUS
<1> HIDE DEF di, dj, p, q
<1>5. i * q \in Nat /\ j * p \in Nat /\ (p = q => i * q # j * p)
  BY <1>1, SMTT(30)
<1>6. QED
  BY <1>1, <1>2, <1>3, <1>4, <1>5

\* Within the width the keys come in the order of the numbers.
LEMMA BeforePadded ==
    ASSUME NEW i \in TokenId, NEW j \in TokenId, i < Power[Width], j < Power[Width]
    PROVE  Before(i, j) <=> i < j
<1>1. Digits(i) = Width /\ Digits(j) = Width
  BY Padded
<1> DEFINE p == Power[Width]
<1>2. p \in Nat \ {0} /\ Width \in Nat /\ i \in Nat /\ j \in Nat
  BY PowerPositive, QueriesAssumption DEF TokenId
<1>3. Before(i, j) <=> (i * p < j * p \/ (i * p = j * p /\ Width < Width))
  BY <1>1 DEF Before
<1> HIDE DEF p
<1>4. i * p < j * p <=> i < j
  BY <1>2, SMTT(30)
<1>5. QED
  BY <1>2, <1>3, <1>4
=============================================================================
