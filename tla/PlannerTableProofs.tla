-------------------------- MODULE PlannerTableProofs --------------------------
(***************************************************************************)
(* The hash table of the planner is sound, answers what the set of its     *)
(* entries answers and implements that set, for every set of entries and   *)
(* however they collide.                                                   *)
(***************************************************************************)
EXTENDS PlannerTable, FiniteSetTheorems, WellFoundedInduction, TLAPS

-----------------------------------------------------------------------------
(* Numbers.                                                                *)

\* A set of naturals that is not empty has a least element.
LEMMA Least ==
  ASSUME NEW T \in SUBSET Nat, T # {} PROVE \E x \in T : \A y \in T : x <= y
<1>1. ASSUME NEW R, R = {ss \in Nat \X Nat : ss[1] < ss[2]}, IsWellFoundedOn(R, Nat)
      PROVE  \E x \in T : \A y \in T : x <= y
  <2>1. PICK x \in T : \A y \in T : ~ (<<y, x>> \in R)
    BY <1>1, WFMin
  <2>2. ASSUME NEW y \in T PROVE x <= y
    <3>1. ~ (<<y, x>>[1] < <<y, x>>[2])
      BY <1>1, <2>1
    <3>2. QED
      BY <3>1
  <2>3. QED
    BY <2>2
<1>2. OpToRel(<, Nat) = {ss \in Nat \X Nat : ss[1] < ss[2]}
  BY DEF OpToRel
<1>3. IsWellFoundedOn(OpToRel(<, Nat), Nat)
  BY NatLessThanWellFounded
<1>4. QED
  BY <1>1, <1>2, <1>3, Zenon

\* Quotient and remainder, whatever the divisor.
LEMMA DivisionParts ==
  ASSUME NEW a \in Nat, NEW b \in Nat \ {0}
  PROVE  /\ a \div b \in Nat /\ a % b \in 0..(b - 1)
         /\ a = (a \div b) * b + (a % b)
<1>1. a = b * (a \div b) + (a % b) /\ a % b \in 0..(b - 1) /\ a \div b \in Int
  BY SMT
<1>2. a \div b >= 0
  BY SMT
<1>3. b * (a \div b) = (a \div b) * b
  BY <1>1, SMT
<1>4. QED
  BY <1>1, <1>2, <1>3

\* A multiple of b that is smaller has a smaller factor.
LEMMA FactorOrder ==
  ASSUME NEW b \in Nat \ {0}, NEW p \in Int, NEW q \in Int, p * b < q * b
  PROVE  p < q
<1>1. CASE q <= p
  <2>1. (p - q) * b >= 0
    BY <1>1, SMT
  <2>2. (p - q) * b = p * b - q * b
    BY SMT
  <2>3. p * b \in Int /\ q * b \in Int
    OBVIOUS
  <2>4. QED
    BY <2>1, <2>2, <2>3
<1>2. QED
  BY <1>1

\* They are the only ones.
LEMMA DivisionUnique ==
  ASSUME NEW b \in Nat \ {0}, NEW q \in Nat, NEW r \in 0..(b - 1)
  PROVE  (q * b + r) \div b = q /\ (q * b + r) % b = r
<1> DEFINE a == q * b + r
           d == a \div b
           m == a % b
<1>1. a \in Nat
  BY SMT
<1>2. d \in Nat /\ m \in 0..(b - 1) /\ a = d * b + m
  BY <1>1, DivisionParts
<1>3. a = q * b + r
  OBVIOUS
<1> HIDE DEF a, d, m
<1>4. (d + 1) * b = d * b + b /\ (q + 1) * b = q * b + b
        /\ d * b \in Int /\ q * b \in Int
  BY <1>2, SMT
<1>5. d * b < (q + 1) * b /\ q * b < (d + 1) * b
  BY <1>2, <1>3, <1>4
<1>6. d < q + 1 /\ q < d + 1
  BY <1>2, <1>5, FactorOrder
<1>7. d = q
  BY <1>2, <1>6
<1>8. m = r
  BY <1>2, <1>3, <1>4, <1>7
<1>9. QED
  BY <1>7, <1>8 DEF a, d, m


Multiple(n, d) == \E q \in Nat : n = q * d

LEMMA ModMultiple ==
  ASSUME NEW n \in Nat, NEW d \in Nat \ {0} PROVE n % d = 0 <=> Multiple(n, d)
<1>1. ASSUME n % d = 0 PROVE Multiple(n, d)
  <2>1. n \div d \in Nat /\ n = (n \div d) * d + 0
    BY <1>1, DivisionParts
  <2>2. n = (n \div d) * d
    BY <2>1
  <2>3. QED
    BY <2>1, <2>2 DEF Multiple
<1>2. ASSUME NEW q \in Nat, n = q * d PROVE n % d = 0
  <2>1. 0 \in 0..(d - 1) /\ n = q * d + 0
    BY <1>2
  <2>2. QED
    BY <2>1, DivisionUnique
<1>3. QED
  BY <1>1, <1>2 DEF Multiple

\* Every step shorter than a prime table visits all slots before the first
\* again: the least number of steps that is a multiple of p divides p.
LEMMA PrimeSteps ==
  ASSUME NEW p \in Nat, IsPrime(p), NEW d \in 1..(p - 1), NEW k \in 1..(p - 1)
  PROVE  (k * d) % p # 0
<1>1. PICK S : S = {j \in 1..p : Multiple(j * d, p)}
  OBVIOUS
<1>2. p \in S
  <2>1. p * d = d * p /\ p \in 1..p
    BY DEF IsPrime
  <2>2. QED
    BY <1>1, <2>1 DEF Multiple
<1>3. PICK m \in S : \A j \in S : m <= j
  <2>1. S \in SUBSET Nat /\ S # {}
    BY <1>1, <1>2
  <2>2. QED
    BY <2>1, Least
<1>4. m \in 1..p /\ m \in Nat \ {0}
  BY <1>1
<1>5. PICK c \in Nat : m * d = c * p
  BY <1>1 DEF Multiple
<1>6. PICK q \in Nat, r \in 0..(m - 1) : p = q * m + r
  BY <1>4, DivisionParts
<1>7. r = 0
  <2>1. SUFFICES ASSUME r # 0 PROVE FALSE
    OBVIOUS
  <2>2. r * d = (d - q * c) * p
    <3>1. p * d = (q * m) * d + r * d
      BY <1>4, <1>6, SMT
    <3>2. (q * m) * d = q * (c * p)
      BY <1>4, <1>5, SMT
    <3>3. (d - q * c) * p = d * p - q * (c * p)
      BY SMT
    <3>4. d * p = p * d /\ d * p \in Int /\ q * (c * p) \in Int /\ r * d \in Int
      BY <1>4
    <3>5. QED
      BY <3>1, <3>2, <3>3, <3>4
  <2>3. d - q * c \in Nat
    <3>1. r * d \in Nat /\ d - q * c \in Int /\ p > 0
      BY <1>4 DEF IsPrime
    <3>2. CASE d - q * c < 0
      <4>1. (d - q * c) * p < 0
        BY <3>1, <3>2, SMT
      <4>2. QED
        BY <2>2, <3>1, <4>1
    <3>3. QED
      BY <3>1, <3>2
  <2>4. r \in 1..p /\ r < m
    BY <1>4, <2>1
  <2>5. r \in S
    BY <1>1, <2>2, <2>3, <2>4 DEF Multiple
  <2>6. QED
    BY <1>3, <1>4, <2>4, <2>5
<1>8. p % m = 0
  <2>1. p = q * m
    BY <1>4, <1>6, <1>7
  <2>2. QED
    BY <1>4, <2>1, ModMultiple DEF Multiple
<1>9. m # 1
  <2>1. SUFFICES ASSUME m = 1 PROVE FALSE
    OBVIOUS
  <2>2. d = c * p
    BY <1>5, <2>1
  <2>3. c = 0 \/ c >= 1
    OBVIOUS
  <2>4. c >= 1 => c * p >= p
    BY SMT
  <2>5. QED
    BY <2>2, <2>3, <2>4
<1>10. m = p
  BY <1>4, <1>8, <1>9 DEF IsPrime
<1>11. ~Multiple(k * d, p)
  BY <1>1, <1>3, <1>10
<1>12. k * d \in Nat /\ p \in Nat \ {0}
  BY DEF IsPrime
<1>13. QED
  BY <1>11, <1>12, ModMultiple

\* There is a number that all numbers up to n divide.
LEMMA CommonMultiple ==
  \A n \in Nat : \E N \in Nat \ {0} : \A k \in 1..n : Multiple(N, k)
<1>1. PICK T : T = {n \in Nat : ~ \E N \in Nat \ {0} : \A k \in 1..n : Multiple(N, k)}
  OBVIOUS
<1>2. SUFFICES ASSUME T # {} PROVE FALSE
  BY <1>1
<1>3. PICK n \in T : \A y \in T : n <= y
  BY <1>1, <1>2, Least
<1>4. n # 0
  <2>1. \A k \in 1..0 : Multiple(1, k)
    OBVIOUS
  <2>2. QED
    BY <1>1, <2>1
<1>5. n \in Nat /\ n - 1 \in Nat /\ n - 1 \notin T
  <2>1. n \in Nat /\ n - 1 \in Nat
    BY <1>1, <1>4
  <2>2. ~ (n <= n - 1)
    BY <2>1
  <2>3. QED
    BY <1>3, <2>1, <2>2
<1>6. PICK N \in Nat \ {0} : \A k \in 1..(n - 1) : Multiple(N, k)
  BY <1>1, <1>5
<1>7. N * n \in Nat \ {0}
  BY <1>4, <1>5, SMT
<1>8. ASSUME NEW k \in 1..n PROVE Multiple(N * n, k)
  <2>1. CASE k = n
    BY <2>1 DEF Multiple
  <2>2. CASE k # n
    <3>1. PICK q \in Nat : N = q * k
      <4>1. k \in 1..(n - 1)
        BY <1>5, <2>2
      <4>2. Multiple(N, k)
        BY <1>6, <4>1, Zenon
      <4>3. QED
        BY <4>2 DEF Multiple
    <3>2. N * n = (q * n) * k /\ q * n \in Nat
      BY <1>5, <3>1, SMT
    <3>3. QED
      BY <3>2 DEF Multiple
  <2>3. QED
    BY <2>1, <2>2
<1>9. QED
  BY <1>1, <1>3, <1>7, <1>8

\* Hence the least divisor of its successor is a prime above n.
LEMMA PrimeAbove == \A n \in Nat : \E p \in Nat : p >= n /\ IsPrime(p)
<1> SUFFICES ASSUME NEW n \in Nat PROVE \E p \in Nat : p >= n /\ IsPrime(p)
  OBVIOUS
<1>1. PICK N \in Nat \ {0} : \A k \in 1..n : Multiple(N, k)
  BY CommonMultiple
<1>2. PICK M \in Nat : M = N + 1 /\ M >= 2
  OBVIOUS
<1>3. PICK S : S = {d \in Nat : d >= 2 /\ Multiple(M, d)}
  OBVIOUS
<1>4. M \in S
  <2>1. M = 1 * M
    BY <1>2
  <2>2. QED
    BY <1>2, <1>3, <2>1 DEF Multiple
<1>5. PICK p \in S : \A d \in S : p <= d
  BY <1>3, <1>4, Least
<1>6. p \in Nat /\ p >= 2
  BY <1>3
<1>7. PICK q \in Nat : M = q * p
  BY <1>3 DEF Multiple
<1>8. IsPrime(p)
  <2>1. SUFFICES ASSUME NEW d \in 2..(p - 1), p % d = 0 PROVE FALSE
    <3>1. p > 1
      BY <1>6
    <3>2. QED
      BY <3>1, Zenon DEF IsPrime
  <2>2. PICK c \in Nat : p = c * d
    BY <1>6, <2>1, ModMultiple DEF Multiple
  <2>3. M = (q * c) * d /\ q * c \in Nat
    BY <1>6, <1>7, <2>2, SMT
  <2>4. d \in S
    BY <1>3, <1>6, <2>3 DEF Multiple
  <2>5. QED
    BY <1>5, <1>6, <2>4
<1>9. p > n
  <2>1. SUFFICES ASSUME p <= n PROVE FALSE
    BY <1>6
  <2>2. PICK c \in Nat : N = c * p
    <3>1. p \in 1..n
      BY <1>6, <2>1
    <3>2. Multiple(N, p)
      BY <1>1, <3>1, Zenon
    <3>3. QED
      BY <3>2 DEF Multiple
  <2>3. (q - c) * p = 1
    <3>1. (q - c) * p = q * p - c * p
      BY <1>6, SMT
    <3>2. QED
      BY <1>2, <1>7, <2>2, <3>1
  <2>4. q - c \in Int /\ (q - c <= 0 \/ q - c >= 1)
    OBVIOUS
  <2>5. q - c <= 0 => (q - c) * p <= 0
    BY <1>6, <2>4, SMT
  <2>6. q - c >= 1 => (q - c) * p >= p
    BY <1>6, <2>4, SMT
  <2>7. QED
    BY <1>6, <2>3, <2>4, <2>5, <2>6
<1>10. QED
  BY <1>6, <1>8, <1>9

\* The first prime that next_prime meets.
FirstPrime(n, p) == p \in Nat /\ p >= n /\ IsPrime(p) /\ \A q \in n..(p - 1) : ~IsPrime(q)

LEMMA FirstPrimeExists ==
  /\ \A n \in Nat : \E p \in Nat : FirstPrime(n, p)
  /\ \A n \in Nat : \A p, r : FirstPrime(n, p) /\ FirstPrime(n, r) => p = r
<1>1. ASSUME NEW n \in Nat PROVE \E p \in Nat : FirstPrime(n, p)
  <2>1. PICK T : T = {p \in Nat : p >= n /\ IsPrime(p)}
    OBVIOUS
  <2>2. PICK p \in T : \A q \in T : p <= q
    BY <2>1, PrimeAbove, Least
  <2>3. \A q \in n..(p - 1) : ~IsPrime(q)
    BY <2>1, <2>2
  <2>4. QED
    BY <2>1, <2>2, <2>3 DEF FirstPrime
<1>2. ASSUME NEW n \in Nat, NEW p, NEW r, FirstPrime(n, p), FirstPrime(n, r) PROVE p = r
  <2>1. p \in Nat /\ r \in Nat /\ ~ (p < r) /\ ~ (r < p)
    BY <1>2 DEF FirstPrime
  <2>2. QED
    BY <2>1
<1>3. QED
  BY <1>1, <1>2

PrimeFcn(f) == f = [n \in Nat |-> IF IsPrime(n) THEN n ELSE f[n + 1]]

LEMMA NextPrimeIsFirst == \A n \in Nat : FirstPrime(n, NextPrime[n])
<1>1. \E f : PrimeFcn(f)
  <2> DEFINE f == [n \in Nat |-> CHOOSE p \in Nat : FirstPrime(n, p)]
  <2>1. \A n \in Nat : f[n] \in Nat /\ FirstPrime(n, f[n])
    BY FirstPrimeExists, Zenon
  <2> HIDE DEF f
  <2>2. ASSUME NEW n \in Nat PROVE f[n] = IF IsPrime(n) THEN n ELSE f[n + 1]
    <3>1. CASE IsPrime(n)
      <4>1. FirstPrime(n, n)
        BY <3>1 DEF FirstPrime
      <4>2. QED
        BY <2>1, <3>1, <4>1, FirstPrimeExists
    <3>2. CASE ~IsPrime(n)
      <4>1. f[n] \in Nat /\ f[n] >= n /\ IsPrime(f[n]) /\ \A q \in n..(f[n] - 1) : ~IsPrime(q)
        BY <2>1 DEF FirstPrime
      <4>2. f[n] # n
        BY <3>2, <4>1
      <4>3. FirstPrime(n + 1, f[n])
        BY <4>1, <4>2 DEF FirstPrime
      <4>4. n + 1 \in Nat /\ FirstPrime(n + 1, f[n + 1])
        BY <2>1
      <4>5. f[n] = f[n + 1]
        BY <4>3, <4>4, FirstPrimeExists, Zenon
      <4>6. QED
        BY <3>2, <4>5
    <3>3. QED
      BY <3>1, <3>2
  <2>3. f = [n \in Nat |-> f[n]]
    BY DEF f
  <2>4. f = [n \in Nat |-> IF IsPrime(n) THEN n ELSE f[n + 1]]
    BY <2>2, <2>3
  <2>5. QED
    BY <2>4, Zenon DEF PrimeFcn
<1>2. PrimeFcn(NextPrime)
  <2>1. PrimeFcn(CHOOSE f : PrimeFcn(f))
    BY <1>1, Zenon
  <2>2. QED
    BY <2>1, Zenon DEF PrimeFcn, NextPrime
<1>3. \A n \in Nat : NextPrime[n] = IF IsPrime(n) THEN n ELSE NextPrime[n + 1]
  BY <1>2, Zenon DEF PrimeFcn
<1>4. ASSUME NEW n \in Nat PROVE FirstPrime(n, NextPrime[n])
  <2>1. PICK p \in Nat : FirstPrime(n, p)
    BY FirstPrimeExists
  <2>2. p >= n /\ IsPrime(p) /\ \A q \in n..(p - 1) : ~IsPrime(q)
    BY <2>1 DEF FirstPrime
  <2>3. PICK S : S = {i \in 0..(p - n) : NextPrime[p - i] # p}
    OBVIOUS
  <2>4. CASE S # {}
    <3>1. PICK i \in S : \A j \in S : i <= j
      <4>1. S \in SUBSET Nat
        BY <2>2, <2>3
      <4>2. QED
        BY <2>4, <4>1, Least
    <3>2. i \in 0..(p - n) /\ NextPrime[p - i] # p /\ p - i \in Nat
      BY <2>2, <2>3, <3>1
    <3>3. CASE i = 0
      <4>1. p - i = p
        BY <3>3
      <4>2. QED
        BY <1>3, <2>2, <3>2, <4>1
    <3>4. CASE i # 0
      <4>1. i - 1 \in 0..(p - n) /\ p - (i - 1) = (p - i) + 1 /\ p - i \in n..(p - 1)
        BY <2>2, <3>2, <3>4
      <4>2. NextPrime[p - (i - 1)] = p
        <5>1. i - 1 \notin S
          BY <3>1, <3>2
        <5>2. QED
          BY <2>3, <4>1, <5>1
      <4>3. QED
        BY <1>3, <2>2, <3>2, <4>1, <4>2
    <3>5. QED
      BY <3>3, <3>4
  <2>5. CASE S = {}
    <3>1. p - n \in 0..(p - n) /\ p - (p - n) = n
      BY <2>2
    <3>2. NextPrime[n] = p
      BY <2>3, <2>5, <3>1
    <3>3. QED
      BY <2>1, <3>2
  <2>6. QED
    BY <2>4, <2>5
<1>5. QED
  BY <1>4

-----------------------------------------------------------------------------
(* Loops and searches.                                                     *)

\* A set that a loop cannot leave.
LEMMA LoopStaysIn ==
  ASSUME NEW N \in Nat, NEW S, 0 \in S, \A k \in 1..N : k - 1 \in S => k \in S
  PROVE  \A k \in 0..N : k \in S
<1>1. PICK T : T = {k \in 0..N : k \notin S}
  OBVIOUS
<1>2. SUFFICES ASSUME T # {} PROVE FALSE
  BY <1>1
<1>3. PICK k \in T : \A j \in T : k <= j
  <2>1. T \in SUBSET Nat
    BY <1>1
  <2>2. QED
    BY <1>2, <2>1, Least
<1>4. k \in 1..N /\ k \notin S
  BY <1>1, <1>3
<1>5. k - 1 \notin T /\ k - 1 \in 0..N
  BY <1>3, <1>4
<1>6. QED
  BY <1>1, <1>4, <1>5

\* A loop whose body is a function of its counter and its state has a run.
LoopRun(N, V, a, body, f) ==
  /\ f \in [0..N -> V]
  /\ f[0] = a
  /\ \A k \in 1..N : f[k] = body[k, f[k - 1]]

LEMMA LoopRuns ==
  ASSUME NEW N \in Nat, NEW V, NEW a \in V, NEW body \in [(1..N) \X V -> V]
  PROVE  \E f : LoopRun(N, V, a, body, f)
<1>1. PICK S : S = {n \in 0..N : \E f : LoopRun(n, V, a, body, f)}
  OBVIOUS
<1>2. 0 \in S
  <2>1. PICK f : f = [k \in 0..0 |-> a]
    OBVIOUS
  <2>2. LoopRun(0, V, a, body, f)
    BY <2>1 DEF LoopRun
  <2>3. QED
    BY <1>1, <2>2
<1>3. ASSUME NEW n \in 1..N, n - 1 \in S PROVE n \in S
  <2> n \in Nat /\ n - 1 \in 0..(n - 1) /\ n \in 0..n /\ 0 \in 0..n /\ n # 0
    OBVIOUS
  <2>1. PICK f : LoopRun(n - 1, V, a, body, f)
    BY <1>1, <1>3
  <2>2. f \in [0..(n - 1) -> V] /\ f[0] = a
          /\ \A k \in 1..(n - 1) : f[k] = body[k, f[k - 1]]
    BY <2>1 DEF LoopRun
  <2>3. PICK g : g = [k \in 0..n |-> IF k = n THEN body[n, f[n - 1]] ELSE f[k]]
    OBVIOUS
  <2>4. f[n - 1] \in V
    BY <2>2, Zenon
  <2>5. body[n, f[n - 1]] \in V
    <3>1. <<n, f[n - 1]>> \in (1..N) \X V
      BY <2>4
    <3>2. QED
      BY <3>1
  <2>6. g \in [0..n -> V]
    <3>1. ASSUME NEW k \in 0..n PROVE g[k] \in V
      <4>1. CASE k = n
        BY <2>3, <2>5, <4>1
      <4>2. CASE k # n
        <5>1. k \in 0..(n - 1)
          BY <4>2
        <5>2. f[k] \in V
          BY <2>2, <5>1, Zenon
        <5>3. QED
          BY <2>3, <4>2, <5>2
      <4>3. QED
        BY <4>1, <4>2
    <3>2. QED
      BY <2>3, <3>1
  <2>7. g[0] = a
    <3>1. g[0] = f[0]
      BY <2>3
    <3>2. QED
      BY <2>2, <3>1
  <2>8. ASSUME NEW k \in 1..n PROVE g[k] = body[k, g[k - 1]]
    <3>1. k - 1 \in 0..n /\ k - 1 # n
      OBVIOUS
    <3>2. g[k - 1] = f[k - 1]
      BY <2>3, <3>1
    <3>3. CASE k = n
      <4>1. g[n] = body[n, f[n - 1]]
        BY <2>3
      <4>2. QED
        BY <3>2, <3>3, <4>1
    <3>4. CASE k # n
      <4>1. k \in 1..(n - 1) /\ k \in 0..n
        BY <3>4
      <4>2. g[k] = f[k]
        BY <2>3, <3>4, <4>1
      <4>3. f[k] = body[k, f[k - 1]]
        BY <2>2, <4>1
      <4>4. QED
        BY <3>2, <4>2, <4>3
    <3>5. QED
      BY <3>3, <3>4
  <2>9. LoopRun(n, V, a, body, g)
    BY <2>6, <2>7, <2>8, Zenon DEF LoopRun
  <2>10. QED
    BY <1>1, <2>9
<1>4. \A n \in 0..N : n \in S
  BY <1>2, <1>3, LoopStaysIn
<1>5. QED
  BY <1>1, <1>4

\* The words of a key.
IsKey(key) == key[1] \in Nat /\ key[2] \in Nat

\* A search visits every slot of a table of prime size exactly once.
LEMMA OrbitVisits ==
  ASSUME NEW p \in Nat, IsPrime(p), NEW key, IsKey(key)
  PROVE  /\ Orbit(p, key) \in [1..p -> 0..(p - 1)]
         /\ \A i, j \in 1..p : Orbit(p, key)[i] = Orbit(p, key)[j] => i = j
         /\ \A g \in 0..(p - 1) : \E k \in 1..p : Orbit(p, key)[k] = g
<1>1. p > 1
  BY DEF IsPrime
<1>2. PICK a \in 0..(p - 1) : a = h1(p, key)
  <2>1. p \in Nat \ {0} /\ key[1] \in Nat
    BY <1>1 DEF IsKey
  <2>2. key[1] % p \in 0..(p - 1)
    BY <2>1, DivisionParts
  <2>3. QED
    BY <2>2 DEF h1
<1>3. PICK d \in 1..(p - 1) : d = h2(p, key)
  <2>1. p - 1 \in Nat \ {0}
    BY <1>1
  <2>2. key[2] % (p - 1) \in 0..((p - 1) - 1)
    BY <2>1, DivisionParts DEF IsKey
  <2>3. 1 + (key[2] % (p - 1)) \in 1..(p - 1)
    BY <2>1, <2>2
  <2>4. QED
    BY <2>3 DEF h2
<1>4. \A k \in 1..(p - 1) : (k * d) % p # 0
  BY PrimeSteps
<1>5. (p * d) % p = 0
  <2>1. p * d = d * p /\ p * d \in Nat /\ p \in Nat \ {0}
    BY <1>1
  <2>2. QED
    BY <2>1, ModMultiple DEF Multiple
<1> DEFINE Round(k) == (k * d) % p = 0 /\ \A j \in 1..k - 1 : (j * d) % p # 0
<1>6. Round(p) /\ p \in 1..p
  <2>1. p \in 1..p
    BY <1>1
  <2>2. \A j \in 1..p - 1 : (j * d) % p # 0
    BY <1>4, Zenon
  <2>3. QED
    BY <1>5, <2>1, <2>2, Zenon
<1>7. ASSUME NEW k \in 1..p, Round(k) PROVE k = p
  BY <1>4, <1>7
<1>8. (CHOOSE k \in 1..p : Round(k)) = p
  <2> HIDE DEF Round
  <2>1. QED
    BY <1>6, <1>7, Zenon
<1>9. PICK o : o = [k \in 1..p |-> (a + (k - 1) * d) % p]
  OBVIOUS
<1>10. Orbit(p, key) = o
  BY <1>2, <1>3, <1>8, <1>9, Zenon DEF Orbit
<1>11. ASSUME NEW k \in 1..p
       PROVE  \E q \in Nat : o[k] \in 0..(p - 1) /\ a + (k - 1) * d = q * p + o[k]
  <2>1. a + (k - 1) * d \in Nat /\ p \in Nat \ {0}
    BY <1>1, SMT
  <2>2. QED
    BY <1>9, <2>1, DivisionParts
<1>12. o \in [1..p -> 0..(p - 1)]
  BY <1>9, <1>11
<1>13. ASSUME NEW i \in 1..p, NEW j \in 1..p, i < j PROVE o[i] # o[j]
  <2>1. SUFFICES ASSUME o[i] = o[j] PROVE FALSE
    OBVIOUS
  <2>2. PICK q \in Nat : a + (i - 1) * d = q * p + o[i]
    BY <1>11
  <2>3. PICK r \in Nat : a + (j - 1) * d = r * p + o[j]
    BY <1>11
  <2>4. (j - i) * d = (r - q) * p
    <3>1. (j - i) * d = (j - 1) * d - (i - 1) * d /\ (r - q) * p = r * p - q * p
      BY SMT
    <3>2. (j - 1) * d \in Int /\ (i - 1) * d \in Int /\ r * p \in Int /\ q * p \in Int
            /\ o[i] \in Int
      BY <1>12
    <3>3. QED
      BY <2>1, <2>2, <2>3, <3>1, <3>2
  <2>5. j - i \in 1..(p - 1)
    BY <1>13
  <2>6. (j - i) * d > 0
    BY <2>5, SMT
  <2>7. r - q \in Nat
    <3>1. SUFFICES ASSUME r - q < 0 PROVE FALSE
      OBVIOUS
    <3>2. (r - q) * p <= 0
      BY <1>1, <3>1, SMT
    <3>3. QED
      BY <2>4, <2>6, <3>2
  <2>8. ((j - i) * d) % p = 0
    <3>1. (j - i) * d \in Nat /\ p \in Nat \ {0}
      BY <1>1, <2>5, SMT
    <3>2. QED
      BY <2>4, <2>7, <3>1, ModMultiple DEF Multiple
  <2>9. QED
    BY <1>4, <2>5, <2>8
<1>14. \A i, j \in 1..p : o[i] = o[j] => i = j
  <2>1. TAKE i, j \in 1..p
  <2>2. i < j \/ j < i \/ i = j
    OBVIOUS
  <2>3. QED
    BY <1>13, <2>2
<1>15. \A g \in 0..(p - 1) : \E k \in 1..p : o[k] = g
  <2>1. o \in Injection(1..p, 0..(p - 1))
    BY <1>12, <1>14 DEF Injection, IsInjective
  <2>2. IsFiniteSet(0..(p - 1)) /\ Cardinality(0..(p - 1)) = p
    <3>1. 0 \in Int /\ p - 1 \in Int /\ ~ (0 > p - 1) /\ p - 1 - 0 + 1 = p
      BY <1>1
    <3>2. QED
      BY <3>1, FS_Interval
  <2>3. Cardinality(1..p) = p
    <3>1. 1 \in Int /\ p \in Int /\ ~ (1 > p) /\ p - 1 + 1 = p
      BY <1>1
    <3>2. QED
      BY <3>1, FS_Interval
  <2>4. o \in Surjection(1..p, 0..(p - 1))
    BY <2>1, <2>2, <2>3, FS_Injection
  <2>5. QED
    BY <2>4 DEF Surjection
<1>16. QED
  BY <1>10, <1>12, <1>14, <1>15

-----------------------------------------------------------------------------
(* Tables.                                                                 *)

Slots == {Invalid, Dead} \cup {Filled(e) : e \in Entries}
Tables(p) == [siz : {p}, nelem : Nat, slot : [0..(p - 1) -> Slots]]

\* A search for the key of an entry gets to its slot.
Reached(t, g, key) ==
    \E k \in 1..t.siz :
        /\ Orbit(t.siz, key)[k] = g
        /\ \A j \in 1..k : t.slot[Orbit(t.siz, key)[j]].valid

Shaped(t) == t.siz \in Nat /\ IsPrime(t.siz) /\ t \in Tables(t.siz)

Sound(t) ==
    /\ Shaped(t)
    /\ t.nelem = Cardinality(LiveSlots(t))
    /\ \A g \in LiveSlots(t) : Reached(t, g, t.slot[g].e.key)

LEMMA SlotFacts ==
  /\ ~Invalid.live /\ ~Invalid.valid /\ Invalid \in Slots
  /\ ~Dead.live /\ Dead.valid /\ Dead \in Slots
  /\ \A e \in Entries : Filled(e).live /\ Filled(e).valid /\ Filled(e).e = e /\ Filled(e) \in Slots
  /\ \A s \in Slots : s.live \in BOOLEAN /\ s.valid \in BOOLEAN
                        /\ (s.live => s.valid /\ s.e \in Entries)
<1>1. ~Invalid.live /\ ~Invalid.valid /\ Invalid \in Slots
  BY DEF Invalid, Slots
<1>2. ~Dead.live /\ Dead.valid /\ Dead \in Slots
  BY DEF Dead, Slots
<1>3. ASSUME NEW e PROVE Filled(e).live /\ Filled(e).valid /\ Filled(e).e = e
  BY DEF Filled
<1>4. \A e \in Entries : Filled(e) \in Slots
  BY DEF Slots
<1>5. ASSUME NEW s \in Slots
      PROVE  s.live \in BOOLEAN /\ s.valid \in BOOLEAN /\ (s.live => s.valid /\ s.e \in Entries)
  <2>1. CASE s = Invalid
    BY <2>1 DEF Invalid
  <2>2. CASE s = Dead
    BY <2>2 DEF Dead
  <2>3. ASSUME NEW e \in Entries, s = Filled(e) PROVE s.live = TRUE /\ s.valid = TRUE /\ s.e = e
    BY <2>3 DEF Filled
  <2>4. QED
    BY <2>1, <2>2, <2>3 DEF Slots
<1>6. QED
  BY <1>1, <1>2, <1>3, <1>4, <1>5

LEMMA TableFacts ==
  ASSUME NEW t, Shaped(t)
  PROVE  /\ t.siz \in Nat /\ t.siz > 1 /\ t.nelem \in Nat
         /\ t.slot \in [0..(t.siz - 1) -> Slots] /\ DOMAIN t.slot = 0..(t.siz - 1)
         /\ t = [siz |-> t.siz, nelem |-> t.nelem, slot |-> t.slot]
         /\ LiveSlots(t) \subseteq 0..(t.siz - 1)
         /\ \A g \in 0..(t.siz - 1) : g \in LiveSlots(t) <=> t.slot[g].live
         /\ IsFiniteSet(LiveSlots(t)) /\ Cardinality(LiveSlots(t)) \in Nat
         /\ Cardinality(LiveSlots(t)) <= t.siz
<1>1. t.siz \in Nat /\ t.siz > 1 /\ t.nelem \in Nat /\ t.slot \in [0..(t.siz - 1) -> Slots]
  BY DEF Shaped, IsPrime, Tables
<1>2. t = [siz |-> t.siz, nelem |-> t.nelem, slot |-> t.slot]
  BY DEF Shaped, Tables
<1>3. DOMAIN t.slot = 0..(t.siz - 1)
  BY <1>1
<1>4. /\ LiveSlots(t) \subseteq 0..(t.siz - 1)
      /\ \A g \in 0..(t.siz - 1) : g \in LiveSlots(t) <=> t.slot[g].live
  BY <1>3, Zenon DEF LiveSlots
<1>5. IsFiniteSet(0..(t.siz - 1)) /\ Cardinality(0..(t.siz - 1)) = t.siz
  <2>1. 0 \in Int /\ t.siz - 1 \in Int /\ ~ (0 > t.siz - 1) /\ t.siz - 1 - 0 + 1 = t.siz
    BY <1>1
  <2>2. QED
    BY <2>1, FS_Interval
<1>6. IsFiniteSet(LiveSlots(t)) /\ Cardinality(LiveSlots(t)) <= t.siz
  <2>1. LiveSlots(t) \in SUBSET (0..(t.siz - 1))
    BY <1>4
  <2>2. QED
    BY <1>5, <2>1, FS_Subset, ZenonT(60)
<1>7. Cardinality(LiveSlots(t)) \in Nat
  BY <1>6, FS_CardinalityType
<1>8. QED
  BY <1>1, <1>2, <1>3, <1>4, <1>6, <1>7

LEMMA KeyFacts == \A e \in Entries : IsKey(e.key)
BY EntriesAssumption DEF IsKey

\* A table that is not full of live entries has a slot for the next one.
LEMMA RoomIsLeft ==
  ASSUME NEW t, Shaped(t), Cardinality(LiveSlots(t)) < t.siz
  PROVE  \E g \in 0..(t.siz - 1) : ~t.slot[g].live
<1>1. SUFFICES ASSUME \A g \in 0..(t.siz - 1) : t.slot[g].live PROVE FALSE
  OBVIOUS
<1>2. LiveSlots(t) = 0..(t.siz - 1)
  BY <1>1, TableFacts
<1>3. t.siz \in Nat /\ 0 \in Int /\ t.siz - 1 \in Int /\ ~ (0 > t.siz - 1) /\ t.siz - 1 - 0 + 1 = t.siz
  BY TableFacts
<1>4. Cardinality(0..(t.siz - 1)) = t.siz
  BY <1>3, FS_Interval
<1>5. QED
  BY <1>2, <1>3, <1>4

\* hinsert0 keeps the form of a table, and fills the first free slot that the
\* search for the key of the entry comes to.
LEMMA InsertShape ==
  ASSUME NEW t, Shaped(t), NEW e \in Entries
  PROVE  Shaped(HInsert0(t, e)) /\ HInsert0(t, e).siz = t.siz
<1> DEFINE o == Orbit(t.siz, e.key)
           Free == {k \in DOMAIN o : ~t.slot[o[k]].live}
           k1 == CHOOSE k \in Free : \A j \in Free : k <= j
           c == [t EXCEPT !.nelem = @ + 1]
<1>1. c = [siz |-> t.siz, nelem |-> t.nelem + 1, slot |-> t.slot]
  <2>1. t = [siz |-> t.siz, nelem |-> t.nelem, slot |-> t.slot]
    BY TableFacts
  <2>2. QED
    BY <2>1
<1>2. CASE Free = {}
  <2>1. HInsert0(t, e) = c
    BY <1>2 DEF HInsert0
  <2> HIDE DEF c
  <2>2. QED
    BY <1>1, <2>1, TableFacts DEF Shaped, Tables
<1>3. CASE Free # {}
  <2>1. HInsert0(t, e) = [c EXCEPT !.slot[o[k1]] = Filled(e)]
    BY <1>3 DEF HInsert0
  <2>2. PICK g : g = o[k1]
    OBVIOUS
  <2> HIDE DEF c, o, k1
  <2>3. HInsert0(t, e) = [siz |-> t.siz, nelem |-> t.nelem + 1,
                          slot |-> [t.slot EXCEPT ![g] = Filled(e)]]
    BY <1>1, <2>1, <2>2
  <2>4. [t.slot EXCEPT ![g] = Filled(e)] \in [0..(t.siz - 1) -> Slots]
    BY TableFacts, SlotFacts
  <2>5. QED
    BY <2>3, <2>4, TableFacts, SMTT(30) DEF Shaped, Tables
<1>4. QED
  BY <1>2, <1>3

LEMMA InsertFills ==
  ASSUME NEW t, Shaped(t), NEW e \in Entries, Cardinality(LiveSlots(t)) < t.siz
  PROVE  \E k \in 1..t.siz : \E g \in 0..(t.siz - 1) :
            /\ g = Orbit(t.siz, e.key)[k] /\ ~t.slot[g].live
            /\ \A j \in 1..(k - 1) : t.slot[Orbit(t.siz, e.key)[j]].live
            /\ HInsert0(t, e) = [siz |-> t.siz, nelem |-> t.nelem + 1,
                                 slot |-> [t.slot EXCEPT ![g] = Filled(e)]]
<1>1. PICK o : o = Orbit(t.siz, e.key)
  OBVIOUS
<1>2. /\ o \in [1..t.siz -> 0..(t.siz - 1)]
      /\ \A g \in 0..(t.siz - 1) : \E k \in 1..t.siz : o[k] = g
  BY <1>1, OrbitVisits, KeyFacts, TableFacts DEF Shaped
<1>3. PICK Free : Free = {k \in DOMAIN o : ~t.slot[o[k]].live}
  OBVIOUS
<1>4. Free \in SUBSET Nat /\ Free # {}
  <2>1. \E g \in 0..(t.siz - 1) : ~t.slot[g].live
    BY RoomIsLeft
  <2>2. \E k \in 1..t.siz : ~t.slot[o[k]].live
    BY <1>2, <2>1, Zenon
  <2>3. QED
    BY <1>2, <1>3, <2>2
<1>5. PICK k : k = CHOOSE x \in Free : \A j \in Free : x <= j
  OBVIOUS
<1>6. k \in Free /\ \A j \in Free : k <= j
  <2>1. \E x \in Free : \A j \in Free : x <= j
    BY <1>4, Least
  <2>2. QED
    BY <1>5, <2>1, Zenon
<1>7. PICK g \in 0..(t.siz - 1) : g = o[k] /\ ~t.slot[g].live /\ k \in 1..t.siz
  BY <1>2, <1>3, <1>6
<1>8. ASSUME NEW j \in 1..(k - 1) PROVE t.slot[o[j]].live
  <2>1. j \in 1..t.siz /\ ~ (k <= j)
    BY <1>7, TableFacts
  <2>2. j \notin Free
    BY <1>6, <2>1
  <2>3. QED
    BY <1>2, <1>3, <2>1, <2>2
<1>9. PICK c : c = [siz |-> t.siz, nelem |-> t.nelem + 1, slot |-> t.slot]
  OBVIOUS
<1>10. c = [t EXCEPT !.nelem = @ + 1]
  <2>1. t = [siz |-> t.siz, nelem |-> t.nelem, slot |-> t.slot]
    BY TableFacts
  <2>2. QED
    BY <1>9, <2>1
<1>11. HInsert0(t, e) = [c EXCEPT !.slot[o[k]] = Filled(e)]
  BY <1>1, <1>3, <1>4, <1>5, <1>10, Zenon DEF HInsert0
<1>12. HInsert0(t, e) = [siz |-> t.siz, nelem |-> t.nelem + 1,
                         slot |-> [t.slot EXCEPT ![g] = Filled(e)]]
  BY <1>7, <1>9, <1>11
<1>13. QED
  BY <1>1, <1>7, <1>8, <1>12

\* So a sound table stays sound and has the entry.
LEMMA InsertIsSound ==
  ASSUME NEW t, Sound(t), NEW e \in Entries, t.nelem < t.siz
  PROVE  /\ Sound(HInsert0(t, e))
         /\ HInsert0(t, e).siz = t.siz /\ HInsert0(t, e).nelem = t.nelem + 1
         /\ LiveEntries(HInsert0(t, e)) = LiveEntries(t) \cup {e}
<1>1. Shaped(t)
  BY DEF Sound
<1>2. PICK k \in 1..t.siz, g \in 0..(t.siz - 1) :
            /\ g = Orbit(t.siz, e.key)[k] /\ ~t.slot[g].live
            /\ \A j \in 1..(k - 1) : t.slot[Orbit(t.siz, e.key)[j]].live
            /\ HInsert0(t, e) = [siz |-> t.siz, nelem |-> t.nelem + 1,
                                 slot |-> [t.slot EXCEPT ![g] = Filled(e)]]
  BY <1>1, InsertFills DEF Sound
<1>3. PICK u : u = HInsert0(t, e)
  OBVIOUS
<1>4. u.siz = t.siz /\ u.nelem = t.nelem + 1 /\ u.slot = [t.slot EXCEPT ![g] = Filled(e)]
  BY <1>2, <1>3
<1>5. Shaped(u)
  BY <1>1, <1>3, InsertShape
<1>6. /\ u.slot[g] = Filled(e)
      /\ \A i \in 0..(t.siz - 1) : i # g => u.slot[i] = t.slot[i]
  BY <1>1, <1>4, TableFacts
<1>7. LiveSlots(u) = LiveSlots(t) \cup {g} /\ g \notin LiveSlots(t)
  <2>1. ASSUME NEW i \in 0..(t.siz - 1)
        PROVE  i \in LiveSlots(u) <=> i \in LiveSlots(t) \/ i = g
    BY <1>1, <1>2, <1>4, <1>5, <1>6, TableFacts, SlotFacts
  <2>2. LiveSlots(u) \subseteq 0..(t.siz - 1) /\ LiveSlots(t) \subseteq 0..(t.siz - 1)
    BY <1>1, <1>4, <1>5, TableFacts
  <2>3. g \notin LiveSlots(t)
    BY <1>1, <1>2, TableFacts
  <2>4. QED
    BY <2>1, <2>2, <2>3
<1>8. u.nelem = Cardinality(LiveSlots(u))
  <2>1. IsFiniteSet(LiveSlots(t)) /\ t.nelem = Cardinality(LiveSlots(t))
    BY <1>1, TableFacts DEF Sound
  <2>2. Cardinality(LiveSlots(t) \cup {g}) = Cardinality(LiveSlots(t)) + 1
    BY <1>7, <2>1, FS_AddElement
  <2>3. QED
    BY <1>4, <1>7, <2>1, <2>2
<1>9. \A i \in 0..(t.siz - 1) : t.slot[i].valid => u.slot[i].valid
  BY <1>6, SlotFacts, SMTT(30)
<1>10. ASSUME NEW i \in LiveSlots(t) PROVE Reached(u, i, u.slot[i].e.key)
  <2>1. i \in 0..(t.siz - 1) /\ u.slot[i] = t.slot[i]
    BY <1>1, <1>6, <1>7, TableFacts
  <2>2. PICK key : key = t.slot[i].e.key
    OBVIOUS
  <2>3. IsKey(key)
    <3>1. t.slot[i].e \in Entries
      <4>1. t.slot[i] \in Slots /\ t.slot[i].live
        BY <1>1, <2>1, TableFacts
      <4>2. QED
        BY <4>1, SlotFacts, Zenon
    <3>2. QED
      BY <2>2, <3>1, KeyFacts
  <2>4. PICK n \in 1..t.siz : /\ Orbit(t.siz, key)[n] = i
                              /\ \A j \in 1..n : t.slot[Orbit(t.siz, key)[j]].valid
    BY <2>2 DEF Sound, Reached
  <2>5. ASSUME NEW j \in 1..n PROVE u.slot[Orbit(t.siz, key)[j]].valid
    <3>1. Orbit(t.siz, key)[j] \in 0..(t.siz - 1)
      <4>1. j \in 1..t.siz
        BY <1>1, TableFacts
      <4>2. Orbit(t.siz, key) \in [1..t.siz -> 0..(t.siz - 1)]
        BY <1>1, <2>3, OrbitVisits, SMTT(30) DEF Shaped
      <4>3. QED
        BY <4>1, <4>2
    <3>2. QED
      BY <1>9, <2>4, <3>1
  <2>6. QED
    BY <1>4, <2>1, <2>2, <2>4, <2>5 DEF Reached
<1>11. Reached(u, g, u.slot[g].e.key)
  <2>1. u.slot[g].e.key = e.key
    BY <1>6, SlotFacts
  <2>2. ASSUME NEW j \in 1..k PROVE u.slot[Orbit(t.siz, e.key)[j]].valid
    <3>1. CASE j = k
      BY <1>2, <1>6, <3>1, SlotFacts
    <3>2. CASE j # k
      <4>1. j \in 1..(k - 1) /\ j \in 1..t.siz
        BY <1>1, <3>2, TableFacts
      <4>2. Orbit(t.siz, e.key) \in [1..t.siz -> 0..(t.siz - 1)]
        BY <1>1, KeyFacts, OrbitVisits DEF Shaped
      <4>3. PICK i \in 0..(t.siz - 1) : i = Orbit(t.siz, e.key)[j]
        BY <4>1, <4>2
      <4>4. t.slot[i].live /\ t.slot[i] \in Slots
        BY <1>1, <1>2, <4>1, <4>3, TableFacts
      <4>5. QED
        BY <1>9, <4>3, <4>4, SlotFacts
    <3>3. QED
      BY <3>1, <3>2
  <2>3. QED
    BY <1>2, <1>4, <2>1, <2>2 DEF Reached
<1>12. Sound(u)
  BY <1>5, <1>7, <1>8, <1>10, <1>11 DEF Sound
<1>13. LiveEntries(u) = LiveEntries(t) \cup {e}
  <2>1. \A i \in LiveSlots(t) : u.slot[i].e = t.slot[i].e
    BY <1>1, <1>6, <1>7, TableFacts
  <2>2. u.slot[g].e = e
    BY <1>6, SlotFacts
  <2>3. QED
    BY <1>7, <2>1, <2>2, ZenonT(60) DEF LiveEntries
<1>14. QED
  BY <1>3, <1>4, <1>12, <1>13

-----------------------------------------------------------------------------
(* Growth.                                                                 *)

\* What rehash needs of a table: mkhashtab starts it on one without slots.
Counted(t) ==
    /\ t.siz \in Nat /\ t.nelem \in Nat
    /\ DOMAIN t.slot = 0..(t.siz - 1)
    /\ \A g \in 0..(t.siz - 1) : t.slot[g] \in Slots
    /\ IsFiniteSet(LiveSlots(t)) /\ t.nelem = Cardinality(LiveSlots(t))

NewTable(p) == [siz |-> p, nelem |-> 0, slot |-> [g \in 0..(p - 1) |-> Invalid]]

LEMMA NewIsSound ==
  ASSUME NEW p \in Nat, IsPrime(p)
  PROVE  /\ Sound(NewTable(p)) /\ NewTable(p).siz = p /\ NewTable(p).nelem = 0
         /\ LiveEntries(NewTable(p)) = {} /\ NewTable(p) \in Tables(p)
<1>1. PICK u : u = NewTable(p)
  OBVIOUS
<1>2. u.siz = p /\ u.nelem = 0 /\ u.slot = [g \in 0..(p - 1) |-> Invalid]
  BY <1>1 DEF NewTable
<1>3. u \in Tables(p)
  BY <1>1, SlotFacts DEF NewTable, Tables
<1>4. LiveSlots(u) = {}
  BY <1>2, SlotFacts DEF LiveSlots
<1>5. LiveEntries(u) = {}
  BY <1>4 DEF LiveEntries
<1>6. Sound(u)
  BY <1>2, <1>3, <1>4, FS_EmptySet DEF Sound, Shaped
<1>7. QED
  BY <1>1, <1>2, <1>3, <1>5, <1>6

MovingRun(t, new, f) ==
    f = [n \in 0..t.siz |->
            IF n = 0 THEN new
            ELSE IF t.slot[n - 1].live THEN HInsert0(f[n - 1], t.slot[n - 1].e)
            ELSE f[n - 1]]

LEMMA RehashRuns ==
  ASSUME NEW t, Counted(t), NEW n \in Nat
  PROVE  \E f : /\ MovingRun(t, NewTable(NextPrime[n]), f)
                /\ Rehash(t, n) = f[t.siz]
<1>1. PICK p \in Nat : p = NextPrime[n] /\ IsPrime(p)
  BY NextPrimeIsFirst DEF FirstPrime
<1>2. PICK N \in Nat : N = t.siz
  BY DEF Counted
<1>3. PICK body : body = [x \in (1..N) \X Tables(p) |->
                            IF t.slot[x[1] - 1].live THEN HInsert0(x[2], t.slot[x[1] - 1].e)
                            ELSE x[2]]
  OBVIOUS
<1>4. ASSUME NEW i \in 1..N, NEW u \in Tables(p)
      PROVE  /\ body[i, u] = IF t.slot[i - 1].live THEN HInsert0(u, t.slot[i - 1].e) ELSE u
             /\ body[i, u] \in Tables(p)
  <2>1. body[i, u] = IF t.slot[i - 1].live THEN HInsert0(u, t.slot[i - 1].e) ELSE u
    <3>1. <<i, u>> \in (1..N) \X Tables(p)
      OBVIOUS
    <3>2. <<i, u>>[1] = i /\ <<i, u>>[2] = u
      OBVIOUS
    <3>3. QED
      BY <1>3, <3>1, <3>2, Zenon
  <2>2. ASSUME t.slot[i - 1].live PROVE HInsert0(u, t.slot[i - 1].e) \in Tables(p)
    <3>1. t.slot[i - 1] \in Slots
      BY <1>2 DEF Counted
    <3>2. PICK e \in Entries : e = t.slot[i - 1].e
      BY <2>2, <3>1, SlotFacts, Zenon
    <3>3. u.siz = p
      BY DEF Tables
    <3>4. Shaped(u)
      BY <1>1, <3>3 DEF Shaped
    <3>5. QED
      BY <3>2, <3>3, <3>4, InsertShape DEF Shaped
  <2>3. QED
    BY <2>1, <2>2
<1>5. body \in [(1..N) \X Tables(p) -> Tables(p)]
  <2>1. ASSUME NEW x \in (1..N) \X Tables(p) PROVE body[x] \in Tables(p)
    <3>1. PICK i \in 1..N, u \in Tables(p) : x = <<i, u>>
      OBVIOUS
    <3>2. QED
      BY <1>4, <3>1, Zenon
  <2>2. body = [x \in (1..N) \X Tables(p) |-> body[x]]
    BY <1>3
  <2>3. QED
    BY <2>1, <2>2
<1>6. PICK f : LoopRun(N, Tables(p), NewTable(p), body, f)
  BY <1>1, <1>5, LoopRuns, NewIsSound
<1>7. f \in [0..N -> Tables(p)] /\ f[0] = NewTable(p)
        /\ \A k \in 1..N : f[k] = body[k, f[k - 1]]
  BY <1>6 DEF LoopRun
<1>8. ASSUME NEW k \in 0..N
      PROVE  f[k] = IF k = 0 THEN NewTable(p)
                    ELSE IF t.slot[k - 1].live THEN HInsert0(f[k - 1], t.slot[k - 1].e)
                    ELSE f[k - 1]
  <2>1. CASE k = 0
    BY <1>7, <2>1
  <2>2. CASE k # 0
    <3>1. k \in 1..N /\ k - 1 \in 0..N
      BY <2>2
    <3>2. f[k - 1] \in Tables(p) /\ f[k] = body[k, f[k - 1]]
      BY <1>7, <3>1, Zenon
    <3>3. QED
      BY <1>4, <2>2, <3>1, <3>2, Zenon
  <2>3. QED
    BY <2>1, <2>2
<1>9. MovingRun(t, NewTable(p), f)
  <2>1. f = [k \in 0..N |-> f[k]]
    BY <1>7
  <2>2. QED
    BY <1>2, <1>8, <2>1, Zenon DEF MovingRun
<1>10. PICK h : h = CHOOSE g : MovingRun(t, NewTable(p), g)
  OBVIOUS
<1>11. MovingRun(t, NewTable(p), h)
  BY <1>9, <1>10, Zenon
<1>12. Rehash(t, n) = h[t.siz]
  BY <1>1, <1>10, Zenon DEF Rehash, NewTable, MovingRun
<1>13. QED
  BY <1>1, <1>11, <1>12

\* rehash moves every live entry and leaves the killed slots behind.
LEMMA RehashIsSound ==
  ASSUME NEW t, Counted(t), NEW n \in Nat, t.nelem < n
  PROVE  /\ Sound(Rehash(t, n)) /\ Rehash(t, n).siz >= n
         /\ Rehash(t, n).nelem = t.nelem
         /\ LiveEntries(Rehash(t, n)) = LiveEntries(t)
<1>1. PICK p \in Nat : p = NextPrime[n] /\ IsPrime(p) /\ p >= n
  BY NextPrimeIsFirst DEF FirstPrime
<1>2. PICK f : MovingRun(t, NewTable(p), f) /\ Rehash(t, n) = f[t.siz]
  BY <1>1, RehashRuns
<1>3. PICK N \in Nat : N = t.siz
  BY DEF Counted
<1>4. \A k \in 0..N :
        f[k] = IF k = 0 THEN NewTable(p)
               ELSE IF t.slot[k - 1].live THEN HInsert0(f[k - 1], t.slot[k - 1].e)
               ELSE f[k - 1]
  BY <1>2, <1>3, Zenon DEF MovingRun
<1> DEFINE Before(k) == {g \in LiveSlots(t) : g < k}
           Moved(k) == /\ Sound(f[k]) /\ f[k].siz = p /\ f[k].nelem = Cardinality(Before(k))
                       /\ LiveEntries(f[k]) = {t.slot[g].e : g \in Before(k)}
<1>5. /\ \A g \in LiveSlots(t) : g \in 0..(N - 1)
      /\ \A g \in 0..(N - 1) : g \in LiveSlots(t) <=> t.slot[g].live
  BY <1>3 DEF Counted, LiveSlots
<1>6. PICK S : S = {k \in 0..N : Moved(k)}
  OBVIOUS
<1>7. 0 \in S
  <2>1. Before(0) = {}
    BY <1>5
  <2>2. f[0] = NewTable(p)
    BY <1>4
  <2>3. Moved(0)
    BY <1>1, <2>1, <2>2, NewIsSound, FS_EmptySet
  <2>4. QED
    BY <1>6, <2>3
<1>8. ASSUME NEW k \in 1..N, k - 1 \in S PROVE k \in S
  <2>1. Moved(k - 1) /\ k \in 0..N /\ k # 0 /\ k - 1 \in 0..(N - 1)
    BY <1>6, <1>8
  <2>2. CASE ~t.slot[k - 1].live
    <3>1. f[k] = f[k - 1]
      BY <1>4, <2>1, <2>2
    <3>2. Before(k) = Before(k - 1)
      <4>1. k - 1 \notin LiveSlots(t)
        BY <1>5, <2>1, <2>2
      <4>2. \A g \in LiveSlots(t) : g < k <=> g < k - 1
        BY <1>5, <2>1, <4>1
      <4>3. QED
        BY <4>2
    <3>3. QED
      BY <1>6, <2>1, <3>1, <3>2
  <2>3. CASE t.slot[k - 1].live
    <3>1. f[k] = HInsert0(f[k - 1], t.slot[k - 1].e)
      BY <1>4, <2>1, <2>3
    <3>2. PICK e \in Entries : e = t.slot[k - 1].e
      <4>1. t.slot[k - 1] \in Slots
        BY <1>3, <2>1 DEF Counted
      <4>2. QED
        BY <2>3, <4>1, SlotFacts, Zenon
    <3>3. PICK A, B : A = Before(k - 1) /\ B = Before(k)
      OBVIOUS
    <3>4. B = A \cup {k - 1} /\ k - 1 \notin A
      <4>1. k - 1 \in LiveSlots(t)
        BY <1>5, <2>1, <2>3
      <4>2. \A g \in LiveSlots(t) : g < k <=> g < k - 1 \/ g = k - 1
        BY <1>5, <2>1
      <4>3. ~ (k - 1 < k - 1)
        BY <2>1
      <4>4. QED
        BY <3>3, <4>1, <4>2, <4>3
    <3>5. /\ IsFiniteSet(A) /\ Cardinality(B) = Cardinality(A) + 1
          /\ Cardinality(A) <= t.nelem /\ Cardinality(A) \in Nat
      <4>1. A \in SUBSET LiveSlots(t)
        BY <3>3
      <4>2. IsFiniteSet(A) /\ Cardinality(A) <= t.nelem
        BY <4>1, FS_Subset DEF Counted
      <4>3. QED
        BY <3>4, <4>2, FS_AddElement, FS_CardinalityType
    <3>6. PICK u : u = f[k - 1]
      OBVIOUS
    <3>7. /\ Sound(u) /\ u.siz = p /\ u.nelem = Cardinality(A)
          /\ LiveEntries(u) = {t.slot[g].e : g \in A}
      BY <2>1, <3>3, <3>6
    <3>8. u.nelem < u.siz
      BY <1>1, <3>5, <3>7 DEF Counted
    <3>9. PICK w : w = HInsert0(u, e) /\ w = f[k]
      BY <3>1, <3>2, <3>6
    <3>10. /\ Sound(w) /\ w.siz = p /\ w.nelem = Cardinality(B)
           /\ LiveEntries(w) = {t.slot[g].e : g \in A} \cup {e}
      BY <3>5, <3>7, <3>8, <3>9, InsertIsSound
    <3>11. LiveEntries(w) = {t.slot[g].e : g \in B}
      BY <3>2, <3>4, <3>10
    <3>12. Moved(k)
      BY <3>3, <3>9, <3>10, <3>11
    <3>13. QED
      BY <1>6, <2>1, <3>12
  <2>4. QED
    BY <2>2, <2>3
<1>9. Moved(N)
  <2>1. \A k \in 0..N : k \in S
    BY <1>7, <1>8, LoopStaysIn
  <2>2. N \in 0..N
    OBVIOUS
  <2>3. QED
    BY <1>6, <2>1, <2>2
<1>10. Before(N) = LiveSlots(t)
  BY <1>5
<1>11. Cardinality(LiveSlots(t)) = t.nelem
  BY DEF Counted
<1>12. PICK u : u = Rehash(t, n) /\ u = f[N]
  BY <1>2, <1>3
<1>13. Sound(u) /\ u.siz = p /\ u.nelem = t.nelem
  BY <1>9, <1>10, <1>11, <1>12
<1>14. LiveEntries(u) = LiveEntries(t)
  BY <1>9, <1>10, <1>12 DEF LiveEntries
<1>15. QED
  BY <1>1, <1>12, <1>13, <1>14

LEMMA SoundIsCounted == \A t : Sound(t) => Counted(t)
<1> SUFFICES ASSUME NEW t, Sound(t) PROVE Counted(t)
  OBVIOUS
<1>1. Shaped(t) /\ t.nelem = Cardinality(LiveSlots(t))
  BY DEF Sound
<1>2. QED
  BY <1>1, TableFacts DEF Counted

LEMMA SizesGrow == \A n \in Nat : minsz(n) \in Nat /\ minsz(n) > n
                                    /\ nextsz(n) \in Nat /\ nextsz(n) > n + 1
BY DEF minsz, nextsz

\* hgrow makes room for one more entry and a slot that is not live beside it.
LEMMA GrowIsSound ==
  ASSUME NEW t, Counted(t), Sound(t) \/ t.siz = 0
  PROVE  /\ Sound(HGrow(t)) /\ HGrow(t).nelem = t.nelem
         /\ t.nelem + 1 < HGrow(t).siz
         /\ LiveEntries(HGrow(t)) = LiveEntries(t)
<1>1. t.nelem \in Nat /\ t.siz \in Nat
  BY DEF Counted
<1>2. PICK m \in Nat, n \in Nat :
        m = minsz(t.nelem) /\ n = nextsz(t.nelem) /\ m > t.nelem /\ n > t.nelem + 1
  BY <1>1, SizesGrow
<1>3. CASE m >= t.siz
  <2>1. HGrow(t) = Rehash(t, n)
    BY <1>2, <1>3 DEF HGrow
  <2>2. PICK u : u = Rehash(t, n)
    OBVIOUS
  <2>3. Sound(u) /\ u.siz >= n /\ u.nelem = t.nelem /\ LiveEntries(u) = LiveEntries(t)
    BY <1>1, <1>2, <2>2, RehashIsSound
  <2>4. u.siz \in Nat
    BY <2>3 DEF Sound, Shaped
  <2>5. QED
    BY <1>1, <1>2, <2>1, <2>2, <2>3, <2>4
<1>4. CASE ~ (m >= t.siz)
  <2>1. HGrow(t) = t
    BY <1>2, <1>4 DEF HGrow
  <2>2. t.siz # 0
    BY <1>4
  <2>3. QED
    BY <1>1, <1>2, <1>4, <2>1, <2>2
<1>5. QED
  BY <1>3, <1>4

\* mkhashtab: a table without entries.
LEMMA EmptyIsSound ==
  Sound(MkHashtab) /\ MkHashtab.nelem < MkHashtab.siz /\ LiveEntries(MkHashtab) = {}
<1>1. PICK t : t = [siz |-> 0, nelem |-> 0, slot |-> <<>>]
  OBVIOUS
<1>2. t.siz = 0 /\ t.nelem = 0 /\ DOMAIN t.slot = {}
  BY <1>1
<1>3. LiveSlots(t) = {} /\ LiveEntries(t) = {}
  BY <1>2 DEF LiveSlots, LiveEntries
<1>4. Counted(t)
  BY <1>2, <1>3, FS_EmptySet DEF Counted
<1>5. PICK u : u = MkHashtab /\ u = HGrow(t)
  BY <1>1 DEF MkHashtab
<1>6. Sound(u) /\ u.nelem = 0 /\ 1 < u.siz /\ LiveEntries(u) = {}
  BY <1>2, <1>3, <1>4, <1>5, GrowIsSound
<1>7. u.siz \in Nat
  BY <1>6 DEF Sound, Shaped
<1>8. QED
  BY <1>5, <1>6, <1>7

-----------------------------------------------------------------------------
(* Searches.                                                               *)

\* A search sees every live entry with its key, each once.
LEMMA ChainVisits ==
  ASSUME NEW t, Sound(t), NEW key, IsKey(key)
  PROVE  /\ DOMAIN Chain(t, key) \subseteq 1..t.siz
         /\ \A k \in DOMAIN Chain(t, key) : Chain(t, key)[k] \in 0..(t.siz - 1)
         /\ \A i, j \in DOMAIN Chain(t, key) : Chain(t, key)[i] = Chain(t, key)[j] => i = j
         /\ \A g \in LiveSlots(t) : t.slot[g].e.key = key =>
              \E k \in DOMAIN Chain(t, key) : Chain(t, key)[k] = g
<1>1. PICK o : o = Orbit(t.siz, key)
  OBVIOUS
<1>2. /\ t.siz \in Nat /\ o \in [1..t.siz -> 0..(t.siz - 1)]
      /\ \A i, j \in 1..t.siz : o[i] = o[j] => i = j
  <2>1. t.siz \in Nat /\ IsPrime(t.siz)
    BY DEF Sound, Shaped
  <2>2. QED
    <3>1. PICK p \in Nat : p = t.siz /\ IsPrime(p)
      BY <2>1
    <3>2. IsPrime(p) /\ IsKey(key)
      BY <3>1
    <3>3. Orbit(p, key) \in [1..p -> 0..(p - 1)]
      BY <3>2, OrbitVisits
    <3>4. \A i, j \in 1..p : Orbit(p, key)[i] = Orbit(p, key)[j] => i = j
      BY <3>2, OrbitVisits
    <3>5. QED
      BY <1>1, <3>1, <3>3, <3>4
<1>3. PICK D : D = {k \in DOMAIN o : \A j \in 1..k : t.slot[o[j]].valid}
  OBVIOUS
<1>4. PICK c : c = Chain(t, key) /\ c = [k \in D |-> o[k]]
  BY <1>1, <1>3 DEF Chain
<1>5. DOMAIN c = D /\ D \subseteq 1..t.siz /\ \A k \in D : c[k] = o[k] /\ o[k] \in 0..(t.siz - 1)
  BY <1>2, <1>3, <1>4
<1>6. ASSUME NEW g \in LiveSlots(t), t.slot[g].e.key = key PROVE \E k \in D : c[k] = g
  <2>1. PICK k \in 1..t.siz : o[k] = g /\ \A j \in 1..k : t.slot[o[j]].valid
    BY <1>1, <1>6 DEF Sound, Reached
  <2>2. k \in D
    BY <1>2, <1>3, <2>1
  <2>3. QED
    BY <1>5, <2>1, <2>2
<1>7. \A i, j \in D : c[i] = c[j] => i = j
  BY <1>2, <1>5
<1>8. /\ DOMAIN c \subseteq 1..t.siz /\ \A k \in DOMAIN c : c[k] \in 0..(t.siz - 1)
      /\ \A i, j \in DOMAIN c : c[i] = c[j] => i = j
      /\ \A g \in LiveSlots(t) : t.slot[g].e.key = key => \E k \in DOMAIN c : c[k] = g
  BY <1>5, <1>6, <1>7
<1>9. QED
  BY <1>4, <1>8, Zenon

KilledIn(t, c, e) ==
    {k \in DOMAIN c : Match(t, c[k], e.key) /\ Subsumes(e, t.slot[c[k]].e)}

SubsumedSlots(t, e) ==
    {g \in LiveSlots(t) : t.slot[g].e.key = e.key /\ Subsumes(e, t.slot[g].e)}

\* What htab_insert kills: all the entries that the new one subsumes.
LEMMA KilledAreSubsumed ==
  ASSUME NEW t, Sound(t), NEW e \in Entries,
         NEW c, c = Chain(t, e.key),
         NEW Killed, Killed = KilledIn(t, c, e),
         NEW D, D = SubsumedSlots(t, e)
  PROVE  /\ Killed \in SUBSET Nat
         /\ \A k \in Killed : c[k] \in D
         /\ \A g \in D : \E k \in Killed : c[k] = g
         /\ Cardinality(Killed) = Cardinality(D)
<1> USE DEF KilledIn, SubsumedSlots
<1>1. Shaped(t)
  BY DEF Sound
<1>2. /\ DOMAIN c \subseteq 1..t.siz /\ \A k \in DOMAIN c : c[k] \in 0..(t.siz - 1)
      /\ \A i, j \in DOMAIN c : c[i] = c[j] => i = j
      /\ \A g \in LiveSlots(t) : t.slot[g].e.key = e.key => \E k \in DOMAIN c : c[k] = g
  BY ChainVisits, KeyFacts
<1>3. t.siz \in Nat /\ \A g \in 0..(t.siz - 1) : g \in LiveSlots(t) <=> t.slot[g].live
  BY <1>1, TableFacts
<1>4. Killed \in SUBSET Nat /\ Killed \subseteq DOMAIN c
  BY <1>2, <1>3
<1>5. \A k \in Killed : c[k] \in D
  BY <1>2, <1>3 DEF Match
<1>6. ASSUME NEW g \in D PROVE \E k \in Killed : c[k] = g
  <2>1. t.slot[g].live /\ t.slot[g].e.key = e.key /\ Subsumes(e, t.slot[g].e)
    BY DEF LiveSlots
  <2>2. PICK k \in DOMAIN c : c[k] = g
    BY <1>2
  <2>3. QED
    BY <2>1, <2>2 DEF Match
<1>7. PICK f : f = [k \in Killed |-> c[k]]
  OBVIOUS
<1>8. f \in Bijection(Killed, D)
  <2>1. f \in [Killed -> D]
    BY <1>5, <1>7
  <2>2. IsInjective(f)
    BY <1>2, <1>4, <1>7 DEF IsInjective
  <2>3. \A g \in D : \E k \in Killed : f[k] = g
    BY <1>6, <1>7
  <2>4. QED
    BY <2>1, <2>2, <2>3 DEF Bijection, Injection, Surjection
<1>9. IsFiniteSet(Killed)
  <2>1. IsFiniteSet(1..t.siz)
    BY <1>3, FS_Interval
  <2>2. Killed \in SUBSET (1..t.siz)
    BY <1>2, <1>4
  <2>3. QED
    BY <2>1, <2>2, FS_Subset
<1>10. ExistsBijection(Killed, D)
  BY <1>8 DEF ExistsBijection
<1>11. Cardinality(Killed) = Cardinality(D)
  BY <1>9, <1>10, FS_Bijection
<1>12. QED
  BY <1>4, <1>5, <1>6, <1>11

\* htab_insert keeps the table sound, and what it leaves in the table is what
\* the set of entries becomes.
LEMMA HtabInsertIsSound ==
  ASSUME NEW t, Sound(t), t.nelem < t.siz, NEW e \in Entries
  PROVE  /\ Sound(HtabInsert(t, e)) /\ HtabInsert(t, e).nelem < HtabInsert(t, e).siz
         /\ LiveEntries(HtabInsert(t, e)) = Inserted(LiveEntries(t), e)
<1>1. Shaped(t) /\ t.nelem = Cardinality(LiveSlots(t))
  BY DEF Sound
<1>2. PICK c : c = Chain(t, e.key)
  OBVIOUS
<1>3. PICK Killed : Killed = KilledIn(t, c, e)
  OBVIOUS
<1>4. PICK D : D = SubsumedSlots(t, e)
  OBVIOUS
<1>5. /\ Killed \in SUBSET Nat /\ \A k \in Killed : c[k] \in D
      /\ \A g \in D : \E k \in Killed : c[k] = g
      /\ Cardinality(Killed) = Cardinality(D)
  BY <1>2, <1>3, <1>4, KilledAreSubsumed
<1>6. PICK first : first = c[CHOOSE k \in Killed : \A j \in Killed : k <= j]
  OBVIOUS
<1>7. HtabInsert(t, e) =
        IF Killed = {} THEN HInsert0(HGrow(t), e)
        ELSE [t EXCEPT
                !.nelem = @ - Cardinality(Killed) + 1,
                !.slot = [g \in DOMAIN @ |->
                            IF g = first THEN Filled(e)
                            ELSE IF \E k \in Killed : c[k] = g THEN Dead
                            ELSE @[g]]]
  BY <1>2, <1>3, <1>6, ZenonT(60) DEF HtabInsert, KilledIn
<1>8. PICK u : u = HtabInsert(t, e)
  OBVIOUS
<1>9. CASE Killed = {}
  <2>1. D = {}
    BY <1>5, <1>9
  <2>2. PICK w : w = HGrow(t)
    OBVIOUS
  <2>3. /\ Sound(w) /\ w.nelem = t.nelem /\ t.nelem + 1 < w.siz
        /\ LiveEntries(w) = LiveEntries(t)
    BY <2>2, SoundIsCounted, GrowIsSound
  <2>4. u = HInsert0(w, e)
    BY <1>7, <1>8, <1>9, <2>2
  <2>5. w.siz \in Nat /\ t.nelem \in Nat
    BY <1>1, <2>3, TableFacts DEF Sound
  <2>6. /\ Sound(u) /\ u.siz = w.siz /\ u.nelem = t.nelem + 1
        /\ LiveEntries(u) = LiveEntries(t) \cup {e}
    BY <2>3, <2>4, <2>5, InsertIsSound
  <2>7. Inserted(LiveEntries(t), e) = LiveEntries(t) \cup {e}
    <3>1. ASSUME NEW x \in LiveEntries(t) PROVE ~(x.key = e.key /\ Subsumes(e, x))
      BY <1>4, <2>1 DEF LiveEntries, SubsumedSlots
    <3>2. QED
      BY <3>1 DEF Inserted
  <2>8. QED
    BY <1>8, <2>3, <2>6, <2>7
<1>10. CASE Killed # {}
  <2>1. first \in D
    <3>1. \E x \in Killed : \A j \in Killed : x <= j
      BY <1>5, <1>10, Least
    <3>2. (CHOOSE k \in Killed : \A j \in Killed : k <= j) \in Killed
      BY <3>1, Zenon
    <3>3. QED
      BY <1>5, <1>6, <3>2
  <2>2. D \subseteq LiveSlots(t) /\ LiveSlots(t) \subseteq 0..(t.siz - 1)
    BY <1>1, <1>4, TableFacts DEF SubsumedSlots
  <2>3. PICK s : s = [g \in 0..(t.siz - 1) |->
                        IF g = first THEN Filled(e) ELSE IF g \in D THEN Dead ELSE t.slot[g]]
    OBVIOUS
  <2>4. u = [siz |-> t.siz, nelem |-> t.nelem - Cardinality(D) + 1, slot |-> s]
    <3>1. PICK r : r = [g \in DOMAIN t.slot |->
                            IF g = first THEN Filled(e)
                            ELSE IF \E k \in Killed : c[k] = g THEN Dead
                            ELSE t.slot[g]]
      OBVIOUS
    <3>2. r = s
      <4>1. DOMAIN t.slot = 0..(t.siz - 1)
        BY <1>1, TableFacts
      <4>2. \A g : (\E k \in Killed : c[k] = g) <=> g \in D
        BY <1>5
      <4>3. QED
        BY <2>3, <3>1, <4>1, <4>2
    <3>3. u = [t EXCEPT !.nelem = @ - Cardinality(Killed) + 1, !.slot = r]
      BY <1>7, <1>8, <1>10, <3>1
    <3>4. t = [siz |-> t.siz, nelem |-> t.nelem, slot |-> t.slot]
      BY <1>1, TableFacts
    <3>5. QED
      BY <1>5, <3>2, <3>3, <3>4
  <2>5. u.siz = t.siz /\ u.nelem = t.nelem - Cardinality(D) + 1 /\ u.slot = s
    BY <2>4
  <2>6. /\ IsFiniteSet(D) /\ Cardinality(D) \in Nat /\ Cardinality(D) >= 1
        /\ Cardinality(D) <= t.nelem /\ t.nelem \in Nat /\ t.siz \in Nat
    <3>1. IsFiniteSet(LiveSlots(t)) /\ D \in SUBSET LiveSlots(t)
      BY <1>1, <2>2, TableFacts
    <3>2. IsFiniteSet(D) /\ Cardinality(D) <= t.nelem
      BY <1>1, <3>1, FS_Subset
    <3>3. Cardinality(D) \in Nat /\ Cardinality(D) # 0
      BY <2>1, <3>2, FS_CardinalityType, FS_EmptySet
    <3>4. QED
      BY <1>1, <3>2, <3>3, TableFacts
  <2>7. \A g \in 0..(t.siz - 1) : s[g] \in Slots
    BY <1>1, <2>3, TableFacts, SlotFacts
  <2>8. Shaped(u)
    <3>1. s \in [0..(t.siz - 1) -> Slots]
      BY <2>3, <2>7
    <3>2. t.nelem - Cardinality(D) + 1 \in Nat
      BY <2>6
    <3>3. u \in Tables(t.siz)
      BY <2>4, <2>6, <3>1, <3>2 DEF Tables
    <3>4. QED
      BY <1>1, <2>5, <3>3 DEF Shaped
  <2>9. /\ s[first] = Filled(e)
        /\ \A g \in LiveSlots(t) \ D : s[g] = t.slot[g]
        /\ \A g \in D : g # first => s[g] = Dead
        /\ \A g \in 0..(t.siz - 1) : g \notin D => s[g] = t.slot[g]
    BY <2>1, <2>2, <2>3
  <2>10. LiveSlots(u) = (LiveSlots(t) \ D) \cup {first}
    <3>1. ASSUME NEW g \in 0..(t.siz - 1)
          PROVE  g \in LiveSlots(u) <=> (g \in LiveSlots(t) /\ g \notin D) \/ g = first
      <4>1. g \in LiveSlots(u) <=> s[g].live
        BY <2>5, <2>8, TableFacts
      <4>2. CASE g = first
        BY <2>9, <4>1, <4>2, SlotFacts
      <4>3. CASE g # first /\ g \in D
        BY <2>9, <4>1, <4>3, SlotFacts
      <4>4. CASE g \notin D
        <5>1. g # first /\ s[g] = t.slot[g]
          BY <2>1, <2>9, <4>4
        <5>2. QED
          BY <1>1, <4>1, <4>4, <5>1, TableFacts
      <4>5. QED
        BY <4>2, <4>3, <4>4
    <3>2. LiveSlots(u) \subseteq 0..(t.siz - 1) /\ first \in 0..(t.siz - 1)
      BY <2>1, <2>2, <2>5, <2>8, TableFacts
    <3>3. QED
      BY <2>2, <3>1, <3>2
  <2>11. u.nelem = Cardinality(LiveSlots(u))
    <3>1. /\ IsFiniteSet(LiveSlots(t)) /\ LiveSlots(t) \cap D = D
          /\ Cardinality(LiveSlots(t)) = t.nelem
      BY <1>1, <2>2, TableFacts
    <3>2. /\ IsFiniteSet(LiveSlots(t) \ D)
          /\ Cardinality(LiveSlots(t) \ D) = t.nelem - Cardinality(D)
      <4>1. /\ IsFiniteSet(LiveSlots(t) \ D)
            /\ Cardinality(LiveSlots(t) \ D) =
                 Cardinality(LiveSlots(t)) - Cardinality(LiveSlots(t) \cap D)
        BY <3>1, FS_Difference, Zenon
      <4>2. QED
        BY <3>1, <4>1
    <3>3. first \notin LiveSlots(t) \ D
      BY <2>1
    <3>4. Cardinality((LiveSlots(t) \ D) \cup {first}) = Cardinality(LiveSlots(t) \ D) + 1
      BY <3>2, <3>3, FS_AddElement
    <3>5. QED
      BY <2>5, <2>10, <3>2, <3>4
  <2>12. ASSUME NEW g \in 0..(t.siz - 1), t.slot[g].valid PROVE s[g].valid
    BY <2>9, <2>12, SlotFacts
  <2>13. ASSUME NEW g \in LiveSlots(t), NEW key, key = t.slot[g].e.key PROVE Reached(u, g, key)
    <3>1. IsKey(key)
      <4>1. t.slot[g] \in Slots /\ t.slot[g].live
        BY <1>1, TableFacts
      <4>2. QED
        BY <2>13, <4>1, SlotFacts, KeyFacts
    <3>2. PICK n \in 1..t.siz : /\ Orbit(t.siz, key)[n] = g
                                /\ \A j \in 1..n : t.slot[Orbit(t.siz, key)[j]].valid
      BY <2>13 DEF Sound, Reached
    <3>3. ASSUME NEW j \in 1..n PROVE s[Orbit(t.siz, key)[j]].valid
      <4>1. j \in 1..t.siz
        BY <2>6
      <4>2. Orbit(t.siz, key) \in [1..t.siz -> 0..(t.siz - 1)]
        BY <1>1, <3>1, OrbitVisits DEF Shaped
      <4>3. Orbit(t.siz, key)[j] \in 0..(t.siz - 1)
        BY <4>1, <4>2
      <4>4. QED
        BY <2>12, <3>2, <4>3
    <3>4. QED
      BY <2>5, <3>2, <3>3 DEF Reached
  <2>14. ASSUME NEW g \in LiveSlots(u) PROVE Reached(u, g, u.slot[g].e.key)
    <3>1. CASE g = first
      <4>1. u.slot[g].e.key = e.key
        BY <2>5, <2>9, <3>1, SlotFacts
      <4>2. t.slot[g].e.key = e.key /\ g \in LiveSlots(t)
        BY <1>4, <2>1, <3>1 DEF SubsumedSlots
      <4>3. QED
        BY <2>13, <4>1, <4>2
    <3>2. CASE g # first
      <4>1. g \in LiveSlots(t) /\ u.slot[g] = t.slot[g]
        BY <2>5, <2>9, <2>10, <3>2
      <4>2. QED
        BY <2>13, <4>1
    <3>3. QED
      BY <3>1, <3>2
  <2>15. Sound(u)
    BY <2>8, <2>11, <2>14 DEF Sound
  <2>16. LiveEntries(u) = Inserted(LiveEntries(t), e)
    <3>1. LiveEntries(u) = {t.slot[g].e : g \in LiveSlots(t) \ D} \cup {e}
      <4>1. \A g \in LiveSlots(t) \ D : u.slot[g].e = t.slot[g].e
        BY <2>5, <2>9
      <4>2. u.slot[first].e = e
        BY <2>5, <2>9, SlotFacts
      <4>3. QED
        BY <2>10, <4>1, <4>2, ZenonT(60) DEF LiveEntries
    <3>2. {t.slot[g].e : g \in LiveSlots(t) \ D} =
            {x \in LiveEntries(t) : ~(x.key = e.key /\ Subsumes(e, x))}
      BY <1>4 DEF LiveEntries, SubsumedSlots
    <3>3. QED
      BY <3>1, <3>2 DEF Inserted
  <2>17. QED
    BY <1>8, <2>5, <2>6, <2>15, <2>16
<1>11. QED
  BY <1>9, <1>10

-----------------------------------------------------------------------------
(* Answers.                                                                *)

Answering(t, g, key, flags) == Match(t, g, key) /\ Subsumes(t.slot[g].e, flags)

SearchRun(t, chain, key, flags, f) ==
    f = [k \in 0..t.siz |->
            IF k = 0 THEN NoSlot
            ELSE IF k \in DOMAIN chain /\ Answering(t, chain[k], key, flags)
                 THEN Better(t, f[k - 1], chain[k])
            ELSE f[k - 1]]

LEMMA LookupRuns ==
  ASSUME NEW t, Sound(t), NEW key, IsKey(key), NEW flags
  PROVE  \E f : SearchRun(t, Chain(t, key), key, flags, f) /\ Lookup(t, key, flags) = f[t.siz]
<1>1. PICK N \in Nat : N = t.siz
  BY DEF Sound, Shaped
<1>2. PICK c : c = Chain(t, key)
  OBVIOUS
<1>3. \A k \in DOMAIN c : c[k] \in 0..(N - 1)
  BY <1>1, <1>2, ChainVisits
<1>4. PICK V : V = {NoSlot} \cup 0..(N - 1)
  OBVIOUS
<1>5. PICK body : body = [x \in (1..N) \X V |->
                            IF x[1] \in DOMAIN c /\ Answering(t, c[x[1]], key, flags)
                            THEN Better(t, x[2], c[x[1]])
                            ELSE x[2]]
  OBVIOUS
<1>6. ASSUME NEW k \in 1..N, NEW b \in V
      PROVE  /\ body[k, b] = IF k \in DOMAIN c /\ Answering(t, c[k], key, flags)
                             THEN Better(t, b, c[k]) ELSE b
             /\ body[k, b] \in V
  <2>1. body[k, b] = IF k \in DOMAIN c /\ Answering(t, c[k], key, flags)
                     THEN Better(t, b, c[k]) ELSE b
    <3>1. <<k, b>> \in (1..N) \X V
      OBVIOUS
    <3>2. <<k, b>>[1] = k /\ <<k, b>>[2] = b
      OBVIOUS
    <3>3. QED
      BY <1>5, <3>1, <3>2, Zenon
  <2>2. ASSUME k \in DOMAIN c PROVE Better(t, b, c[k]) \in V
    <3>1. Better(t, b, c[k]) = b \/ Better(t, b, c[k]) = c[k]
      BY Zenon DEF Better
    <3>2. c[k] \in V
      BY <1>3, <1>4, <2>2
    <3>3. QED
      BY <3>1, <3>2
  <2>3. QED
    BY <2>1, <2>2
<1>7. body \in [(1..N) \X V -> V]
  <2>1. ASSUME NEW x \in (1..N) \X V PROVE body[x] \in V
    <3>1. PICK k \in 1..N, b \in V : x = <<k, b>>
      OBVIOUS
    <3>2. QED
      BY <1>6, <3>1, Zenon
  <2>2. body = [x \in (1..N) \X V |-> body[x]]
    BY <1>5
  <2>3. QED
    BY <2>1, <2>2
<1>8. PICK f : LoopRun(N, V, NoSlot, body, f)
  BY <1>4, <1>7, LoopRuns
<1>9. f \in [0..N -> V] /\ f[0] = NoSlot /\ \A k \in 1..N : f[k] = body[k, f[k - 1]]
  BY <1>8 DEF LoopRun
<1>10. ASSUME NEW k \in 0..N
       PROVE  f[k] = IF k = 0 THEN NoSlot
                     ELSE IF k \in DOMAIN c /\ Answering(t, c[k], key, flags)
                          THEN Better(t, f[k - 1], c[k])
                     ELSE f[k - 1]
  <2>1. CASE k = 0
    BY <1>9, <2>1
  <2>2. CASE k # 0
    <3>1. k \in 1..N /\ k - 1 \in 0..N
      BY <2>2
    <3>2. f[k - 1] \in V /\ f[k] = body[k, f[k - 1]]
      BY <1>9, <3>1, Zenon
    <3>3. QED
      BY <1>6, <2>2, <3>1, <3>2, Zenon
  <2>3. QED
    BY <2>1, <2>2
<1>11. SearchRun(t, c, key, flags, f)
  <2>1. f = [k \in 0..N |-> f[k]]
    BY <1>9
  <2>2. QED
    BY <1>1, <1>10, <2>1, Zenon DEF SearchRun
<1>12. PICK h : h = CHOOSE g : SearchRun(t, c, key, flags, g)
  OBVIOUS
<1>13. SearchRun(t, c, key, flags, h)
  BY <1>11, <1>12, Zenon
<1>14. Lookup(t, key, flags) = h[t.siz]
  BY <1>2, <1>12, Zenon DEF Lookup, SearchRun, Answering
<1>15. QED
  BY <1>2, <1>13, <1>14

\* htab_lookup returns a slot that answers the request if there is one, and
\* then none that answers it has a lower u.
LEMMA LookupFindsBest ==
  ASSUME NEW t, Sound(t), NEW key, IsKey(key), NEW flags, NEW best,
         best = Lookup(t, key, flags),
         NEW A, A = {g \in LiveSlots(t) : Answering(t, g, key, flags)}
  PROVE  \/ best = NoSlot /\ A = {}
         \/ /\ best # NoSlot /\ best \in A
            /\ \A g \in A : t.slot[g].e.u \subseteq t.slot[best].e.u =>
                                t.slot[best].e.u \subseteq t.slot[g].e.u
<1>1. PICK N \in Nat : N = t.siz
  BY DEF Sound, Shaped
<1>2. PICK c : c = Chain(t, key)
  OBVIOUS
<1>3. /\ DOMAIN c \subseteq 1..N
      /\ \A k \in DOMAIN c : c[k] \in 0..(N - 1)
      /\ \A g \in LiveSlots(t) : t.slot[g].e.key = key => \E k \in DOMAIN c : c[k] = g
  BY <1>1, <1>2, ChainVisits
<1>4. PICK f : SearchRun(t, c, key, flags, f) /\ best = f[N]
  BY <1>1, <1>2, LookupRuns
<1>5. \A k \in 0..N :
        f[k] = IF k = 0 THEN NoSlot
               ELSE IF k \in DOMAIN c /\ Answering(t, c[k], key, flags)
                    THEN Better(t, f[k - 1], c[k])
               ELSE f[k - 1]
  BY <1>1, <1>4, Zenon DEF SearchRun
<1>6. PICK M : M = {k \in DOMAIN c : Answering(t, c[k], key, flags)}
  OBVIOUS
<1>7. \A k \in M : c[k] \in A
  <2>1. \A g \in 0..(N - 1) : g \in LiveSlots(t) <=> t.slot[g].live
    BY <1>1, TableFacts DEF Sound
  <2>2. QED
    BY <1>3, <1>6, <2>1 DEF Answering, Match
<1>8. \A g \in A : \E k \in M : c[k] = g
  <2>1. TAKE g \in A
  <2>2. g \in LiveSlots(t) /\ t.slot[g].e.key = key /\ Answering(t, g, key, flags)
    BY DEF Answering, Match
  <2>3. QED
    BY <1>3, <1>6, <2>2
<1> DEFINE u(g) == t.slot[g].e.u
           Best(k, b) ==
              \/ b = NoSlot /\ \A j \in M : ~ (j <= k)
              \/ \E i \in M : /\ b = c[i] /\ i <= k
                              /\ \A j \in M : j <= k /\ u(c[j]) \subseteq u(c[i])
                                                => u(c[i]) \subseteq u(c[j])
<1>9. M \subseteq 1..N /\ \A k \in M : c[k] # NoSlot
  BY <1>3, <1>6 DEF NoSlot
<1>10. PICK S : S = {k \in 0..N : Best(k, f[k])}
  OBVIOUS
<1>11. 0 \in S
  <2>1. f[0] = NoSlot
    BY <1>5
  <2>2. \A j \in M : ~ (j <= 0)
    BY <1>9
  <2>3. Best(0, f[0])
    BY <2>1, <2>2
  <2> HIDE DEF Best
  <2>4. QED
    BY <1>10, <2>3
<1>12. ASSUME NEW k \in 1..N, k - 1 \in S PROVE k \in S
  <2>1. Best(k - 1, f[k - 1]) /\ k \in 0..N /\ k # 0
    <3> HIDE DEF Best
    <3>1. QED
      BY <1>10, <1>12
  <2>2. \A j \in M : j <= k <=> j <= k - 1 \/ j = k
    BY <1>9
  <2>3. PICK a, b : a = f[k - 1] /\ b = f[k]
    OBVIOUS
  <2>4. CASE k \notin M
    <3>1. b = a
      BY <1>5, <1>6, <2>1, <2>3, <2>4
    <3>2. \A j \in M : j <= k <=> j <= k - 1
      BY <2>2, <2>4
    <3>3. Best(k, b)
      BY <2>1, <2>3, <3>1, <3>2, Zenon
    <3> HIDE DEF Best
    <3>4. QED
      BY <1>10, <2>1, <2>3, <3>3
  <2>5. CASE k \in M
    <3>1. b = IF a = NoSlot \/ u(c[k]) \subseteq u(a) THEN c[k] ELSE a
      <4>1. b = Better(t, a, c[k])
        BY <1>5, <1>6, <2>1, <2>3, <2>5
      <4>2. QED
        BY <4>1, Zenon DEF Better
    <3>2. k <= k
      OBVIOUS
    <3>3. CASE a = NoSlot
      <4>1. \A j \in M : ~ (j <= k - 1)
        BY <1>9, <2>1, <2>3, <3>3, Zenon
      <4>2. b = c[k]
        BY <3>1, <3>3
      <4>3. \A j \in M : j <= k => j = k
        BY <2>2, <4>1
      <4>4. Best(k, b)
        BY <2>5, <3>2, <4>2, <4>3, Zenon
      <4> HIDE DEF Best
      <4>5. QED
        BY <1>10, <2>1, <2>3, <4>4
    <3>4. CASE a # NoSlot
      <4>1. PICK i \in M : /\ a = c[i] /\ i <= k - 1
                           /\ \A j \in M : j <= k - 1 /\ u(c[j]) \subseteq u(c[i])
                                             => u(c[i]) \subseteq u(c[j])
        BY <2>1, <2>3, <3>4, Zenon
      <4>2. i <= k
        BY <2>2, <4>1
      <4> HIDE DEF u
      <4>3. CASE u(c[k]) \subseteq u(c[i])
        <5>1. b = c[k]
          BY <3>1, <4>1, <4>3
        <5>2. ASSUME NEW j \in M, j <= k, u(c[j]) \subseteq u(c[k])
              PROVE  u(c[k]) \subseteq u(c[j])
          <6>1. CASE j = k
            BY <6>1
          <6>2. CASE j # k
            <7>1. j <= k - 1 /\ u(c[j]) \subseteq u(c[i])
              BY <2>2, <4>3, <5>2, <6>2
            <7>2. u(c[i]) \subseteq u(c[j])
              BY <4>1, <7>1
            <7>3. QED
              BY <4>3, <7>2
          <6>3. QED
            BY <6>1, <6>2
        <5>3. Best(k, b)
          BY <2>5, <3>2, <5>1, <5>2, Zenon
        <5> HIDE DEF Best
        <5>4. QED
          BY <1>10, <2>1, <2>3, <5>3
      <4>4. CASE ~ (u(c[k]) \subseteq u(c[i]))
        <5>1. b = c[i]
          BY <3>1, <3>4, <4>1, <4>4
        <5>2. ASSUME NEW j \in M, j <= k, u(c[j]) \subseteq u(c[i])
              PROVE  u(c[i]) \subseteq u(c[j])
          <6>1. j # k
            BY <4>4, <5>2
          <6>2. QED
            BY <2>2, <4>1, <5>2, <6>1
        <5>3. Best(k, b)
          BY <4>2, <5>1, <5>2, Zenon
        <5> HIDE DEF Best
        <5>4. QED
          BY <1>10, <2>1, <2>3, <5>3
      <4>5. QED
        BY <4>3, <4>4
    <3>5. QED
      BY <3>3, <3>4
  <2>6. QED
    BY <2>4, <2>5
<1>13. Best(N, best)
  <2> HIDE DEF Best
  <2>1. \A k \in 0..N : k \in S
    BY <1>11, <1>12, LoopStaysIn
  <2>2. N \in 0..N
    OBVIOUS
  <2>3. QED
    BY <1>4, <1>10, <2>1, <2>2
<1>14. \A j \in M : j <= N
  BY <1>9
<1>15. CASE best = NoSlot
  <2>1. M = {}
    BY <1>9, <1>13, <1>14, <1>15, Zenon
  <2>2. QED
    BY <1>8, <1>15, <2>1
<1>16. CASE best # NoSlot
  <2>1. PICK i \in M : /\ best = c[i]
                       /\ \A j \in M : u(c[j]) \subseteq u(c[i]) => u(c[i]) \subseteq u(c[j])
    BY <1>13, <1>14, <1>16, Zenon
  <2>2. QED
    BY <1>7, <1>8, <1>16, <2>1, Zenon
<1>17. QED
  BY <1>15, <1>16

-----------------------------------------------------------------------------
(* The planner's table.                                                    *)

\* The inductive invariant: the table and the backup are sound, and neither is
\* full of live entries.
TablesSound ==
    /\ Sound(ht) /\ ht.nelem < ht.siz
    /\ Sound(old) /\ old.nelem < old.siz
    /\ importing \in BOOLEAN

LEMMA InitTables == Init => TablesSound
BY EmptyIsSound DEF Init, TablesSound

LEMMA StepTables == TablesSound /\ [Next]_vars => TablesSound'
<1> SUFFICES ASSUME TablesSound, [Next]_vars PROVE TablesSound'
  OBVIOUS
<1> USE DEF TablesSound
<1>1. ASSUME NEW e \in Entries, Insert(e) PROVE TablesSound'
  <2>1. PICK t, u : t = ht /\ u = ht' /\ u = HtabInsert(t, e)
    BY <1>1 DEF Insert
  <2>2. Sound(u) /\ u.nelem < u.siz
    BY <2>1, HtabInsertIsSound
  <2>3. old' = old /\ importing' = importing
    BY <1>1 DEF Insert
  <2>4. QED
    BY <2>1, <2>2, <2>3
<1>2. CASE Forget
  BY <1>2, EmptyIsSound DEF Forget
<1>3. CASE StartImport
  BY <1>3 DEF StartImport
<1>4. CASE EndImport
  BY <1>4, EmptyIsSound DEF EndImport
<1>5. CASE BadImport
  BY <1>5, EmptyIsSound DEF BadImport
<1>6. CASE UNCHANGED vars
  BY <1>6 DEF vars
<1>7. QED
  BY <1>1, <1>2, <1>3, <1>4, <1>5, <1>6 DEF Next

LEMMA TablesStaySound == Spec => []TablesSound
BY InitTables, StepTables, PTL DEF Spec

LEMMA LiveKeys ==
  ASSUME NEW t, Sound(t), NEW g \in LiveSlots(t)
  PROVE  t.slot[g].e \in Entries /\ IsKey(t.slot[g].e.key)
<1>1. Shaped(t)
  BY DEF Sound
<1>2. t.slot[g] \in Slots /\ t.slot[g].live
  BY <1>1, TableFacts
<1>3. t.slot[g].e \in Entries
  BY <1>2, SlotFacts, Zenon
<1>4. QED
  BY <1>3, KeyFacts

\* However entries collide and are killed, and however often the table grows,
\* no search runs for ever, nelem is right and every live entry is found by
\* the search for its key.
THEOREM TableIsSound == Spec => []TableSound
<1>1. ASSUME TablesSound PROVE TableSound
  <2>1. PICK t : t = ht
    OBVIOUS
  <2>2. Sound(t) /\ t.nelem < t.siz /\ t.nelem = Cardinality(LiveSlots(t))
    BY <1>1, <2>1 DEF TablesSound, Sound
  <2>3. ASSUME NEW g \in LiveSlots(t)
        PROVE  \E k \in DOMAIN Chain(t, t.slot[g].e.key) : Chain(t, t.slot[g].e.key)[k] = g
    <3>1. PICK key : key = t.slot[g].e.key /\ IsKey(key)
      BY <2>2, LiveKeys
    <3>2. \E k \in DOMAIN Chain(t, key) : Chain(t, key)[k] = g
      BY <2>2, <3>1, ChainVisits
    <3>3. QED
      BY <3>1, <3>2
  <2>4. QED
    BY <2>1, <2>2, <2>3 DEF TableSound
<1>2. QED
  BY <1>1, TablesStaySound, PTL

\* htab_lookup answers a request exactly if some live entry does, and with one
\* whose u none of the others undercuts.
THEOREM LookupsAnswer == Spec => []LookupAnswers
<1>1. ASSUME TablesSound PROVE LookupAnswers
  <2>1. PICK t : t = ht
    OBVIOUS
  <2>2. Sound(t)
    BY <1>1, <2>1 DEF TablesSound
  <2>3. ASSUME NEW key \in Keys, NEW r,
               NEW g, g = Lookup(t, key, r),
               NEW found, found = IF g = NoSlot THEN {} ELSE {t.slot[g].e},
               NEW answers, answers = Answers(LiveEntries(t), key, r)
        PROVE  found \subseteq answers /\ (answers = {} <=> found = {})
    <3>1. IsKey(key)
      BY KeyFacts DEF Keys
    <3>2. PICK A : A = {i \in LiveSlots(t) : Answering(t, i, key, r)}
      OBVIOUS
    <3>3. PICK M : M = {x \in LiveEntries(t) : x.key = key /\ Subsumes(x, r)}
      OBVIOUS
    <3>4. answers = {x \in M : \A y \in M : y.u \subseteq x.u => x.u \subseteq y.u}
      BY <2>3, <3>3 DEF Answers
    <3>5. M = {t.slot[i].e : i \in A}
      <4>1. \A i \in LiveSlots(t) : t.slot[i].live
        BY DEF LiveSlots
      <4>2. QED
        BY <3>2, <3>3, <4>1 DEF LiveEntries, Answering, Match
    <3>6. \/ g = NoSlot /\ A = {}
          \/ /\ g # NoSlot /\ g \in A
             /\ \A i \in A : t.slot[i].e.u \subseteq t.slot[g].e.u =>
                               t.slot[g].e.u \subseteq t.slot[i].e.u
      BY <2>2, <2>3, <3>1, <3>2, LookupFindsBest
    <3>7. CASE g = NoSlot
      <4>1. M = {} /\ found = {}
        BY <2>3, <3>5, <3>6, <3>7
      <4>2. QED
        BY <3>4, <4>1
    <3>8. CASE g # NoSlot
      <4>1. PICK x : x = t.slot[g].e /\ found = {x}
        BY <2>3, <3>8
      <4>2. x \in M
        BY <3>5, <3>6, <3>8, <4>1
      <4>3. \A y \in M : y.u \subseteq x.u => x.u \subseteq y.u
        BY <3>5, <3>6, <3>8, <4>1, Zenon
      <4>4. x \in answers
        BY <3>4, <4>2, <4>3
      <4>5. QED
        BY <4>1, <4>4
    <3>9. QED
      BY <3>7, <3>8
  <2>4. QED
    BY <2>1, <2>3, Zenon DEF LookupAnswers
<1>2. QED
  BY <1>1, TablesStaySound, PTL

\* Every step of the table is a step of the set of its live entries.
LEMMA TableStepsAreSetSteps ==
  TablesSound /\ [Next]_vars => [Promise!Next]_(Promise!vars)
<1> SUFFICES ASSUME TablesSound, [Next]_vars PROVE [Promise!Next]_(Promise!vars)
  OBVIOUS
<1>1. ASSUME NEW e \in Entries, Insert(e) PROVE Promise!Insert(e)
  <2>1. PICK t, u : t = ht /\ u = ht' /\ u = HtabInsert(t, e)
    BY <1>1 DEF Insert
  <2>2. LiveEntries(u) = Inserted(LiveEntries(t), e)
    BY <2>1, HtabInsertIsSound DEF TablesSound
  <2>3. LiveEntries(ht') = Inserted(LiveEntries(ht), e)
    BY <2>1, <2>2
  <2>4. QED
    BY <1>1, <2>3 DEF Insert, Promise!Insert, Promise!Inserted, Promise!Subsumes,
                      Promise!Infeasible, Inserted, Subsumes, Infeasible
<1>2. ASSUME Forget PROVE Promise!Forget
  BY <1>2, EmptyIsSound DEF Forget, Promise!Forget
<1>3. ASSUME StartImport PROVE Promise!StartImport
  BY <1>3 DEF StartImport, Promise!StartImport
<1>4. ASSUME EndImport PROVE Promise!EndImport
  BY <1>4 DEF EndImport, Promise!EndImport
<1>5. ASSUME BadImport PROVE Promise!BadImport
  BY <1>5 DEF BadImport, Promise!BadImport
<1>6. ASSUME UNCHANGED vars PROVE UNCHANGED Promise!vars
  BY <1>6 DEF vars, Promise!vars
<1>7. QED
  BY <1>1, <1>2, <1>3, <1>4, <1>5, <1>6 DEF Next, Promise!Next

\* Slot by slot, the table does what WisdomSet says of the set of its live
\* entries: nothing is lost when slots are killed or the table grows.
THEOREM TableImplementsSet == Spec => WisdomSetImplemented
<1>1. Init => Promise!Init
  BY EmptyIsSound DEF Init, Promise!Init
<1>2. QED
  BY <1>1, TableStepsAreSetSteps, TablesStaySound, PTL
     DEF Spec, WisdomSetImplemented, Promise!Spec

\* The table and its backup only hold entries that were inserted.
THEOREM EntriesAreInserted == Spec => []Promise!TypeOK
<1>1. ASSUME NEW t, Sound(t) PROVE LiveEntries(t) \subseteq Entries
  BY <1>1, LiveKeys DEF LiveEntries
<1>2. TablesSound => Promise!TypeOK
  BY <1>1 DEF TablesSound, Promise!TypeOK
<1>3. QED
  BY <1>2, TablesStaySound, PTL

=============================================================================
