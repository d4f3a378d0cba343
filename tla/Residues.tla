------------------------------ MODULE Residues ------------------------------
(***************************************************************************)
(* Arithmetic modulo m, for the proofs about the scheme: induction over    *)
(* the natural numbers with sets, sums, products and powers, inverses      *)
(* modulo a prime, Fermat's little theorem, and Lagrange interpolation     *)
(* at 0.  Nothing here is about the program.                               *)
(***************************************************************************)
EXTENDS Integers, WellFoundedInduction, TLAPS

-----------------------------------------------------------------------------
(* Induction, with a set of numbers in place of a predicate. *)

(* A set of natural numbers has a least element. *)
LEMMA Least ==
    ASSUME NEW S, S \subseteq Nat, S # {}
    PROVE  \E x \in S : \A y \in S : x <= y
<1> DEFINE R == {ss \in Nat \X Nat : ss[1] < ss[2]}
<1>1. IsWellFoundedOn(R, Nat)
  BY NatLessThanWellFounded, Zenon DEF OpToRel
<1> HIDE DEF R
<1>2. PICK x \in S : \A y \in S : ~ (<<y, x>> \in R)
  BY <1>1, WFMin, Zenon
<1>3. \A y \in S : x \in Nat /\ y \in Nat /\ ~ (y < x)
  BY <1>2, Zenon DEF R
<1> QED
  BY <1>3

(* A set that holds 0 and is closed under successor holds every natural    *)
(* number.                                                                 *)
LEMMA Induction ==
    ASSUME NEW S, 0 \in S, \A k \in Nat : k \in S => k + 1 \in S
    PROVE  Nat \subseteq S
<1> SUFFICES ASSUME Nat \ S # {} PROVE FALSE
  BY Zenon
<1>1. PICK x \in Nat \ S : \A y \in Nat \ S : x <= y
  BY Least, Zenon
<1>2. x - 1 \in Nat /\ x - 1 \in S
  BY <1>1
<1> QED
  BY <1>1, <1>2

(* A sequence can be defined by its first member and its steps. *)
Iterates(p, A, a, step) ==
    p \in [Nat -> A] /\ p[0] = a /\ \A k \in Nat : p[k + 1] = step[k][p[k]]

(* A step function iterated from a start has a sequence of its values. *)
LEMMA Iterate ==
    ASSUME NEW A, NEW a \in A, NEW step \in [Nat -> [A -> A]]
    PROVE  \E p : Iterates(p, A, a, step)
<1> DEFINE upTo(m, p) == /\ p \in [0 .. m -> A] /\ p[0] = a
                         /\ \A k \in Nat : k < m => p[k + 1] = step[k][p[k]]
           S == {m \in Nat : \E p : upTo(m, p)}
<1>1. Nat \subseteq S
  <2>1. 0 \in S
    <3>1. upTo(0, [i \in 0 .. 0 |-> a])
      OBVIOUS
    <3> QED
      BY <3>1, Zenon
  <2>2. ASSUME NEW k \in Nat, k \in S PROVE k + 1 \in S
    <3>1. PICK p : upTo(k, p)
      BY <2>2, Zenon
    <3> DEFINE r == [i \in 0 .. k + 1 |-> IF i = k + 1 THEN step[k][p[k]] ELSE p[i]]
    <3>2. r \in [0 .. k + 1 -> A]
      BY <3>1
    <3>3. \A i \in Nat : i < k + 1 => r[i + 1] = step[i][r[i]]
      BY <3>1
    <3>4. upTo(k + 1, r)
      BY <3>1, <3>2, <3>3
    <3> HIDE DEF upTo, r
    <3> QED
      BY <3>4
  <2> HIDE DEF S
  <2> QED
    BY <2>1, <2>2, Induction, Zenon
<1>2. ASSUME NEW l \in Nat, NEW m \in Nat, NEW p, NEW r, upTo(l, p), upTo(m, r),
             NEW i \in Nat, i <= l, i <= m
      PROVE  p[i] = r[i]
  <2> DEFINE I == {j \in Nat : j <= l /\ j <= m => p[j] = r[j]}
  <2>1. 0 \in I
    BY <1>2, Zenon
  <2>2. ASSUME NEW k \in Nat, k \in I PROVE k + 1 \in I
    BY <1>2, <2>2
  <2>3. Nat \subseteq I
    <3> HIDE DEF I
    <3> QED
      BY <2>1, <2>2, Induction, Zenon
  <2> QED
    BY <1>2, <2>3, Zenon
<1> DEFINE c == [m \in Nat |-> CHOOSE p : upTo(m, p)]
<1>3. \A m \in Nat : upTo(m, c[m])
  <2> HIDE DEF upTo
  <2>1. \A m \in Nat : \E p : upTo(m, p)
    BY <1>1, Zenon DEF S
  <2> QED
    BY <2>1, Zenon
<1> HIDE DEF c, S
<1> DEFINE P == [m \in Nat |-> c[m][m]]
<1>4. P \in [Nat -> A] /\ P[0] = a
  BY <1>3
<1>5. ASSUME NEW k \in Nat PROVE P[k + 1] = step[k][P[k]]
  <2>1. upTo(k, c[k]) /\ upTo(k + 1, c[k + 1])
    BY <1>3
  <2>2. c[k][k] = c[k + 1][k]
    <3> HIDE DEF upTo
    <3> QED
      BY <1>2, <2>1
  <2>3. c[k + 1][k + 1] = step[k][c[k + 1][k]]
    <3>1. k < k + 1
      OBVIOUS
    <3> QED
      BY <2>1, <3>1, Zenon
  <2> QED
    BY <2>2, <2>3
<1> HIDE DEF P
<1> QED
  BY <1>4, <1>5, Zenon DEF Iterates

-----------------------------------------------------------------------------
(* Sums and products of integers. *)

Sum(f, m) == LET s[i \in Nat] == IF i = 0 THEN 0 ELSE s[i - 1] + f[i] IN s[m]
Prod(f, m) == LET p[i \in Nat] == IF i = 0 THEN 1 ELSE p[i - 1] * f[i] IN p[m]

(* The sum of no terms is 0, and each term adds itself. *)
LEMMA SumStep ==
    ASSUME NEW f \in [Nat -> Int]
    PROVE  /\ Sum(f, 0) = 0
           /\ \A k \in Nat : Sum(f, k) \in Int /\ Sum(f, k + 1) = Sum(f, k) + f[k + 1]
<1> DEFINE step == [k \in Nat |-> [x \in Int |-> x + f[k + 1]]]
           P == CHOOSE p : p = [i \in Nat |-> IF i = 0 THEN 0 ELSE p[i - 1] + f[i]]
<1>1. step \in [Nat -> [Int -> Int]] /\ \A k \in Nat, x \in Int : step[k][x] = x + f[k + 1]
  OBVIOUS
<1> HIDE DEF step
<1>2. PICK p : Iterates(p, Int, 0, step)
  <2>1. step \in [Nat -> [Int -> Int]] /\ 0 \in Int
    BY <1>1
  <2> QED
    BY <2>1, Iterate, Zenon
<1>3. p = [i \in Nat |-> IF i = 0 THEN 0 ELSE p[i - 1] + f[i]]
  <2>1. p \in [Nat -> Int] /\ p[0] = 0 /\ \A k \in Nat : p[k + 1] = p[k] + f[k + 1]
    BY <1>1, <1>2, Zenon DEF Iterates
  <2>2. ASSUME NEW i \in Nat, i # 0 PROVE p[i] = p[i - 1] + f[i]
    <3>1. i - 1 \in Nat /\ (i - 1) + 1 = i
      BY <2>2
    <3> QED
      BY <2>1, <3>1, Zenon
  <2> QED
    BY <2>1, <2>2, Zenon
<1>4. P = [i \in Nat |-> IF i = 0 THEN 0 ELSE P[i - 1] + f[i]]
  BY <1>3, Zenon
<1>5. \A k \in Nat : Sum(f, k) = P[k]
  BY Zenon DEF Sum
<1> HIDE DEF P
<1>6. P[0] = 0 /\ \A k \in Nat : P[k + 1] = P[k] + f[k + 1]
  BY <1>4
<1>7. \A k \in Nat : P[k] \in Int
  <2> DEFINE S == {k \in Nat : P[k] \in Int}
  <2>1. 0 \in S
    BY <1>6
  <2>2. ASSUME NEW k \in Nat, k \in S PROVE k + 1 \in S
    BY <1>6, <2>2
  <2> HIDE DEF S
  <2>3. Nat \subseteq S
    BY <2>1, <2>2, Induction, Zenon
  <2> QED
    BY <2>3, Zenon DEF S
<1> QED
  BY <1>5, <1>6, <1>7

(* The product of no factors is 1, and each factor multiplies. *)
LEMMA ProdStep ==
    ASSUME NEW f \in [Nat -> Int]
    PROVE  /\ Prod(f, 0) = 1
           /\ \A k \in Nat : Prod(f, k) \in Int /\ Prod(f, k + 1) = Prod(f, k) * f[k + 1]
<1> DEFINE step == [k \in Nat |-> [x \in Int |-> x * f[k + 1]]]
           P == CHOOSE p : p = [i \in Nat |-> IF i = 0 THEN 1 ELSE p[i - 1] * f[i]]
<1>1. step \in [Nat -> [Int -> Int]] /\ \A k \in Nat, x \in Int : step[k][x] = x * f[k + 1]
  OBVIOUS
<1> HIDE DEF step
<1>2. PICK p : Iterates(p, Int, 1, step)
  <2>1. step \in [Nat -> [Int -> Int]] /\ 1 \in Int
    BY <1>1
  <2> QED
    BY <2>1, Iterate, Zenon
<1>3. p = [i \in Nat |-> IF i = 0 THEN 1 ELSE p[i - 1] * f[i]]
  <2>1. p \in [Nat -> Int] /\ p[0] = 1 /\ \A k \in Nat : p[k + 1] = p[k] * f[k + 1]
    BY <1>1, <1>2, Zenon DEF Iterates
  <2>2. ASSUME NEW i \in Nat, i # 0 PROVE p[i] = p[i - 1] * f[i]
    <3>1. i - 1 \in Nat /\ (i - 1) + 1 = i
      BY <2>2
    <3> QED
      BY <2>1, <3>1, Zenon
  <2> QED
    BY <2>1, <2>2, Zenon
<1>4. P = [i \in Nat |-> IF i = 0 THEN 1 ELSE P[i - 1] * f[i]]
  BY <1>3, Zenon
<1>5. \A k \in Nat : Prod(f, k) = P[k]
  BY Zenon DEF Prod
<1> HIDE DEF P
<1>6. P[0] = 1 /\ \A k \in Nat : P[k + 1] = P[k] * f[k + 1]
  BY <1>4
<1>7. \A k \in Nat : P[k] \in Int
  <2> DEFINE S == {k \in Nat : P[k] \in Int}
  <2>1. 0 \in S
    BY <1>6
  <2>2. ASSUME NEW k \in Nat, k \in S PROVE k + 1 \in S
    BY <1>6, <2>2
  <2> HIDE DEF S
  <2>3. Nat \subseteq S
    BY <2>1, <2>2, Induction, Zenon
  <2> QED
    BY <2>3, Zenon DEF S
<1> QED
  BY <1>5, <1>6, <1>7

-----------------------------------------------------------------------------
(* Residues.  Mod is % with its definition out of the provers' sight. *)
Mod(a, m) == a % m

(* The remainder is below the modulus and differs from the number by a     *)
(* multiple of it.                                                         *)
LEMMA ModRange ==
    ASSUME NEW a \in Int, NEW m \in Nat \ {0}
    PROVE  Mod(a, m) \in 0 .. m - 1 /\ \E k \in Int : a = m * k + Mod(a, m)
<1>1. a % m \in 0 .. m - 1 /\ a \div m \in Int /\ a = m * (a \div m) + (a % m)
  BY SMT
<1> QED
  BY <1>1, Zenon DEF Mod

(* It is the only number that does. *)
LEMMA ModIs ==
    ASSUME NEW m \in Nat \ {0}, NEW a \in Int, NEW r \in 0 .. m - 1, \E k \in Int : a = m * k + r
    PROVE  Mod(a, m) = r
<1>1. PICK k \in Int : a = m * k + r
  BY Zenon
<1>2. PICK l \in Int : a = m * l + Mod(a, m)
  BY ModRange, Zenon
<1> DEFINE s == Mod(a, m)
<1>3. m * k + r = m * l + s /\ s \in 0 .. m - 1
  BY <1>1, <1>2, ModRange, Zenon
<1> HIDE DEF s
<1>4. s - r = m * (k - l)
  BY <1>3
<1>5. k - l >= 1 => m * (k - l) >= m
  OBVIOUS
<1>6. k - l <= -1 => m * (k - l) <= -m
  OBVIOUS
<1>7. k - l = 0
  BY <1>3, <1>4, <1>5, <1>6
<1> QED
  BY <1>3, <1>7 DEF s

(* A number below the modulus is its own remainder. *)
LEMMA ModSmall ==
    ASSUME NEW m \in Nat \ {0}, NEW r \in 0 .. m - 1
    PROVE  Mod(r, m) = r
<1>1. r = m * 0 + r /\ r \in Int
  OBVIOUS
<1> QED
  BY <1>1, ModIs

(* Residues are equal when the numbers differ by a multiple of m. *)
LEMMA ModEq ==
    ASSUME NEW m \in Nat \ {0}, NEW a \in Int, NEW b \in Int
    PROVE  Mod(a, m) = Mod(b, m) <=> \E k \in Int : a = b + m * k
<1>0. Mod(a, m) \in Int /\ Mod(b, m) \in 0 .. m - 1
  BY ModRange
<1>1. ASSUME Mod(a, m) = Mod(b, m) PROVE \E k \in Int : a = b + m * k
  <2>1. PICK i \in Int : a = m * i + Mod(a, m)
    BY ModRange, Zenon
  <2>2. PICK j \in Int : b = m * j + Mod(b, m)
    BY ModRange, Zenon
  <2>3. a = b + m * (i - j) /\ i - j \in Int
    BY <1>0, <1>1, <2>1, <2>2
  <2> QED
    BY <2>3, Zenon
<1>2. ASSUME NEW k \in Int, a = b + m * k PROVE Mod(a, m) = Mod(b, m)
  <2>1. PICK j \in Int : b = m * j + Mod(b, m)
    BY ModRange, Zenon
  <2>2. a = m * (j + k) + Mod(b, m) /\ j + k \in Int
    BY <1>0, <1>2, <2>1
  <2> QED
    BY <1>0, <2>2, ModIs, Zenon
<1> QED
  BY <1>1, <1>2, Zenon

(* a and b are congruent modulo m. *)
Cong(a, b, m) == a \in Int /\ b \in Int /\ Mod(a, m) = Mod(b, m)

(* Congruence is an equivalence relation on the integers. *)
LEMMA CongRefl == \A m, a : a \in Int => Cong(a, a, m)
  BY Zenon DEF Cong

LEMMA CongSym == \A m, a, b : Cong(a, b, m) => Cong(b, a, m)
  BY Zenon DEF Cong

LEMMA CongTrans == \A m, a, b, c : Cong(a, b, m) /\ Cong(b, c, m) => Cong(a, c, m)
  BY Zenon DEF Cong

(* Numbers that differ by a multiple of m are congruent. *)
LEMMA CongBy ==
    ASSUME NEW m \in Nat \ {0}, NEW a \in Int, NEW b \in Int, \E k \in Int : a = b + m * k
    PROVE  Cong(a, b, m)
  BY ModEq, Zenon DEF Cong

(* Sums and products may be reduced at any place. *)
LEMMA CongAdd ==
    ASSUME NEW m \in Nat \ {0}, NEW a, NEW b, NEW c, NEW d, Cong(a, c, m), Cong(b, d, m)
    PROVE  Cong(a + b, c + d, m)
<1> USE DEF Cong
<1>1. PICK i \in Int : a = c + m * i
  BY ModEq, Zenon
<1>2. PICK j \in Int : b = d + m * j
  BY ModEq, Zenon
<1>3. a + b = (c + d) + m * (i + j) /\ i + j \in Int /\ c + d \in Int /\ a + b \in Int
  BY <1>1, <1>2
<1>4. \E k \in Int : a + b = (c + d) + m * k
  BY <1>3, Zenon
<1> HIDE DEF Cong
<1> QED
  BY <1>3, <1>4, CongBy, Zenon

LEMMA CongMul ==
    ASSUME NEW m \in Nat \ {0}, NEW a, NEW b, NEW c, NEW d, Cong(a, c, m), Cong(b, d, m)
    PROVE  Cong(a * b, c * d, m)
<1> USE DEF Cong
<1>1. PICK i \in Int : a = c + m * i
  BY ModEq, Zenon
<1>2. PICK j \in Int : b = d + m * j
  BY ModEq, Zenon
<1>3. a * b = c * d + m * (c * j + d * i + m * i * j)
  BY <1>1, <1>2
<1>4. c * d \in Int /\ a * b \in Int /\ c * j + d * i + m * i * j \in Int
  OBVIOUS
<1>5. \E k \in Int : a * b = c * d + m * k
  BY <1>3, <1>4, Zenon
<1> HIDE DEF Cong
<1> QED
  BY <1>4, <1>5, CongBy, Zenon

(* A number and its remainder are congruent. *)
LEMMA ModMod ==
    ASSUME NEW m \in Nat \ {0}, NEW a \in Int
    PROVE  Mod(a, m) \in Int /\ Mod(Mod(a, m), m) = Mod(a, m) /\ Cong(Mod(a, m), a, m)
<1>1. Mod(a, m) \in 0 .. m - 1
  BY ModRange, Zenon
<1>2. Mod(Mod(a, m), m) = Mod(a, m)
  BY <1>1, ModSmall, Zenon
<1> QED
  BY <1>1, <1>2 DEF Cong

-----------------------------------------------------------------------------
(* Divisors and inverses. *)

(* The remainder is 0 exactly when the modulus divides. *)
LEMMA Divides ==
    ASSUME NEW a \in Int, NEW d \in Nat \ {0}
    PROVE  Mod(a, d) = 0 <=> \E k \in Int : a = d * k
<1>1. Mod(0, d) = 0
  BY ModSmall
<1>2. Mod(a, d) = Mod(0, d) <=> \E k \in Int : a = 0 + d * k
  <2>1. 0 \in Int
    OBVIOUS
  <2> QED
    BY <2>1, ModEq, Zenon
<1>3. \A k \in Int : 0 + d * k = d * k
  OBVIOUS
<1> QED
  BY <1>1, <1>2, <1>3, Zenon

(* A divisor of a divisor divides. *)
LEMMA DividesTrans ==
    ASSUME NEW a \in Int, NEW d \in Nat \ {0}, NEW f \in Nat \ {0}, Mod(a, d) = 0, Mod(d, f) = 0
    PROVE  Mod(a, f) = 0
<1>1. PICK k \in Int : a = d * k
  BY Divides, Zenon
<1>2. PICK l \in Int : d = f * l
  BY Divides
<1>3. a = f * (l * k) /\ l * k \in Int
  BY <1>1, <1>2
<1> QED
  BY <1>3, Divides, Zenon

(* A number that shares no divisor with m has an inverse modulo m: the     *)
(* least positive combination of the two divides both.                     *)
LEMMA CoprimeInverse ==
    ASSUME NEW m \in Nat, m >= 2, NEW a \in Int,
           \A d \in 2 .. m : ~ (Mod(a, d) = 0 /\ Mod(m, d) = 0)
    PROVE  \E x \in 1 .. m - 1 : Mod(a * x, m) = 1
<1> DEFINE S == {s \in Nat \ {0} : \E x, y \in Int : s = a * x + m * y}
<1>1. m \in S
  <2>1. m = a * 0 + m * 1
    OBVIOUS
  <2> QED
    BY <2>1
<1>2. PICK g \in S : \A s \in S : g <= s
  <2>1. S \subseteq Nat /\ S # {}
    BY <1>1, Zenon
  <2> HIDE DEF S
  <2> QED
    BY <2>1, Least, Zenon
<1>3. PICK u, v \in Int : g = a * u + m * v
  BY <1>2, Zenon
<1>4. g \in Nat \ {0} /\ g <= m
  BY <1>1, <1>2, Zenon
<1>5. ASSUME NEW b \in Int, NEW c \in Int PROVE Mod(a * b + m * c, g) = 0
  <2> DEFINE z == a * b + m * c
  <2>1. z \in Int
    OBVIOUS
  <2>2. PICK k \in Int : z = g * k + Mod(z, g)
    BY <1>4, <2>1, ModRange, Zenon
  <2>3. Mod(z, g) \in 0 .. g - 1
    BY <1>4, <2>1, ModRange, Zenon
  <2> DEFINE r == Mod(z, g)
  <2>4. r \in 0 .. g - 1 /\ a * b + m * c = g * k + r
    BY <2>2, <2>3, Zenon
  <2> HIDE DEF r, z
  <2>5. r = a * (b - u * k) + m * (c - v * k)
    BY <1>3, <1>4, <2>4
  <2>6. b - u * k \in Int /\ c - v * k \in Int
    OBVIOUS
  <2>7. r # 0 => r \in S
    <3>1. \E x, y \in Int : r = a * x + m * y
      BY <2>5, <2>6, Zenon
    <3>2. r \in Nat
      BY <1>4, <2>4
    <3> QED
      BY <3>1, <3>2, Zenon
  <2>8. r = 0
    <3> HIDE DEF S
    <3> QED
      BY <1>2, <1>4, <2>4, <2>7
  <2> QED
    BY <2>8, Zenon DEF r, z
<1> HIDE DEF S
<1>6. a * 1 + m * 0 = a /\ a * 0 + m * 1 = m
  OBVIOUS
<1>7. Mod(a, g) = 0 /\ Mod(m, g) = 0
  <2>1. Mod(a * 1 + m * 0, g) = 0 /\ Mod(a * 0 + m * 1, g) = 0
    <3>1. 0 \in Int /\ 1 \in Int
      OBVIOUS
    <3> QED
      BY <1>5, <3>1, Zenon
  <2> QED
    BY <1>6, <2>1, Zenon
<1>8. g = 1
  BY <1>4, <1>7
<1> DEFINE x == Mod(u, m)
<1>9. Mod(1, m) = 1 /\ Mod(0, m) = 0
  BY ModSmall
<1>10. x \in 0 .. m - 1 /\ Mod(x, m) = Mod(u, m)
  BY ModRange, ModMod
<1> HIDE DEF x
<1>11. Mod(a * x, m) = Mod(a * u, m)
  <2>1. Cong(x, u, m) /\ Cong(a, a, m)
    BY <1>10 DEF Cong
  <2>2. Cong(a * x, a * u, m)
    BY <2>1, CongMul
  <2> QED
    BY <2>2, Zenon DEF Cong
<1>12. a * u = 1 + m * (-v) /\ -v \in Int /\ a * u \in Int
  BY <1>3, <1>8
<1>13. Mod(a * u, m) = Mod(1, m)
  <2>1. m \in Nat \ {0} /\ 1 \in Int
    OBVIOUS
  <2> QED
    BY <1>12, <2>1, ModEq, Zenon
<1>14. x # 0
  <2> SUFFICES ASSUME x = 0 PROVE FALSE
    BY Zenon
  <2>1. a * x = 0
    OBVIOUS
  <2> QED
    BY <1>9, <1>11, <1>13, <2>1
<1>15. x \in 1 .. m - 1
  BY <1>10, <1>14
<1> QED
  BY <1>9, <1>11, <1>13, <1>15, Zenon

Prime(p) == p \in Nat /\ p >= 2 /\ \A d \in 2 .. p - 1 : Mod(p, d) # 0

(* Every number from 2 on has a prime divisor: its least one. *)
LEMMA PrimeDivisor ==
    ASSUME NEW d \in Nat, d >= 2
    PROVE  \E f \in 2 .. d : Prime(f) /\ Mod(d, f) = 0
<1> DEFINE S == {f \in Nat : f >= 2 /\ Mod(d, f) = 0}
<1>1. d \in S
  <2>1. d = d * 1
    OBVIOUS
  <2>2. Mod(d, d) = 0
    BY <2>1, Divides
  <2> QED
    BY <2>2, Zenon
<1>2. PICK f \in S : \A s \in S : f <= s
  <2>1. S \subseteq Nat /\ S # {}
    BY <1>1, Zenon
  <2> HIDE DEF S
  <2> QED
    BY <2>1, Least, Zenon
<1>3. f \in Nat /\ f >= 2 /\ f <= d /\ Mod(d, f) = 0
  BY <1>1, <1>2, Zenon
<1>4. ASSUME NEW k \in 2 .. f - 1, Mod(f, k) = 0 PROVE FALSE
  <2>1. Mod(d, k) = 0
    BY <1>3, <1>4, DividesTrans
  <2>2. k \in S
    BY <1>3, <2>1
  <2> QED
    BY <1>2, <1>3, <2>2
<1> QED
  BY <1>3, <1>4 DEF Prime

(* What no prime divisor of m divides has an inverse modulo m. *)
LEMMA NoFactorInverse ==
    ASSUME NEW m \in Nat, m >= 2, NEW a \in Int,
           \A f \in 2 .. m : Prime(f) /\ Mod(m, f) = 0 => Mod(a, f) # 0
    PROVE  \E x \in 1 .. m - 1 : Mod(a * x, m) = 1
<1>1. ASSUME NEW d \in 2 .. m, Mod(a, d) = 0, Mod(m, d) = 0 PROVE FALSE
  <2>1. PICK f \in 2 .. d : Prime(f) /\ Mod(d, f) = 0
    BY PrimeDivisor
  <2>2. Mod(a, f) = 0 /\ Mod(m, f) = 0
    BY <1>1, <2>1, DividesTrans
  <2>3. f \in 2 .. m
    OBVIOUS
  <2> QED
    BY <2>1, <2>2, <2>3, Zenon
<1> QED
  BY <1>1, CoprimeInverse, Zenon

(* Modulo a prime, what is not 0 has an inverse. *)
LEMMA PrimeInverse ==
    ASSUME NEW p, Prime(p), NEW a \in Int, Mod(a, p) # 0
    PROVE  \E x \in 1 .. p - 1 : Mod(a * x, p) = 1
<1>1. p \in Nat /\ p >= 2 /\ \A d \in 2 .. p - 1 : Mod(p, d) # 0
  BY Zenon DEF Prime
<1>2. \A d \in 2 .. p : ~ (Mod(a, d) = 0 /\ Mod(p, d) = 0)
  BY <1>1
<1> QED
  BY <1>1, <1>2, CoprimeInverse, Zenon

(* A prime that divides a product divides a factor. *)
LEMMA PrimeProduct ==
    ASSUME NEW p, Prime(p), NEW a \in Int, NEW b \in Int, Mod(a, p) # 0, Mod(b, p) # 0
    PROVE  Mod(a * b, p) # 0
<1>1. p \in Nat \ {0} /\ p >= 2
  BY DEF Prime
<1>2. PICK x \in 1 .. p - 1 : Mod(a * x, p) = 1
  BY PrimeInverse, Zenon
<1> SUFFICES ASSUME Mod(a * b, p) = 0 PROVE FALSE
  BY Zenon
<1>3. Mod(0, p) = 0 /\ Mod(1, p) = 1
  BY <1>1, ModSmall
<1>4. Cong(a * b, 0, p) /\ Cong(a * x, 1, p) /\ Cong(x, x, p) /\ Cong(b, b, p)
  BY <1>2, <1>3 DEF Cong
<1>5. Cong((a * b) * x, 0 * x, p)
  BY <1>1, <1>4, CongMul, Zenon
<1>6. Cong((a * x) * b, 1 * b, p)
  BY <1>1, <1>4, CongMul, Zenon
<1>7. (a * b) * x = (a * x) * b /\ 0 * x = 0 /\ 1 * b = b
  OBVIOUS
<1> QED
  BY <1>3, <1>5, <1>6, <1>7, Zenon DEF Cong

-----------------------------------------------------------------------------
(* Sums, products and powers modulo m. *)

(* A sum of linear combinations is the linear combination of the sums. *)
LEMMA SumLinear ==
    ASSUME NEW m \in Nat \ {0}, NEW n \in Nat, NEW c \in Int, NEW d \in Int,
           NEW f \in [Nat -> Int], NEW g \in [Nat -> Int], NEW h \in [Nat -> Int],
           \A i \in 1 .. n : Cong(h[i], c * f[i] + d * g[i], m)
    PROVE  Cong(Sum(h, n), c * Sum(f, n) + d * Sum(g, n), m)
<1> DEFINE S == {k \in Nat : k <= n => Cong(Sum(h, k), c * Sum(f, k) + d * Sum(g, k), m)}
<1>1. 0 \in S
  <2>1. Sum(h, 0) = 0 /\ Sum(f, 0) = 0 /\ Sum(g, 0) = 0
    BY SumStep, Zenon
  <2>2. 0 = c * 0 + d * 0 /\ Cong(0, 0, m)
    BY CongRefl
  <2> QED
    BY <2>1, <2>2, Zenon
<1>2. ASSUME NEW k \in Nat, k \in S PROVE k + 1 \in S
  <2> SUFFICES ASSUME k + 1 <= n
               PROVE  Cong(Sum(h, k + 1), c * Sum(f, k + 1) + d * Sum(g, k + 1), m)
    OBVIOUS
  <2> DEFINE F == Sum(f, k)
             G == Sum(g, k)
             H == Sum(h, k)
             x == f[k + 1]
             y == g[k + 1]
             z == h[k + 1]
  <2>1. F \in Int /\ G \in Int /\ H \in Int /\ x \in Int /\ y \in Int /\ z \in Int
    BY SumStep
  <2>2. Sum(h, k + 1) = H + z /\ Sum(f, k + 1) = F + x /\ Sum(g, k + 1) = G + y
    BY SumStep, Zenon
  <2>3. Cong(H, c * F + d * G, m) /\ Cong(z, c * x + d * y, m)
    BY <1>2
  <2> HIDE DEF F, G, H, x, y, z
  <2>4. Cong(H + z, (c * F + d * G) + (c * x + d * y), m)
    BY <2>3, CongAdd, Zenon
  <2>5. (c * F + d * G) + (c * x + d * y) = c * (F + x) + d * (G + y)
    BY <2>1
  <2> QED
    BY <2>2, <2>4, <2>5, Zenon
<1> HIDE DEF S
<1>3. n \in S
  BY <1>1, <1>2, Induction, Zenon
<1> QED
  BY <1>3 DEF S

(* A product of products is the product of the two products. *)
LEMMA ProdTimes ==
    ASSUME NEW m \in Nat \ {0}, NEW n \in Nat,
           NEW f \in [Nat -> Int], NEW g \in [Nat -> Int], NEW h \in [Nat -> Int],
           \A i \in 1 .. n : Cong(h[i], f[i] * g[i], m)
    PROVE  Cong(Prod(h, n), Prod(f, n) * Prod(g, n), m)
<1> DEFINE S == {k \in Nat : k <= n => Cong(Prod(h, k), Prod(f, k) * Prod(g, k), m)}
<1>1. 0 \in S
  <2>1. Prod(h, 0) = 1 /\ Prod(f, 0) = 1 /\ Prod(g, 0) = 1
    BY ProdStep, Zenon
  <2>2. 1 = 1 * 1 /\ Cong(1, 1, m)
    BY CongRefl
  <2> QED
    BY <2>1, <2>2, Zenon
<1>2. ASSUME NEW k \in Nat, k \in S PROVE k + 1 \in S
  <2> SUFFICES ASSUME k + 1 <= n
               PROVE  Cong(Prod(h, k + 1), Prod(f, k + 1) * Prod(g, k + 1), m)
    OBVIOUS
  <2> DEFINE F == Prod(f, k)
             G == Prod(g, k)
             H == Prod(h, k)
             x == f[k + 1]
             y == g[k + 1]
             z == h[k + 1]
  <2>1. F \in Int /\ G \in Int /\ H \in Int /\ x \in Int /\ y \in Int /\ z \in Int
    BY ProdStep
  <2>2. Prod(h, k + 1) = H * z /\ Prod(f, k + 1) = F * x /\ Prod(g, k + 1) = G * y
    BY ProdStep, Zenon
  <2>3. Cong(H, F * G, m) /\ Cong(z, x * y, m)
    BY <1>2
  <2> HIDE DEF F, G, H, x, y, z
  <2>4. Cong(H * z, (F * G) * (x * y), m)
    BY <2>3, CongMul, Zenon
  <2>5. (F * G) * (x * y) = (F * x) * (G * y)
    BY <2>1
  <2> QED
    BY <2>2, <2>4, <2>5, Zenon
<1> HIDE DEF S
<1>3. n \in S
  BY <1>1, <1>2, Induction, Zenon
<1> QED
  BY <1>3 DEF S

(* Congruent factors have congruent products. *)
LEMMA ProdCong ==
    ASSUME NEW m \in Nat \ {0}, NEW n \in Nat, NEW f \in [Nat -> Int], NEW g \in [Nat -> Int],
           \A i \in 1 .. n : Cong(f[i], g[i], m)
    PROVE  Cong(Prod(f, n), Prod(g, n), m)
<1> DEFINE S == {k \in Nat : k <= n => Cong(Prod(f, k), Prod(g, k), m)}
<1>1. 0 \in S
  BY ProdStep, CongRefl, Zenon
<1>2. ASSUME NEW k \in Nat, k \in S PROVE k + 1 \in S
  <2> SUFFICES ASSUME k + 1 <= n PROVE Cong(Prod(f, k + 1), Prod(g, k + 1), m)
    OBVIOUS
  <2>1. Cong(Prod(f, k), Prod(g, k), m) /\ Cong(f[k + 1], g[k + 1], m)
    BY <1>2
  <2>2. Cong(Prod(f, k) * f[k + 1], Prod(g, k) * g[k + 1], m)
    BY <2>1, CongMul, Zenon
  <2> QED
    BY <2>2, ProdStep, Zenon
<1> HIDE DEF S
<1>3. n \in S
  BY <1>1, <1>2, Induction, Zenon
<1> QED
  BY <1>3 DEF S

Pow(b, k) == Prod([i \in Nat |-> b], k)

(* The exponent 0 gives 1, and each further one multiplies by the base. *)
LEMMA PowStep ==
    ASSUME NEW b \in Int
    PROVE  /\ Pow(b, 0) = 1
           /\ \A k \in Nat : Pow(b, k) \in Int /\ Pow(b, k + 1) = Pow(b, k) * b
  BY ProdStep DEF Pow

(* Exponents add. *)
LEMMA PowAdd ==
    ASSUME NEW b \in Int, NEW j \in Nat, NEW k \in Nat
    PROVE  Pow(b, j + k) = Pow(b, j) * Pow(b, k)
<1> DEFINE S == {i \in Nat : Pow(b, j + i) = Pow(b, j) * Pow(b, i)}
<1>1. 0 \in S
  BY PowStep
<1>2. ASSUME NEW i \in Nat, i \in S PROVE i + 1 \in S
  <2>1. Pow(b, j) \in Int /\ Pow(b, i) \in Int /\ Pow(b, i + 1) = Pow(b, i) * b
    BY PowStep, Zenon
  <2>2. Pow(b, (j + i) + 1) = Pow(b, j + i) * b
    BY PowStep
  <2>3. Pow(b, j + i) = Pow(b, j) * Pow(b, i) /\ (j + i) + 1 = j + (i + 1)
    BY <1>2
  <2> QED
    BY <2>1, <2>2, <2>3
<1> HIDE DEF S
<1>3. k \in S
  BY <1>1, <1>2, Induction, Zenon
<1> QED
  BY <1>3, Zenon DEF S

(* The powers of 1 are 1. *)
LEMMA PowOne == \A k \in Nat : Pow(1, k) = 1
<1> DEFINE S == {k \in Nat : Pow(1, k) = 1}
<1>1. 0 \in S
  BY PowStep
<1>2. ASSUME NEW k \in Nat, k \in S PROVE k + 1 \in S
  BY <1>2, PowStep
<1> HIDE DEF S
<1>3. Nat \subseteq S
  BY <1>1, <1>2, Induction, Zenon
<1> QED
  BY <1>3, Zenon DEF S

(* Exponents multiply. *)
LEMMA PowPow ==
    ASSUME NEW b \in Int, NEW j \in Nat, NEW k \in Nat
    PROVE  Pow(b, j * k) = Pow(Pow(b, j), k)
<1> DEFINE c == Pow(b, j)
           S == {i \in Nat : Pow(b, j * i) = Pow(c, i)}
<1>0. c \in Int
  BY PowStep, Zenon
<1>1. 0 \in S
  <2>1. j * 0 = 0
    OBVIOUS
  <2> HIDE DEF c
  <2> QED
    BY <1>0, <2>1, PowStep, Zenon
<1>2. ASSUME NEW i \in Nat, i \in S PROVE i + 1 \in S
  <2>1. j * (i + 1) = j * i + j /\ j * i \in Nat
    OBVIOUS
  <2>2. Pow(b, j * i + j) = Pow(b, j * i) * c
    BY <2>1, PowAdd, Zenon
  <2> HIDE DEF c
  <2>3. Pow(c, i + 1) = Pow(c, i) * c
    BY <1>0, PowStep, Zenon
  <2> QED
    BY <1>2, <2>1, <2>2, <2>3
<1> HIDE DEF S
<1>3. k \in S
  BY <1>1, <1>2, Induction, Zenon
<1> QED
  BY <1>3, Zenon DEF S

(* Congruent bases have congruent powers. *)
LEMMA PowCong ==
    ASSUME NEW m \in Nat \ {0}, NEW k \in Nat, NEW a \in Int, NEW b \in Int, Cong(a, b, m)
    PROVE  Cong(Pow(a, k), Pow(b, k), m)
  BY ProdCong DEF Pow

(* The power of a product is the product of the powers. *)
LEMMA PowTimes ==
    ASSUME NEW m \in Nat \ {0}, NEW k \in Nat, NEW a \in Int, NEW b \in Int, NEW c \in Int,
           Cong(c, a * b, m)
    PROVE  Cong(Pow(c, k), Pow(a, k) * Pow(b, k), m)
<1> DEFINE C(x) == [i \in Nat |-> x]
<1>1. C(a) \in [Nat -> Int] /\ C(b) \in [Nat -> Int] /\ C(c) \in [Nat -> Int]
  BY Zenon
<1>2. \A i \in 1 .. k : Cong(C(c)[i], C(a)[i] * C(b)[i], m)
  OBVIOUS
<1>3. Pow(a, k) = Prod(C(a), k) /\ Pow(b, k) = Prod(C(b), k) /\ Pow(c, k) = Prod(C(c), k)
  BY Zenon DEF Pow
<1> HIDE DEF C
<1> QED
  BY <1>1, <1>2, <1>3, ProdTimes, Zenon

(* The same for a product of any length. *)
LEMMA PowOfProd ==
    ASSUME NEW m \in Nat \ {0}, NEW n \in Nat, NEW e \in Nat,
           NEW f \in [Nat -> Int], NEW h \in [Nat -> Int],
           \A i \in 1 .. n : Cong(h[i], Pow(f[i], e), m)
    PROVE  Cong(Prod(h, n), Pow(Prod(f, n), e), m)
<1> DEFINE S == {k \in Nat : k <= n => Cong(Prod(h, k), Pow(Prod(f, k), e), m)}
<1>1. 0 \in S
  BY ProdStep, PowOne, CongRefl, Zenon
<1>2. ASSUME NEW k \in Nat, k \in S PROVE k + 1 \in S
  <2> SUFFICES ASSUME k + 1 <= n PROVE Cong(Prod(h, k + 1), Pow(Prod(f, k + 1), e), m)
    OBVIOUS
  <2>1. Cong(Prod(h, k), Pow(Prod(f, k), e), m) /\ Cong(h[k + 1], Pow(f[k + 1], e), m)
    BY <1>2
  <2>2. Cong(Prod(h, k) * h[k + 1], Pow(Prod(f, k), e) * Pow(f[k + 1], e), m)
    BY <2>1, CongMul, Zenon
  <2>3. Prod(f, k) \in Int /\ f[k + 1] \in Int /\ Prod(f, k + 1) \in Int
        /\ Prod(f, k + 1) = Prod(f, k) * f[k + 1] /\ Prod(h, k + 1) = Prod(h, k) * h[k + 1]
    BY ProdStep
  <2>4. Cong(Prod(f, k + 1), Prod(f, k) * f[k + 1], m)
    BY <2>3, CongRefl, Zenon
  <2>5. Cong(Pow(Prod(f, k + 1), e), Pow(Prod(f, k), e) * Pow(f[k + 1], e), m)
    BY <2>3, <2>4, PowTimes, Zenon
  <2> QED
    BY <2>2, <2>3, <2>5, CongSym, CongTrans
<1> HIDE DEF S
<1>3. n \in S
  BY <1>1, <1>2, Induction, Zenon
<1> QED
  BY <1>3 DEF S

(* Modulo a prime, a product of nonzero factors is not 0. *)
LEMMA ProdNonzero ==
    ASSUME NEW p, Prime(p), NEW n \in Nat, NEW f \in [Nat -> Int], \A i \in 1 .. n : Mod(f[i], p) # 0
    PROVE  Mod(Prod(f, n), p) # 0
<1> DEFINE S == {k \in Nat : k <= n => Mod(Prod(f, k), p) # 0}
<1>1. 0 \in S
  <2>1. p \in Nat \ {0} /\ 1 \in 0 .. p - 1
    BY DEF Prime
  <2>2. Mod(1, p) = 1
    BY <2>1, ModSmall, Zenon
  <2> QED
    BY <2>2, ProdStep
<1>2. ASSUME NEW k \in Nat, k \in S PROVE k + 1 \in S
  <2> SUFFICES ASSUME k + 1 <= n PROVE Mod(Prod(f, k + 1), p) # 0
    OBVIOUS
  <2>1. Mod(Prod(f, k), p) # 0 /\ Mod(f[k + 1], p) # 0
    BY <1>2
  <2>2. Prod(f, k) \in Int /\ f[k + 1] \in Int /\ Prod(f, k + 1) = Prod(f, k) * f[k + 1]
    BY ProdStep
  <2> QED
    BY <2>1, <2>2, PrimeProduct, Zenon
<1> HIDE DEF S
<1>3. n \in S
  BY <1>1, <1>2, Induction, Zenon
<1> QED
  BY <1>3 DEF S

(* Nor is a power of a nonzero base. *)
LEMMA PowNonzero ==
    ASSUME NEW p, Prime(p), NEW b \in Int, Mod(b, p) # 0, NEW k \in Nat
    PROVE  Mod(Pow(b, k), p) # 0
  BY ProdNonzero DEF Pow

-----------------------------------------------------------------------------
(* The order of the factors of a product, and Fermat's little theorem. *)

(* Exchanging one factor of a product. *)
LEMMA ProdReplace ==
    ASSUME NEW f \in [Nat -> Int], NEW n \in Nat, NEW k \in 1 .. n, NEW y \in Int
    PROVE  Prod([f EXCEPT ![k] = y], n) * f[k] = Prod(f, n) * y
<1> DEFINE g == [f EXCEPT ![k] = y]
           S == {i \in Nat : /\ i < k => Prod(g, i) = Prod(f, i)
                             /\ i >= k => Prod(g, i) * f[k] = Prod(f, i) * y}
<1>1. g \in [Nat -> Int] /\ g[k] = y /\ \A i \in Nat : i # k => g[i] = f[i]
  OBVIOUS
<1> HIDE DEF g
<1>2. 0 \in S
  BY <1>1, ProdStep
<1>3. ASSUME NEW i \in Nat, i \in S PROVE i + 1 \in S
  <2> DEFINE F == Prod(f, i)
             G == Prod(g, i)
             x == f[k]
             z == f[i + 1]
  <2>1. /\ F \in Int /\ G \in Int /\ x \in Int /\ z \in Int
        /\ Prod(f, i + 1) = F * z /\ Prod(g, i + 1) = G * g[i + 1]
    BY <1>1, ProdStep
  <2>2. (i < k => G = F) /\ (i >= k => G * x = F * y)
    BY <1>3, Zenon
  <2>3. CASE i + 1 < k
    BY <1>1, <2>1, <2>2, <2>3
  <2>4. CASE i + 1 = k
    <3>1. G = F /\ z = x /\ g[i + 1] = y
      BY <1>1, <2>2, <2>4
    <3> HIDE DEF F, G, x, z
    <3>2. (G * y) * x = (F * z) * y
      BY <2>1, <3>1
    <3> QED
      BY <2>1, <2>4, <3>1, <3>2 DEF x
  <2>5. CASE i >= k
    <3>1. G * x = F * y /\ g[i + 1] = z
      BY <1>1, <2>2, <2>5
    <3> HIDE DEF F, G, x, z
    <3>2. (G * z) * x = (G * x) * z /\ (F * y) * z = (F * z) * y
      BY <2>1
    <3>3. (G * z) * x = (F * z) * y
      BY <3>1, <3>2, Zenon
    <3> QED
      BY <2>1, <2>5, <3>1, <3>3 DEF x
  <2> QED
    BY <2>3, <2>4, <2>5
<1> HIDE DEF S
<1>4. n \in S
  BY <1>2, <1>3, Induction, Zenon
<1> QED
  BY <1>4 DEF S, g

Permutation(p, n) ==
    /\ p \in [1 .. n -> 1 .. n]
    /\ \A i, j \in 1 .. n : p[i] = p[j] => i = j
    /\ \A j \in 1 .. n : \E i \in 1 .. n : p[i] = j

(* The number k + 1 taken out of a permutation of 1 .. k + 1. *)
Without(r, k, l) == [i \in 1 .. k |-> IF i = l THEN r[k + 1] ELSE r[i]]

(* A permutation of 1 .. k + 1 without the index that maps to k + 1 is one *)
(* of 1 .. k.                                                              *)
LEMMA PermutationWithout ==
    ASSUME NEW k \in Nat, NEW r, Permutation(r, k + 1), NEW l \in 1 .. k + 1, r[l] = k + 1
    PROVE  Permutation(Without(r, k, l), k)
<1> DEFINE s == Without(r, k, l)
<1>1. /\ r \in [1 .. k + 1 -> 1 .. k + 1]
      /\ \A i, j \in 1 .. k + 1 : r[i] = r[j] => i = j
      /\ \A j \in 1 .. k + 1 : \E i \in 1 .. k + 1 : r[i] = j
  BY Zenon DEF Permutation
<1>2. \A i \in 1 .. k + 1 : i # l => r[i] \in 1 .. k
  <2> SUFFICES ASSUME NEW i \in 1 .. k + 1, i # l PROVE r[i] \in 1 .. k
    BY Zenon
  <2>1. r[i] # r[l] /\ r[i] \in 1 .. k + 1
    BY <1>1, Zenon
  <2> QED
    BY <2>1
<1>3. /\ s = [i \in 1 .. k |-> s[i]]
      /\ \A i \in 1 .. k : i # l => s[i] = r[i]
      /\ l \in 1 .. k => s[l] = r[k + 1]
  BY Zenon DEF Without
<1> HIDE DEF s
<1>4. \A i \in 1 .. k : s[i] \in 1 .. k
  <2> SUFFICES ASSUME NEW i \in 1 .. k PROVE s[i] \in 1 .. k
    BY Zenon
  <2>1. i \in 1 .. k + 1 /\ k + 1 \in 1 .. k + 1 /\ i # k + 1
    OBVIOUS
  <2> QED
    BY <1>2, <1>3, <2>1, Zenon
<1>5. s \in [1 .. k -> 1 .. k]
  BY <1>3, <1>4, Zenon
<1>6. ASSUME NEW i \in 1 .. k, NEW j \in 1 .. k, s[i] = s[j] PROVE i = j
  <2>1. i \in 1 .. k + 1 /\ j \in 1 .. k + 1 /\ k + 1 \in 1 .. k + 1 /\ i # k + 1 /\ j # k + 1
    OBVIOUS
  <2>2. CASE i # l /\ j # l
    BY <1>1, <1>3, <1>6, <2>1, <2>2, Zenon
  <2>3. CASE i = l /\ j # l
    <3>1. r[k + 1] = r[j]
      BY <1>3, <1>6, <2>3, Zenon
    <3> QED
      BY <1>1, <2>1, <3>1, Zenon
  <2>4. CASE i # l /\ j = l
    <3>1. r[k + 1] = r[i]
      BY <1>3, <1>6, <2>4, Zenon
    <3> QED
      BY <1>1, <2>1, <3>1, Zenon
  <2> QED
    BY <2>2, <2>3, <2>4, Zenon
<1>7. ASSUME NEW j \in 1 .. k PROVE \E i \in 1 .. k : s[i] = j
  <2>1. PICK i \in 1 .. k + 1 : r[i] = j
    BY <1>1
  <2>2. i # l
    BY <2>1
  <2>3. CASE i = k + 1
    <3>1. l \in 1 .. k /\ s[l] = j
      BY <1>3, <2>1, <2>2, <2>3
    <3> QED
      BY <3>1, Zenon
  <2>4. CASE i # k + 1
    <3>1. i \in 1 .. k /\ s[i] = j
      BY <1>3, <2>1, <2>2, <2>4
    <3> QED
      BY <3>1, Zenon
  <2> QED
    BY <2>3, <2>4, Zenon
<1> QED
  BY <1>5, <1>6, <1>7, Zenon DEF Permutation, s

(* The order of the factors does not matter. *)
LEMMA ProdPermute ==
    ASSUME NEW f \in [Nat -> Int], NEW g \in [Nat -> Int], NEW n \in Nat, NEW p, Permutation(p, n),
           \A i \in 1 .. n : g[i] = f[p[i]]
    PROVE  Prod(g, n) = Prod(f, n)
<1> DEFINE permuted(k, r, h) == /\ h \in [Nat -> Int] /\ Permutation(r, k)
                                /\ \A i \in 1 .. k : h[i] = f[r[i]]
           S == {k \in Nat : \A r, h : permuted(k, r, h) => Prod(h, k) = Prod(f, k)}
<1>1. 0 \in S
  BY ProdStep, Zenon
<1>2. ASSUME NEW k \in Nat, k \in S PROVE k + 1 \in S
  <2> SUFFICES ASSUME NEW r, NEW h, permuted(k + 1, r, h) PROVE Prod(h, k + 1) = Prod(f, k + 1)
    OBVIOUS
  <2>1. h \in [Nat -> Int] /\ Permutation(r, k + 1) /\ \A i \in 1 .. k + 1 : h[i] = f[r[i]]
    BY Zenon
  <2>2. PICK l \in 1 .. k + 1 : r[l] = k + 1
    BY <2>1 DEF Permutation
  <2> DEFINE r2 == Without(r, k, l)
             h2 == [h EXCEPT ![l] = h[k + 1]]
  <2>3. Permutation(r2, k)
    BY <2>1, <2>2, PermutationWithout, Zenon
  <2>4. h2 \in [Nat -> Int] /\ h2[l] = h[k + 1] /\ \A i \in Nat : i # l => h2[i] = h[i]
    BY <2>1
  <2>5. \A i \in 1 .. k : r2[i] = IF i = l THEN r[k + 1] ELSE r[i]
    BY Zenon DEF Without
  <2>6. l \in 1 .. k /\ h[k + 1] \in Int => Prod(h2, k) * h[l] = Prod(h, k) * h[k + 1]
    BY <2>1, ProdReplace, Zenon
  <2>7. l = k + 1 => h2 = h
    BY <2>1, Zenon
  <2> HIDE DEF permuted, h2, r2
  <2>8. ASSUME NEW i \in 1 .. k PROVE h2[i] = f[r2[i]]
    <3>1. i \in 1 .. k + 1 /\ k + 1 \in 1 .. k + 1 /\ i \in Nat
      OBVIOUS
    <3> QED
      BY <2>1, <2>4, <2>5, <3>1, Zenon
  <2>9. Prod(h2, k) = Prod(f, k)
    <3>1. permuted(k, r2, h2)
      BY <2>3, <2>4, <2>8, Zenon DEF permuted
    <3> QED
      BY <1>2, <3>1, Zenon
  <2>10. h[l] = f[k + 1] /\ h[k + 1] \in Int /\ Prod(h, k + 1) = Prod(h, k) * h[k + 1]
         /\ Prod(f, k + 1) = Prod(f, k) * f[k + 1]
    BY <2>1, <2>2, ProdStep
  <2>11. Prod(h, k + 1) = Prod(h2, k) * h[l]
    <3>1. CASE l = k + 1
      BY <2>7, <2>10, <3>1, Zenon
    <3>2. CASE l # k + 1
      BY <2>6, <2>10, <3>2
    <3> QED
      BY <3>1, <3>2, Zenon
  <2> QED
    BY <2>9, <2>10, <2>11, Zenon
<1>3. n \in S
  <2> HIDE DEF S
  <2> QED
    BY <1>1, <1>2, Induction, Zenon
<1>4. permuted(n, p, g)
  BY Zenon
<1> HIDE DEF permuted
<1> QED
  BY <1>3, <1>4, Zenon

(* Modulo a prime, a nonzero factor cancels. *)
LEMMA Cancel ==
    ASSUME NEW p, Prime(p), NEW a \in Int, NEW b \in Int, NEW c \in Int, Mod(c, p) # 0,
           Cong(a * c, b * c, p)
    PROVE  Cong(a, b, p)
<1>1. p \in Nat \ {0} /\ 1 \in 0 .. p - 1
  BY DEF Prime
<1>2. PICK x \in 1 .. p - 1 : Mod(c * x, p) = 1
  BY PrimeInverse, Zenon
<1>3. Cong(c * x, 1, p) /\ Cong(x, x, p) /\ Cong(a, a, p) /\ Cong(b, b, p)
  <2>1. Mod(1, p) = 1
    BY <1>1, ModSmall, Zenon
  <2> QED
    BY <1>2, <2>1 DEF Cong
<1>4. Cong((a * c) * x, (b * c) * x, p)
  BY <1>1, <1>3, CongMul, Zenon
<1>5. Cong(a * (c * x), a * 1, p) /\ Cong(b * (c * x), b * 1, p)
  BY <1>1, <1>3, CongMul, Zenon
<1>6. (a * c) * x = a * (c * x) /\ (b * c) * x = b * (c * x) /\ a * 1 = a /\ b * 1 = b
  OBVIOUS
<1> QED
  BY <1>4, <1>5, <1>6, Zenon DEF Cong

(* Multiplication by a, which p does not divide, permutes 1 .. p - 1. *)
LEMMA TimesPermutes ==
    ASSUME NEW p, Prime(p), NEW a \in Int, Mod(a, p) # 0
    PROVE  Permutation([i \in 1 .. p - 1 |-> Mod(a * i, p)], p - 1)
<1> DEFINE s == [i \in 1 .. p - 1 |-> Mod(a * i, p)]
<1>1. p \in Nat \ {0} /\ p >= 2
  BY DEF Prime
<1>2. \A i \in 1 .. p - 1 : i \in Int /\ a * i \in Int /\ Mod(i, p) = i
  BY <1>1, ModSmall
<1>3. ASSUME NEW i \in 1 .. p - 1 PROVE s[i] \in 1 .. p - 1
  <2>1. Mod(a * i, p) \in 0 .. p - 1
    BY <1>1, <1>2, ModRange, Zenon
  <2>2. Mod(a * i, p) # 0
    BY <1>2, PrimeProduct
  <2> QED
    BY <1>1, <2>1, <2>2
<1>4. ASSUME NEW i \in 1 .. p - 1, NEW j \in 1 .. p - 1, s[i] = s[j] PROVE i = j
  <2>1. Cong(a * i, a * j, p) /\ a * i = i * a /\ a * j = j * a
    BY <1>2, <1>4 DEF Cong
  <2>2. Cong(i, j, p)
    BY <1>2, <2>1, Cancel, Zenon
  <2> QED
    BY <1>2, <2>2, Zenon DEF Cong
<1>5. ASSUME NEW j \in 1 .. p - 1 PROVE \E i \in 1 .. p - 1 : s[i] = j
  <2>1. PICK x \in 1 .. p - 1 : Mod(a * x, p) = 1
    BY PrimeInverse, Zenon
  <2> DEFINE i == Mod(x * j, p)
  <2>2. x * j \in Int /\ x \in Int /\ a * x \in Int /\ Mod(1, p) = 1 /\ j \in Int
    BY <1>1, ModSmall
  <2>3. Cong(i, x * j, p) /\ Cong(a, a, p) /\ Cong(a * x, 1, p) /\ Cong(j, j, p) /\ i \in 0 .. p - 1
    BY <1>1, <2>1, <2>2, ModMod, ModRange, Zenon DEF Cong
  <2> HIDE DEF i
  <2>4. Cong(a * i, a * (x * j), p) /\ Cong((a * x) * j, 1 * j, p)
    BY <1>1, <2>3, CongMul, Zenon
  <2>5. a * (x * j) = (a * x) * j /\ 1 * j = j
    OBVIOUS
  <2>6. Mod(a * i, p) = j
    BY <1>2, <2>4, <2>5, Zenon DEF Cong
  <2>7. i # 0
    <3> SUFFICES ASSUME i = 0 PROVE FALSE
      BY Zenon
    <3>1. a * i = 0 /\ Mod(0, p) = 0
      BY <1>1, ModSmall
    <3> QED
      BY <2>6, <3>1
  <2>8. i \in 1 .. p - 1
    BY <1>1, <2>3, <2>7
  <2> QED
    BY <2>6, <2>8, Zenon
<1>6. s \in [1 .. p - 1 -> 1 .. p - 1]
  BY <1>3, Zenon
<1> HIDE DEF s
<1>7. Permutation(s, p - 1)
  BY <1>4, <1>5, <1>6, Zenon DEF Permutation
<1> QED
  BY <1>7, Zenon DEF s

(* Fermat: the powers of a repeat modulo p after p - 1 steps, which is why *)
(* AggSig may reduce the re-encryption key modulo q - 1.                   *)
LEMMA Fermat ==
    ASSUME NEW p, Prime(p), NEW a \in Int, Mod(a, p) # 0
    PROVE  Cong(Pow(a, p - 1), 1, p)
<1> DEFINE s == [i \in 1 .. p - 1 |-> Mod(a * i, p)]
           f == [i \in Nat |-> i]
           c == [i \in Nat |-> a]
           g == [i \in Nat |-> Mod(a * i, p)]
           w == Prod(f, p - 1)
<1>1. p \in Nat \ {0} /\ p >= 2 /\ p - 1 \in Nat
  BY DEF Prime
<1>2. f \in [Nat -> Int] /\ c \in [Nat -> Int] /\ \A i \in Nat : a * i \in Int
  OBVIOUS
<1>3. g \in [Nat -> Int] /\ \A i \in Nat : Cong(g[i], a * i, p)
  BY <1>1, <1>2, ModMod, Zenon
<1>4. \A i \in 1 .. p - 1 : g[i] = f[s[i]]
  <2> SUFFICES ASSUME NEW i \in 1 .. p - 1 PROVE g[i] = f[s[i]]
    BY Zenon
  <2>1. a * i \in Int
    OBVIOUS
  <2>2. Mod(a * i, p) \in 0 .. p - 1
    BY <1>1, <2>1, ModRange, Zenon
  <2> QED
    BY <2>2
<1>5. Permutation(s, p - 1)
  BY TimesPermutes, Zenon
<1>6. \A i \in 1 .. p - 1 : Mod(f[i], p) # 0 /\ Cong(g[i], c[i] * f[i], p)
  BY <1>1, <1>3, ModSmall
<1>7. Prod(c, p - 1) = Pow(a, p - 1)
  BY Zenon DEF Pow
<1> HIDE DEF f, g, c, s
<1>8. Prod(g, p - 1) = w
  BY <1>1, <1>2, <1>3, <1>4, <1>5, ProdPermute, Zenon
<1>9. Cong(Prod(g, p - 1), Pow(a, p - 1) * w, p)
  BY <1>1, <1>2, <1>3, <1>6, <1>7, ProdTimes, Zenon
<1>10. w \in Int /\ Mod(w, p) # 0 /\ Pow(a, p - 1) \in Int
  BY <1>1, <1>2, <1>6, ProdNonzero, ProdStep, PowStep, Zenon
<1> HIDE DEF w
<1>11. Cong(Pow(a, p - 1) * w, 1 * w, p) /\ 1 \in Int
  BY <1>8, <1>9, <1>10, CongSym
<1> QED
  BY <1>10, <1>11, Cancel, Zenon

(* Adding a multiple of p - 1 to an exponent changes nothing modulo p. *)
LEMMA PowMultiple ==
    ASSUME NEW p, Prime(p), NEW a \in Int, Mod(a, p) # 0, NEW k \in Nat, NEW l \in Nat
    PROVE  Cong(Pow(a, k + (p - 1) * l), Pow(a, k), p)
<1> DEFINE b == Pow(a, p - 1)
<1>1. p \in Nat \ {0} /\ p - 1 \in Nat
  BY DEF Prime
<1>2. (p - 1) * l \in Nat
  BY <1>1
<1>3. Pow(a, k + (p - 1) * l) = Pow(a, k) * Pow(a, (p - 1) * l)
  BY <1>2, PowAdd, Zenon
<1>4. Pow(a, (p - 1) * l) = Pow(b, l)
  BY <1>1, PowPow, Zenon
<1>5. Cong(b, 1, p) /\ b \in Int
  BY <1>1, Fermat, PowStep, Zenon
<1> HIDE DEF b
<1>6. Cong(Pow(b, l), 1, p)
  <2>1. Cong(Pow(b, l), Pow(1, l), p)
    BY <1>1, <1>5, PowCong
  <2> QED
    BY <2>1, PowOne, Zenon
<1>7. Pow(a, k) \in Int /\ Cong(Pow(a, k), Pow(a, k), p)
  BY PowStep, CongRefl, Zenon
<1>8. Cong(Pow(a, k) * Pow(b, l), Pow(a, k) * 1, p)
  BY <1>1, <1>6, <1>7, CongMul, Zenon
<1>9. Pow(a, k) * 1 = Pow(a, k)
  BY <1>7
<1> QED
  BY <1>3, <1>4, <1>8, <1>9, Zenon

(* Exponents that are congruent modulo p - 1 give the same power. *)
LEMMA PowExponent ==
    ASSUME NEW p, Prime(p), NEW a \in Int, Mod(a, p) # 0, NEW j \in Nat, NEW k \in Nat,
           Cong(j, k, p - 1)
    PROVE  Cong(Pow(a, j), Pow(a, k), p)
<1>1. p - 1 \in Nat \ {0}
  BY DEF Prime
<1>2. PICK l \in Int : j = k + (p - 1) * l
  BY <1>1, ModEq, Zenon DEF Cong
<1>3. CASE l >= 0
  <2>1. l \in Nat
    BY <1>3
  <2> QED
    BY <1>2, <2>1, PowMultiple, Zenon
<1>4. CASE l < 0
  <2>1. -l \in Nat /\ k = j + (p - 1) * (-l)
    BY <1>1, <1>2, <1>4
  <2>2. Cong(Pow(a, j + (p - 1) * (-l)), Pow(a, j), p)
    BY <2>1, PowMultiple, Zenon
  <2> QED
    BY <2>1, <2>2, CongSym, Zenon
<1> QED
  BY <1>3, <1>4

-----------------------------------------------------------------------------
(* Interpolation modulo a prime. *)

(* Lagrange interpolation at 0 over the residues modulo a prime. *)

Inv(a, m) ==
    IF \E x \in 1 .. m - 1 : Mod(a * x, m) = 1 THEN CHOOSE x \in 1 .. m - 1 : Mod(a * x, m) = 1 ELSE 0

(* The inverse that Inv chooses is one, modulo a prime. *)
LEMMA InvPrime ==
    ASSUME NEW p, Prime(p), NEW a \in Int
    PROVE  Inv(a, p) \in 0 .. p - 1 /\ (Mod(a, p) # 0 => Cong(a * Inv(a, p), 1, p))
<1>1. p \in Nat \ {0} /\ p >= 2 /\ Mod(1, p) = 1
  BY ModSmall DEF Prime
<1>2. CASE \E x \in 1 .. p - 1 : Mod(a * x, p) = 1
  <2>1. Inv(a, p) \in 1 .. p - 1 /\ Mod(a * Inv(a, p), p) = 1
    BY <1>2, Zenon DEF Inv
  <2>2. Inv(a, p) \in Int
    BY <1>1, <2>1
  <2> QED
    BY <1>1, <2>1, <2>2 DEF Cong
<1>3. CASE ~ \E x \in 1 .. p - 1 : Mod(a * x, p) = 1
  <2>1. Inv(a, p) = 0 /\ Mod(a, p) = 0
    BY <1>3, PrimeInverse, Zenon DEF Inv
  <2> QED
    BY <1>1, <2>1
<1> QED
  BY <1>2, <1>3, Zenon

(* The product over the other points, and over the differences to them. *)
Num(x, i) == [j \in Nat |-> IF j = i THEN 1 ELSE x[j]]
Den(x, i) == [j \in Nat |-> IF j = i THEN 1 ELSE x[j] - x[i]]

Points(x, n, p) ==
    /\ x \in [Nat -> Int]
    /\ \A i, j \in 1 .. n : i # j => Mod(x[i] - x[j], p) # 0

(* P[i] is the product of x[j] / (x[j] - x[i]) over the other points. *)
IsCoef(P, x, n, p) ==
    /\ P \in [Nat -> Int]
    /\ \A i \in 1 .. n : Cong(P[i] * Prod(Den(x, i), n), Prod(Num(x, i), n), p)

(* Numerators and denominators of the coefficients are integers. *)
LEMMA CoefTypes ==
    ASSUME NEW x \in [Nat -> Int], NEW i \in Nat
    PROVE  /\ Num(x, i) \in [Nat -> Int] /\ Den(x, i) \in [Nat -> Int]
           /\ \A k \in Nat : Prod(Num(x, i), k) \in Int /\ Prod(Den(x, i), k) \in Int
<1>1. Num(x, i) \in [Nat -> Int] /\ Den(x, i) \in [Nat -> Int]
  BY DEF Num, Den
<1> QED
  BY <1>1, ProdStep, Zenon

(* At distinct points no denominator is 0. *)
LEMMA DenNonzero ==
    ASSUME NEW p, Prime(p), NEW n \in Nat, NEW x, Points(x, n, p), NEW i \in 1 .. n
    PROVE  Mod(Prod(Den(x, i), n), p) # 0
<1>1. Den(x, i) \in [Nat -> Int]
  BY CoefTypes DEF Points
<1>2. \A j \in 1 .. n : Mod(Den(x, i)[j], p) # 0
  <2>1. p \in Nat \ {0} /\ 1 \in 0 .. p - 1
    BY DEF Prime
  <2>2. Mod(1, p) = 1
    BY <2>1, ModSmall, Zenon
  <2> QED
    BY <2>2 DEF Den, Points
<1> QED
  BY <1>1, <1>2, ProdNonzero, Zenon

(* At distinct points there are coefficients. *)
LEMMA CoefExists ==
    ASSUME NEW p, Prime(p), NEW n \in Nat, NEW x, Points(x, n, p)
    PROVE  \E P : IsCoef(P, x, n, p)
<1> DEFINE P == [i \in Nat |-> Prod(Num(x, i), n) * Inv(Prod(Den(x, i), n), p)]
<1>0. p \in Nat \ {0} /\ x \in [Nat -> Int]
  BY DEF Points, Prime
<1>1. P \in [Nat -> Int]
  <2> SUFFICES ASSUME NEW i \in Nat PROVE Prod(Num(x, i), n) * Inv(Prod(Den(x, i), n), p) \in Int
    BY Zenon
  <2>1. Prod(Num(x, i), n) \in Int /\ Prod(Den(x, i), n) \in Int
    BY <1>0, CoefTypes, Zenon
  <2>2. Inv(Prod(Den(x, i), n), p) \in Int
    BY <1>0, <2>1, InvPrime
  <2> QED
    BY <2>1, <2>2
<1>2. ASSUME NEW i \in 1 .. n PROVE Cong(P[i] * Prod(Den(x, i), n), Prod(Num(x, i), n), p)
  <2> DEFINE N == Prod(Num(x, i), n)
             D == Prod(Den(x, i), n)
             w == Inv(D, p)
  <2>1. N \in Int /\ D \in Int /\ i \in Nat
    BY <1>0, CoefTypes
  <2>2. Mod(D, p) # 0
    BY DenNonzero, Zenon
  <2>3. w \in Int /\ Cong(D * w, 1, p) /\ Cong(N, N, p)
    BY <1>0, <2>1, <2>2, InvPrime DEF Cong
  <2>4. P[i] = N * w
    BY <2>1, Zenon
  <2> HIDE DEF N, D, w, P
  <2>5. Cong(N * (D * w), N * 1, p)
    BY <1>0, <2>3, CongMul, Zenon
  <2>6. N * (D * w) = (N * w) * D /\ N * 1 = N
    BY <2>1, <2>3
  <2>7. Cong(P[i] * D, N, p)
    BY <2>4, <2>5, <2>6, Zenon
  <2> QED
    BY <2>7, Zenon DEF N, D
<1> HIDE DEF P
<1> QED
  BY <1>1, <1>2, Zenon DEF IsCoef

(* A point more: how the coefficients change. *)
LEMMA CoefStep ==
    ASSUME NEW p, Prime(p), NEW n \in Nat, NEW x, Points(x, n + 1, p),
           NEW P, IsCoef(P, x, n, p), NEW Q, IsCoef(Q, x, n + 1, p), NEW i \in 1 .. n
    PROVE  Cong(Q[i] * (x[n + 1] - x[i]), P[i] * x[n + 1], p)
<1> DEFINE N == Prod(Num(x, i), n)
           D == Prod(Den(x, i), n)
           w == x[n + 1]
           y == x[n + 1] - x[i]
           a == P[i]
           b == Q[i]
<1>1. /\ p \in Nat \ {0} /\ i \in Nat /\ n + 1 \in Nat /\ i # n + 1
      /\ x \in [Nat -> Int] /\ P \in [Nat -> Int] /\ Q \in [Nat -> Int]
  BY DEF Prime, Points, IsCoef
<1>2. N \in Int /\ D \in Int /\ w \in Int /\ y \in Int /\ a \in Int /\ b \in Int
  BY <1>1, CoefTypes
<1>3. Num(x, i)[n + 1] = w /\ Den(x, i)[n + 1] = y
  BY <1>1, Zenon DEF Num, Den
<1>4. Prod(Num(x, i), n + 1) = N * w /\ Prod(Den(x, i), n + 1) = D * y
  <2>1. Num(x, i) \in [Nat -> Int] /\ Den(x, i) \in [Nat -> Int]
    BY <1>1, CoefTypes, Zenon
  <2> QED
    BY <1>3, <2>1, ProdStep, Zenon
<1>5. Cong(a * D, N, p) /\ Cong(b * Prod(Den(x, i), n + 1), Prod(Num(x, i), n + 1), p)
  BY DEF IsCoef
<1>6. Cong(b * (D * y), N * w, p)
  BY <1>4, <1>5, Zenon
<1>7. Points(x, n, p)
  BY DEF Points
<1>8. Mod(D, p) # 0
  BY <1>7, DenNonzero, Zenon
<1> HIDE DEF N, D, w, y, a, b
<1>9. Cong((a * D) * w, N * w, p)
  BY <1>1, <1>2, <1>5, CongMul, CongRefl, Zenon
<1>10. (a * D) * w = (a * w) * D /\ b * (D * y) = (b * y) * D
  BY <1>2
<1>11. Cong((b * y) * D, (a * w) * D, p) /\ b * y \in Int /\ a * w \in Int
  BY <1>2, <1>6, <1>9, <1>10, CongSym, CongTrans
<1>12. Cong(b * y, a * w, p)
  BY <1>2, <1>8, <1>11, Cancel, Zenon
<1> QED
  BY <1>12, Zenon DEF w, y, a, b

(* Inverses of three differences a, a + c and c. *)
LEMMA PartialFraction ==
    ASSUME NEW p \in Nat \ {0}, NEW a \in Int, NEW c \in Int, NEW u \in Int, NEW z \in Int, NEW v \in Int,
           Cong(u * a, 1, p), Cong(z * (a + c), 1, p), Cong(v * c, 1, p)
    PROVE  Cong(u * z, v * u + (-v) * z, p)
<1>1. Cong(u, u, p) /\ Cong(z, z, p) /\ Cong(v, v, p) /\ Cong(u * z, u * z, p) /\ Cong(-v, -v, p)
  BY CongRefl
<1>2. Cong(u * (z * (a + c)), u * 1, p)
  BY <1>1, CongMul, Zenon
<1>3. Cong(z * (u * a), z * 1, p)
  BY <1>1, CongMul, Zenon
<1>4. Cong(v * (u * (z * (a + c))), v * (u * 1), p)
  BY <1>1, <1>2, CongMul, Zenon
<1>5. Cong((-v) * (z * (u * a)), (-v) * (z * 1), p)
  BY <1>1, <1>3, CongMul, Zenon
<1>6. Cong(v * (u * (z * (a + c))) + (-v) * (z * (u * a)), v * (u * 1) + (-v) * (z * 1), p)
  BY <1>4, <1>5, CongAdd, Zenon
<1>7. Cong((u * z) * (v * c), (u * z) * 1, p)
  BY <1>1, CongMul, Zenon
<1>8. v * (u * (z * (a + c))) + (-v) * (z * (u * a)) = (u * z) * (v * c)
  OBVIOUS
<1>9. v * (u * 1) + (-v) * (z * 1) = v * u + (-v) * z /\ (u * z) * 1 = u * z
  OBVIOUS
<1> QED
  BY <1>6, <1>7, <1>8, <1>9, CongSym, CongTrans

(* x[i] / (y - x[i]), weighted by the coefficients. *)
Weighted(P, x, z) == [i \in Nat |-> (P[i] * x[i]) * z[i]]
Away(x, y) == [j \in Nat |-> x[j] - y]

(* z[i] is the inverse of y - x[i]. *)
Inverses(z, x, y, n, p) ==
    /\ z \in [Nat -> Int]
    /\ \A i \in 1 .. n : Cong(z[i] * (y - x[i]), 1, p)

(* The sum of P[i] x[i] / (y - x[i]) is minus the product of x[j] / (x[j] - y). *)
Fractions(x, n, p) ==
    \A P, y, z : IsCoef(P, x, n, p) /\ y \in Int /\ Inverses(z, x, y, n, p) =>
        Cong(Sum(Weighted(P, x, z), n) * Prod(Away(x, y), n), -Prod(x, n), p)

(* The terms of the sum of fractions are integers. *)
LEMMA WeightedTypes ==
    ASSUME NEW P \in [Nat -> Int], NEW x \in [Nat -> Int], NEW z \in [Nat -> Int], NEW y \in Int
    PROVE  /\ Weighted(P, x, z) \in [Nat -> Int] /\ Away(x, y) \in [Nat -> Int]
           /\ \A k \in Nat : Sum(Weighted(P, x, z), k) \in Int /\ Prod(Away(x, y), k) \in Int
                              /\ Prod(x, k) \in Int
<1>1. Weighted(P, x, z) \in [Nat -> Int] /\ Away(x, y) \in [Nat -> Int]
  BY DEF Weighted, Away
<1> QED
  BY <1>1, SumStep, ProdStep, Zenon

(* The distances from a further point to the others have inverses. *)
LEMMA InversesExist ==
    ASSUME NEW p, Prime(p), NEW n \in Nat, NEW x, Points(x, n + 1, p)
    PROVE  \E u : Inverses(u, x, x[n + 1], n, p)
<1> DEFINE w == x[n + 1]
           u == [i \in Nat |-> Inv(w - x[i], p)]
<1>1. x \in [Nat -> Int] /\ p \in Nat \ {0}
  BY DEF Points, Prime
<1>2. ASSUME NEW i \in Nat PROVE w - x[i] \in Int /\ Inv(w - x[i], p) \in Int
  <2>1. w - x[i] \in Int
    BY <1>1
  <2> QED
    BY <1>1, <2>1, InvPrime
<1>3. ASSUME NEW i \in 1 .. n PROVE Cong(u[i] * (w - x[i]), 1, p)
  <2>1. i \in Nat /\ Mod(w - x[i], p) # 0
    BY DEF Points
  <2>2. Cong((w - x[i]) * Inv(w - x[i], p), 1, p)
    BY <1>2, <2>1, InvPrime, Zenon
  <2>3. (w - x[i]) * Inv(w - x[i], p) = Inv(w - x[i], p) * (w - x[i])
    BY <1>2, <2>1
  <2> QED
    BY <2>1, <2>2, <2>3, Zenon
<1>4. u \in [Nat -> Int]
  BY <1>2, Zenon
<1> HIDE DEF u
<1> QED
  BY <1>3, <1>4, Zenon DEF Inverses

(* The coefficient of the new point. *)
LEMMA CoefNew ==
    ASSUME NEW p, Prime(p), NEW n \in Nat, NEW x, Points(x, n + 1, p), NEW Q, IsCoef(Q, x, n + 1, p)
    PROVE  /\ Cong(Q[n + 1] * Prod(Away(x, x[n + 1]), n), Prod(x, n), p)
           /\ Mod(Prod(Away(x, x[n + 1]), n), p) # 0
<1> DEFINE D == Den(x, n + 1)
           N == Num(x, n + 1)
           w == x[n + 1]
           A == Away(x, w)
<1>1. /\ p \in Nat \ {0} /\ n + 1 \in Nat /\ n + 1 \in 1 .. n + 1
      /\ x \in [Nat -> Int] /\ Q \in [Nat -> Int] /\ w \in Int
  BY DEF Prime, Points, IsCoef
<1>2. D \in [Nat -> Int] /\ N \in [Nat -> Int] /\ A \in [Nat -> Int]
  BY <1>1, CoefTypes DEF Away
<1>3. D[n + 1] = 1 /\ N[n + 1] = 1
  BY <1>1, Zenon DEF Den, Num
<1>4. ASSUME NEW i \in 1 .. n
      PROVE  D[i] = A[i] /\ N[i] = x[i] /\ Mod(A[i], p) # 0 /\ D[i] \in Int /\ N[i] \in Int
  <2>1. i \in Nat /\ i # n + 1 /\ i \in 1 .. n + 1
    OBVIOUS
  <2> QED
    BY <1>1, <1>2, <2>1, Zenon DEF Den, Num, Away, Points
<1>5. Cong(Q[n + 1] * Prod(D, n + 1), Prod(N, n + 1), p)
  BY <1>1, Zenon DEF IsCoef
<1> HIDE DEF D, N, A, w
<1>6. Prod(D, n + 1) = Prod(D, n) /\ Prod(N, n + 1) = Prod(N, n)
      /\ Prod(D, n) \in Int /\ Prod(N, n) \in Int /\ Prod(A, n) \in Int /\ Q[n + 1] \in Int
  BY <1>1, <1>2, <1>3, ProdStep
<1>7. Cong(Prod(A, n), Prod(D, n), p) /\ Cong(Prod(N, n), Prod(x, n), p)
  BY <1>1, <1>2, <1>4, CongRefl, ProdCong, Zenon
<1>8. Cong(Q[n + 1] * Prod(A, n), Q[n + 1] * Prod(D, n), p)
  BY <1>1, <1>6, <1>7, CongRefl, CongMul, Zenon
<1>9. Cong(Q[n + 1] * Prod(A, n), Prod(x, n), p)
  BY <1>5, <1>6, <1>7, <1>8, CongTrans, Zenon
<1>10. Mod(Prod(A, n), p) # 0
  BY <1>2, <1>4, ProdNonzero, Zenon
<1> QED
  BY <1>9, <1>10, Zenon DEF A, w

(* The sum of fractions at the new point is the new coefficient, negated. *)
LEMMA FractionsAtNew ==
    ASSUME NEW p, Prime(p), NEW n \in Nat, NEW x, Points(x, n + 1, p), Fractions(x, n, p),
           NEW P, IsCoef(P, x, n, p), NEW Q, IsCoef(Q, x, n + 1, p),
           NEW u, Inverses(u, x, x[n + 1], n, p)
    PROVE  Cong(Sum(Weighted(P, x, u), n), -Q[n + 1], p)
<1> DEFINE s == Sum(Weighted(P, x, u), n)
           A == Prod(Away(x, x[n + 1]), n)
           X == Prod(x, n)
           b == Q[n + 1]
<1>1. /\ p \in Nat \ {0} /\ x \in [Nat -> Int] /\ P \in [Nat -> Int] /\ Q \in [Nat -> Int]
      /\ u \in [Nat -> Int] /\ x[n + 1] \in Int
  BY DEF Prime, Points, IsCoef, Inverses
<1>2. s \in Int /\ A \in Int /\ X \in Int /\ b \in Int
  <2>1. Sum(Weighted(P, x, u), n) \in Int
    BY <1>1, WeightedTypes, Zenon
  <2>2. Prod(Away(x, x[n + 1]), n) \in Int /\ Prod(x, n) \in Int
    BY <1>1, WeightedTypes, Zenon
  <2> QED
    BY <1>1, <2>1, <2>2
<1>3. Cong(s * A, -X, p)
  BY <1>1, Zenon DEF Fractions
<1>4. Cong(b * A, X, p) /\ Mod(A, p) # 0
  BY CoefNew, Zenon
<1> HIDE DEF s, A, X, b
<1>5. Cong((-1) * (b * A), (-1) * X, p)
  <2>1. Cong(-1, -1, p)
    BY <1>1, CongRefl
  <2> QED
    BY <1>1, <1>4, <2>1, CongMul, Zenon
<1>6. (-1) * (b * A) = (-b) * A /\ (-1) * X = -X /\ -b \in Int
  BY <1>2
<1>7. Cong(s * A, (-b) * A, p)
  BY <1>3, <1>5, <1>6, CongSym, CongTrans, Zenon
<1>8. Cong(s, -b, p)
  BY <1>2, <1>4, <1>6, <1>7, Cancel, Zenon
<1> QED
  BY <1>8, Zenon DEF s, b

(* How a further point changes the coefficient of an old one. *)
LEMMA CoefBy ==
    ASSUME NEW p, Prime(p), NEW n \in Nat, NEW x, Points(x, n + 1, p),
           NEW P, IsCoef(P, x, n, p), NEW Q, IsCoef(Q, x, n + 1, p),
           NEW u, Inverses(u, x, x[n + 1], n, p), NEW i \in 1 .. n
    PROVE  /\ Cong(Q[i], (P[i] * x[n + 1]) * u[i], p)
           /\ Cong(Q[i], 1 * P[i] + 1 * ((P[i] * x[i]) * u[i]), p)
<1> DEFINE w == x[n + 1]
           a == x[i]
           b == P[i]
           c == Q[i]
           v == u[i]
<1>1. p \in Nat \ {0} /\ w \in Int /\ a \in Int /\ b \in Int /\ c \in Int /\ v \in Int
  BY DEF Prime, Points, IsCoef, Inverses
<1>2. Cong(c * (w - a), b * w, p)
  BY CoefStep, Zenon
<1>3. Cong(v * (w - a), 1, p)
  BY Zenon DEF Inverses
<1> HIDE DEF w, a, b, c, v
<1>4. Cong(c, c, p) /\ Cong(v, v, p) /\ Cong(b, b, p) /\ Cong((b * a) * v, (b * a) * v, p)
  BY <1>1, CongRefl
<1>5. Cong((c * (w - a)) * v, (b * w) * v, p)
  BY <1>1, <1>2, <1>4, CongMul, Zenon
<1>6. Cong(c * (v * (w - a)), c * 1, p) /\ Cong(b * (v * (w - a)), b * 1, p)
  BY <1>1, <1>3, <1>4, CongMul, Zenon
<1>7. (c * (w - a)) * v = c * (v * (w - a)) /\ c * 1 = c /\ b * 1 = b
  BY <1>1
<1>8. Cong(c, (b * w) * v, p)
  BY <1>5, <1>6, <1>7, CongSym, CongTrans
<1>9. Cong(b * (v * (w - a)) + (b * a) * v, b + (b * a) * v, p)
  BY <1>1, <1>4, <1>6, <1>7, CongAdd, Zenon
<1>10. b * (v * (w - a)) + (b * a) * v = (b * w) * v /\ b + (b * a) * v = 1 * b + 1 * ((b * a) * v)
  BY <1>1
<1>11. Cong(c, 1 * b + 1 * ((b * a) * v), p)
  BY <1>8, <1>9, <1>10, CongTrans
<1> QED
  BY <1>8, <1>11, Zenon DEF w, a, b, c, v

(* Each term of the new sum of fractions splits into two old ones. *)
LEMMA FractionsTerm ==
    ASSUME NEW p, Prime(p), NEW n \in Nat, NEW x, Points(x, n + 1, p),
           NEW P, IsCoef(P, x, n, p), NEW Q, IsCoef(Q, x, n + 1, p),
           NEW u, Inverses(u, x, x[n + 1], n, p), NEW y \in Int,
           NEW z, Inverses(z, x, y, n + 1, p), NEW i \in 1 .. n
    PROVE  Cong((Q[i] * x[i]) * z[i],
                (x[n + 1] * z[n + 1]) * ((P[i] * x[i]) * u[i])
                    + (-(x[n + 1] * z[n + 1])) * ((P[i] * x[i]) * z[i]), p)
<1> DEFINE w == x[n + 1]
           v == z[n + 1]
           a == x[i]
           b == P[i]
           c == Q[i]
           r == u[i]
           s == z[i]
<1>1. /\ p \in Nat \ {0} /\ w \in Int /\ a \in Int /\ b \in Int /\ c \in Int /\ r \in Int
      /\ s \in Int /\ v \in Int
  BY DEF Prime, Points, IsCoef, Inverses
<1>2. Cong(c, (b * w) * r, p)
  BY CoefBy, Zenon
<1>3. Cong(r * (w - a), 1, p)
  BY Zenon DEF Inverses
<1>4. i \in 1 .. n + 1 /\ n + 1 \in 1 .. n + 1
  OBVIOUS
<1>5. Cong(s * (y - a), 1, p) /\ Cong(v * (y - w), 1, p)
  BY <1>4, Zenon DEF Inverses
<1> HIDE DEF w, a, b, c, v, r, s
<1>6. y - a = (w - a) + (y - w) /\ w - a \in Int /\ y - w \in Int
  BY <1>1
<1>7. Cong(s * ((w - a) + (y - w)), 1, p)
  BY <1>5, <1>6, Zenon
<1>8. Cong(r * s, v * r + (-v) * s, p)
  BY <1>1, <1>3, <1>5, <1>6, <1>7, PartialFraction, Zenon
<1>9. Cong(a * s, a * s, p) /\ Cong((b * w) * a, (b * w) * a, p)
  BY <1>1, CongRefl
<1>10. Cong(c * (a * s), ((b * w) * r) * (a * s), p)
  BY <1>1, <1>2, <1>9, CongMul, Zenon
<1>11. Cong(((b * w) * a) * (r * s), ((b * w) * a) * (v * r + (-v) * s), p)
  BY <1>1, <1>8, <1>9, CongMul, Zenon
<1>12. c * (a * s) = (c * a) * s
  BY <1>1
<1>13. ((b * w) * r) * (a * s) = ((b * w) * a) * (r * s)
  BY <1>1
<1>14. ((b * w) * a) * (v * r + (-v) * s) = (w * v) * ((b * a) * r) + (-(w * v)) * ((b * a) * s)
  BY <1>1
<1>15. Cong((c * a) * s, (w * v) * ((b * a) * r) + (-(w * v)) * ((b * a) * s), p)
  BY <1>10, <1>11, <1>12, <1>13, <1>14, CongTrans
<1> QED
  BY <1>15, Zenon DEF w, a, b, c, v, r, s

(* The sum of fractions for one more point. *)
LEMMA FractionsStep ==
    ASSUME NEW p, Prime(p), NEW n \in Nat, NEW x, Points(x, n + 1, p), Fractions(x, n, p)
    PROVE  Fractions(x, n + 1, p)
<1> SUFFICES ASSUME NEW Q, IsCoef(Q, x, n + 1, p), NEW y \in Int, NEW z, Inverses(z, x, y, n + 1, p)
             PROVE  Cong(Sum(Weighted(Q, x, z), n + 1) * Prod(Away(x, y), n + 1), -Prod(x, n + 1), p)
  BY Zenon DEF Fractions
<1>1. Points(x, n, p)
  BY DEF Points
<1>2. PICK P : IsCoef(P, x, n, p)
  BY <1>1, CoefExists, Zenon
<1>3. PICK u : Inverses(u, x, x[n + 1], n, p)
  BY InversesExist, Zenon
<1> DEFINE U == Sum(Weighted(P, x, u), n)
           Z == Sum(Weighted(P, x, z), n)
           S == Sum(Weighted(Q, x, z), n)
           A == Prod(Away(x, y), n)
           X == Prod(x, n)
           w == x[n + 1]
           v == z[n + 1]
           b == Q[n + 1]
<1>4. /\ p \in Nat \ {0} /\ x \in [Nat -> Int] /\ P \in [Nat -> Int] /\ Q \in [Nat -> Int]
      /\ u \in [Nat -> Int] /\ z \in [Nat -> Int] /\ w \in Int /\ v \in Int /\ b \in Int
  BY <1>2, <1>3 DEF Prime, Points, IsCoef, Inverses
<1>5. /\ Weighted(P, x, u) \in [Nat -> Int] /\ Weighted(P, x, z) \in [Nat -> Int]
      /\ Weighted(Q, x, z) \in [Nat -> Int] /\ Away(x, y) \in [Nat -> Int]
  BY <1>4, WeightedTypes, Zenon
<1>6. U \in Int /\ Z \in Int /\ S \in Int /\ A \in Int /\ X \in Int
  BY <1>4, <1>5, SumStep, ProdStep, Zenon
<1>7. /\ Sum(Weighted(Q, x, z), n + 1) = S + (b * w) * v
      /\ Prod(Away(x, y), n + 1) = A * (w - y)
      /\ Prod(x, n + 1) = X * w
  <2>1. Weighted(Q, x, z)[n + 1] = (b * w) * v /\ Away(x, y)[n + 1] = w - y
    BY DEF Weighted, Away
  <2> QED
    BY <1>4, <1>5, <2>1, SumStep, ProdStep
<1>8. Cong(U, -b, p)
  BY <1>2, <1>3, FractionsAtNew, Zenon
<1>9. Inverses(z, x, y, n, p)
  BY DEF Inverses
<1>10. Cong(Z * A, -X, p)
  BY <1>2, <1>9, Zenon DEF Fractions
<1>11. Cong(v * (y - w), 1, p)
  <2>1. n + 1 \in 1 .. n + 1
    OBVIOUS
  <2> QED
    BY <2>1, Zenon DEF Inverses
<1>12. Cong(S, (w * v) * U + (-(w * v)) * Z, p)
  <2> DEFINE f == Weighted(P, x, u)
             g == Weighted(P, x, z)
             h == Weighted(Q, x, z)
             e == w * v
             d == -(w * v)
  <2>1. e \in Int /\ d \in Int
    BY <1>4
  <2>2. ASSUME NEW i \in 1 .. n PROVE Cong(h[i], e * f[i] + d * g[i], p)
    <3>1. i \in Nat
      OBVIOUS
    <3>2. h[i] = (Q[i] * x[i]) * z[i] /\ f[i] = (P[i] * x[i]) * u[i] /\ g[i] = (P[i] * x[i]) * z[i]
      BY <3>1, Zenon DEF Weighted
    <3> QED
      BY <1>2, <1>3, <3>2, FractionsTerm, Zenon
  <2> HIDE DEF e, d, f, g, h
  <2>3. Cong(Sum(h, n), e * Sum(f, n) + d * Sum(g, n), p)
    BY <1>4, <1>5, <2>1, <2>2, SumLinear, Zenon DEF f, g, h
  <2> QED
    BY <2>3, Zenon DEF e, d, f, g, h
<1> HIDE DEF U, Z, S, A, X, w, v, b
<1>13. Cong((w * v) * U, (w * v) * (-b), p)
  <2>1. Cong(w * v, w * v, p)
    BY <1>4, CongRefl
  <2> QED
    BY <1>4, <1>8, <2>1, CongMul, Zenon
<1>14. Cong((w * v) * U + ((-(w * v)) * Z + (b * w) * v), (w * v) * (-b) + ((-(w * v)) * Z + (b * w) * v), p)
  <2>1. (-(w * v)) * Z + (b * w) * v \in Int
    BY <1>4, <1>6
  <2>2. Cong((-(w * v)) * Z + (b * w) * v, (-(w * v)) * Z + (b * w) * v, p)
    BY <2>1, CongRefl, Zenon
  <2> QED
    BY <1>4, <1>13, <2>2, CongAdd, Zenon
<1>15. Cong(S + (b * w) * v, ((w * v) * U + (-(w * v)) * Z) + (b * w) * v, p)
  <2>1. Cong((b * w) * v, (b * w) * v, p)
    BY <1>4, CongRefl
  <2> QED
    BY <1>4, <1>12, <2>1, CongAdd, Zenon
<1>16. ((w * v) * U + (-(w * v)) * Z) + (b * w) * v = (w * v) * U + ((-(w * v)) * Z + (b * w) * v)
  BY <1>4, <1>6
<1>17. (w * v) * (-b) + ((-(w * v)) * Z + (b * w) * v) = (-(w * v)) * Z
  BY <1>4, <1>6
<1>18. Cong(S + (b * w) * v, (-(w * v)) * Z, p)
  BY <1>14, <1>15, <1>16, <1>17, CongTrans, Zenon
<1>19. Cong((S + (b * w) * v) * (A * (w - y)), ((-(w * v)) * Z) * (A * (w - y)), p)
  <2>1. Cong(A * (w - y), A * (w - y), p)
    BY <1>4, <1>6, CongRefl
  <2> QED
    BY <1>4, <1>18, <2>1, CongMul, Zenon
<1>20. Cong((Z * A) * (w * (v * (y - w))), (-X) * (w * 1), p)
  <2>1. Cong(w, w, p)
    BY <1>4, CongRefl, Zenon
  <2>2. Cong(w * (v * (y - w)), w * 1, p)
    BY <1>4, <1>11, <2>1, CongMul, Zenon
  <2> QED
    BY <1>4, <1>10, <2>2, CongMul, Zenon
<1>21. ((-(w * v)) * Z) * (A * (w - y)) = (Z * A) * (w * (v * (y - w)))
  BY <1>4, <1>6
<1>22. (-X) * (w * 1) = -(X * w)
  BY <1>4, <1>6
<1>23. Cong((S + (b * w) * v) * (A * (w - y)), -(X * w), p)
  BY <1>19, <1>20, <1>21, <1>22, CongTrans, Zenon
<1> QED
  BY <1>7, <1>23, Zenon

(* The coefficient of a single point is 1. *)
LEMMA CoefOne ==
    ASSUME NEW p, Prime(p), NEW x \in [Nat -> Int], NEW P, IsCoef(P, x, 1, p)
    PROVE  Cong(P[1], 1, p)
<1>1. 1 \in Nat /\ 0 + 1 = 1 /\ 1 \in 1 .. 1
  OBVIOUS
<1>2. Den(x, 1) \in [Nat -> Int] /\ Num(x, 1) \in [Nat -> Int] /\ P[1] \in Int
  BY <1>1, CoefTypes, Zenon DEF IsCoef
<1>3. Den(x, 1)[1] = 1 /\ Num(x, 1)[1] = 1
  BY <1>1, Zenon DEF Den, Num
<1>4. Prod(Den(x, 1), 1) = 1 /\ Prod(Num(x, 1), 1) = 1
  BY <1>1, <1>2, <1>3, ProdStep
<1>5. Cong(P[1] * Prod(Den(x, 1), 1), Prod(Num(x, 1), 1), p)
  BY <1>1, Zenon DEF IsCoef
<1> QED
  BY <1>2, <1>4, <1>5

(* The sum of fractions for a single point. *)
LEMMA FractionsOne ==
    ASSUME NEW p, Prime(p), NEW x, Points(x, 1, p)
    PROVE  Fractions(x, 1, p)
<1> SUFFICES ASSUME NEW P, IsCoef(P, x, 1, p), NEW y \in Int, NEW z, Inverses(z, x, y, 1, p)
             PROVE  Cong(Sum(Weighted(P, x, z), 1) * Prod(Away(x, y), 1), -Prod(x, 1), p)
  BY Zenon DEF Fractions
<1> DEFINE b == P[1]
           a == x[1]
           s == z[1]
<1>1. 0 \in Nat /\ 1 \in Nat /\ 0 + 1 = 1 /\ 1 \in 1 .. 1
  OBVIOUS
<1>2. /\ p \in Nat \ {0} /\ x \in [Nat -> Int] /\ P \in [Nat -> Int] /\ z \in [Nat -> Int]
      /\ a \in Int /\ b \in Int /\ s \in Int
  BY DEF Prime, Points, IsCoef, Inverses
<1>3. Weighted(P, x, z) \in [Nat -> Int] /\ Away(x, y) \in [Nat -> Int]
  BY <1>2, WeightedTypes, Zenon
<1>4. Weighted(P, x, z)[1] = (b * a) * s /\ Away(x, y)[1] = a - y
  BY <1>1, Zenon DEF Weighted, Away
<1>5. /\ Sum(Weighted(P, x, z), 1) = 0 + (b * a) * s
      /\ Prod(Away(x, y), 1) = 1 * (a - y) /\ Prod(x, 1) = 1 * a
  BY <1>1, <1>2, <1>3, <1>4, SumStep, ProdStep
<1>6. Cong(b, 1, p)
  BY <1>2, CoefOne, Zenon
<1>7. Cong(s * (y - a), 1, p)
  BY <1>1, Zenon DEF Inverses
<1> HIDE DEF a, b, s
<1>8. Cong(b * (s * (y - a)), 1 * 1, p)
  BY <1>2, <1>6, <1>7, CongMul, Zenon
<1>9. Cong(-a, -a, p)
  BY <1>2, CongRefl
<1>10. Cong((-a) * (b * (s * (y - a))), (-a) * (1 * 1), p)
  BY <1>2, <1>8, <1>9, CongMul, Zenon
<1>11. (-a) * (b * (s * (y - a))) = (0 + (b * a) * s) * (1 * (a - y)) /\ (-a) * (1 * 1) = -(1 * a)
  BY <1>2
<1> QED
  BY <1>5, <1>10, <1>11, Zenon

(* The sum of fractions, for any number of points. *)
LEMMA FractionsAll ==
    ASSUME NEW p, Prime(p), NEW x
    PROVE  \A n \in Nat : Points(x, n + 1, p) => Fractions(x, n + 1, p)
<1> DEFINE S == {k \in Nat : Points(x, k + 1, p) => Fractions(x, k + 1, p)}
<1>1. 0 \in S
  BY FractionsOne
<1>2. ASSUME NEW k \in Nat, k \in S PROVE k + 1 \in S
  <2>1. CASE Points(x, (k + 1) + 1, p)
    <3>1. Points(x, k + 1, p)
      BY <2>1 DEF Points
    <3>2. Fractions(x, k + 1, p) /\ k + 1 \in Nat
      BY <1>2, <3>1
    <3> HIDE DEF S
    <3>3. Fractions(x, (k + 1) + 1, p)
      BY <2>1, <3>2, FractionsStep, Zenon
    <3> QED
      BY <3>2, <3>3, Zenon DEF S
  <2> QED
    BY <2>1
<1> HIDE DEF S
<1>3. Nat \subseteq S
  BY <1>1, <1>2, Induction, Zenon
<1> QED
  BY <1>3, Zenon DEF S

(* The coefficients of n + 1 points add up to one. *)
UnitSum(x, n, p) == \A P : IsCoef(P, x, n, p) => Cong(Sum(P, n), 1, p)

(* The sum of the coefficients stays 1 with one more point. *)
LEMMA UnitSumStep ==
    ASSUME NEW p, Prime(p), NEW n \in Nat, NEW x, Points(x, n + 1, p), Fractions(x, n, p), UnitSum(x, n, p)
    PROVE  UnitSum(x, n + 1, p)
<1> SUFFICES ASSUME NEW Q, IsCoef(Q, x, n + 1, p)
             PROVE  Cong(Sum(Q, n + 1), 1, p)
  BY Zenon DEF UnitSum
<1>1. Points(x, n, p)
  BY DEF Points
<1>2. PICK P : IsCoef(P, x, n, p)
  BY <1>1, CoefExists, Zenon
<1>3. PICK u : Inverses(u, x, x[n + 1], n, p)
  BY InversesExist, Zenon
<1> DEFINE f == Weighted(P, x, u)
           b == Q[n + 1]
<1>4. /\ p \in Nat \ {0} /\ x \in [Nat -> Int] /\ P \in [Nat -> Int] /\ Q \in [Nat -> Int]
      /\ u \in [Nat -> Int] /\ b \in Int /\ x[n + 1] \in Int
  BY <1>2, <1>3 DEF Prime, Points, IsCoef, Inverses
<1>5. f \in [Nat -> Int]
  BY <1>4, WeightedTypes, Zenon
<1>6. Cong(Sum(P, n), 1, p)
  BY <1>2, Zenon DEF UnitSum
<1>7. Cong(Sum(f, n), -b, p)
  BY <1>2, <1>3, FractionsAtNew, Zenon
<1>8. ASSUME NEW i \in 1 .. n PROVE Cong(Q[i], 1 * P[i] + 1 * f[i], p)
  <2>1. i \in Nat
    OBVIOUS
  <2>2. f[i] = (P[i] * x[i]) * u[i]
    BY <2>1, Zenon DEF Weighted
  <2> QED
    BY <1>2, <1>3, <2>2, CoefBy, Zenon
<1> HIDE DEF f
<1>9. Cong(Sum(Q, n), 1 * Sum(P, n) + 1 * Sum(f, n), p)
  <2>1. 1 \in Int
    OBVIOUS
  <2> QED
    BY <1>4, <1>5, <1>8, <2>1, SumLinear, Zenon
<1>10. Sum(Q, n + 1) = Sum(Q, n) + b /\ Sum(P, n) \in Int /\ Sum(f, n) \in Int /\ Sum(Q, n) \in Int
  BY <1>4, <1>5, SumStep, Zenon
<1> HIDE DEF b
<1>11. Cong(Sum(P, n) + Sum(f, n), 1 + (-b), p)
  BY <1>4, <1>6, <1>7, CongAdd, Zenon
<1>12. 1 * Sum(P, n) + 1 * Sum(f, n) = Sum(P, n) + Sum(f, n)
  BY <1>10
<1>13. Cong(Sum(Q, n), 1 + (-b), p) /\ Cong(b, b, p)
  BY <1>4, <1>9, <1>11, <1>12, CongTrans, CongRefl, Zenon
<1>14. Cong(Sum(Q, n) + b, (1 + (-b)) + b, p)
  BY <1>4, <1>13, CongAdd, Zenon
<1>15. (1 + (-b)) + b = 1
  BY <1>4
<1> QED
  BY <1>10, <1>14, <1>15, Zenon

(* The coefficients add up to 1, for any number of points. *)
LEMMA UnitSumAll ==
    ASSUME NEW p, Prime(p), NEW x
    PROVE  \A n \in Nat : Points(x, n + 1, p) => UnitSum(x, n + 1, p)
<1> DEFINE S == {k \in Nat : Points(x, k + 1, p) => UnitSum(x, k + 1, p)}
<1>1. 0 \in S
  <2> SUFFICES ASSUME Points(x, 1, p), NEW P, IsCoef(P, x, 1, p) PROVE Cong(Sum(P, 1), 1, p)
    BY DEF UnitSum
  <2>1. x \in [Nat -> Int] /\ P \in [Nat -> Int] /\ P[1] \in Int
    BY Zenon DEF Points, IsCoef
  <2>2. 0 \in Nat /\ 0 + 1 = 1
    OBVIOUS
  <2>3. Sum(P, 1) = P[1]
    BY <2>1, <2>2, SumStep
  <2> QED
    BY <2>1, <2>3, CoefOne, Zenon
<1>2. ASSUME NEW k \in Nat, k \in S PROVE k + 1 \in S
  <2>1. CASE Points(x, (k + 1) + 1, p)
    <3>1. Points(x, k + 1, p)
      BY <2>1 DEF Points
    <3>2. UnitSum(x, k + 1, p) /\ k + 1 \in Nat
      BY <1>2, <3>1
    <3> HIDE DEF S
    <3>3. Fractions(x, k + 1, p)
      BY <3>1, FractionsAll, Zenon
    <3>4. UnitSum(x, (k + 1) + 1, p)
      BY <2>1, <3>2, <3>3, UnitSumStep, Zenon
    <3> QED
      BY <3>2, <3>4, Zenon DEF S
  <2> QED
    BY <2>1
<1> HIDE DEF S
<1>3. Nat \subseteq S
  BY <1>1, <1>2, Induction, Zenon
<1> QED
  BY <1>3, Zenon DEF S

(* The values d[l] y + b[l] of the linear factors at y, and the terms      *)
(* P[i] f(x[i]) of the interpolation of their product f, of k factors.     *)
Factor(d, b, y) == [l \in Nat |-> d[l] * y + b[l]]
Term(P, x, d, b, k) == [i \in Nat |-> P[i] * Prod(Factor(d, b, x[i]), k)]

(* The sum of P[i] f(x[i]) is f(0). *)
Interpolates(x, n, p, d, b, k) ==
    \A P : IsCoef(P, x, n, p) => Cong(Sum(Term(P, x, d, b, k), n), Prod(b, k), p)

(* A product of linear factors grows by a factor. *)
LEMMA FactorStep ==
    ASSUME NEW d \in [Nat -> Int], NEW b \in [Nat -> Int], NEW k \in Nat, NEW y \in Int
    PROVE  /\ Prod(Factor(d, b, y), k) \in Int
           /\ Prod(Factor(d, b, y), k + 1) = Prod(Factor(d, b, y), k) * (d[k + 1] * y + b[k + 1])
<1>1. Factor(d, b, y) \in [Nat -> Int]
  BY DEF Factor
<1>2. Factor(d, b, y)[k + 1] = d[k + 1] * y + b[k + 1]
  BY DEF Factor
<1> QED
  BY <1>1, <1>2, ProdStep, Zenon

(* The terms of the interpolation are integers. *)
LEMMA TermTypes ==
    ASSUME NEW P \in [Nat -> Int], NEW x \in [Nat -> Int], NEW d \in [Nat -> Int], NEW b \in [Nat -> Int],
           NEW k \in Nat
    PROVE  Term(P, x, d, b, k) \in [Nat -> Int]
<1>1. ASSUME NEW i \in Nat PROVE P[i] * Prod(Factor(d, b, x[i]), k) \in Int
  <2>1. x[i] \in Int /\ P[i] \in Int
    BY Zenon
  <2>2. Prod(Factor(d, b, x[i]), k) \in Int
    BY <2>1, FactorStep, Zenon
  <2> QED
    BY <2>1, <2>2
<1> QED
  BY <1>1, Zenon DEF Term

(* How one more linear factor splits a term. *)
LEMMA InterpolatesTerm ==
    ASSUME NEW p, Prime(p), NEW n \in Nat, NEW x, Points(x, n + 1, p),
           NEW P, IsCoef(P, x, n, p), NEW Q, IsCoef(Q, x, n + 1, p), NEW i \in 1 .. n, NEW c \in Int
    PROVE  Cong((Q[i] * c) * x[i], x[n + 1] * (Q[i] * c) + (-x[n + 1]) * (P[i] * c), p)
<1> DEFINE w == x[n + 1]
           a == x[i]
           b == P[i]
           e == Q[i]
<1>1. p \in Nat \ {0} /\ w \in Int /\ a \in Int /\ b \in Int /\ e \in Int
  BY DEF Prime, Points, IsCoef
<1>2. Cong(e * (w - a), b * w, p)
  BY CoefStep, Zenon
<1> HIDE DEF w, a, b, e
<1>3. Cong(-c, -c, p) /\ Cong(w * (e * c), w * (e * c), p)
  BY <1>1, CongRefl
<1>4. Cong((e * (w - a)) * (-c), (b * w) * (-c), p)
  BY <1>1, <1>2, <1>3, CongMul, Zenon
<1>5. Cong(w * (e * c) + (e * (w - a)) * (-c), w * (e * c) + (b * w) * (-c), p)
  BY <1>1, <1>3, <1>4, CongAdd, Zenon
<1>6. w * (e * c) + (e * (w - a)) * (-c) = (e * c) * a
  BY <1>1
<1>7. w * (e * c) + (b * w) * (-c) = w * (e * c) + (-w) * (b * c)
  BY <1>1
<1>8. Cong((e * c) * a, w * (e * c) + (-w) * (b * c), p)
  BY <1>5, <1>6, <1>7, Zenon
<1> QED
  BY <1>8, Zenon DEF w, a, b, e

(* Interpolation of one more linear factor. *)
LEMMA InterpolatesStep ==
    ASSUME NEW p, Prime(p), NEW n \in Nat, NEW x, Points(x, n + 1, p),
           NEW d \in [Nat -> Int], NEW b \in [Nat -> Int], NEW k \in Nat,
           Interpolates(x, n, p, d, b, k), Interpolates(x, n + 1, p, d, b, k)
    PROVE  Interpolates(x, n + 1, p, d, b, k + 1)
<1> SUFFICES ASSUME NEW Q, IsCoef(Q, x, n + 1, p)
             PROVE  Cong(Sum(Term(Q, x, d, b, k + 1), n + 1), Prod(b, k + 1), p)
  BY Zenon DEF Interpolates
<1>1. Points(x, n, p)
  BY DEF Points
<1>2. PICK P : IsCoef(P, x, n, p)
  BY <1>1, CoefExists, Zenon
<1> DEFINE f == Term(Q, x, d, b, k)
           g == Term(P, x, d, b, k)
           z == [i \in Nat |-> f[i] * x[i]]
           h == Term(Q, x, d, b, k + 1)
           w == x[n + 1]
           B == Prod(b, k)
           r == d[k + 1]
           s == b[k + 1]
<1>3. /\ p \in Nat \ {0} /\ x \in [Nat -> Int] /\ P \in [Nat -> Int] /\ Q \in [Nat -> Int]
      /\ w \in Int /\ r \in Int /\ s \in Int /\ n + 1 \in Nat /\ k + 1 \in Nat
  BY <1>2 DEF Prime, Points, IsCoef
<1>4. f \in [Nat -> Int] /\ g \in [Nat -> Int] /\ h \in [Nat -> Int]
  BY <1>3, TermTypes, Zenon
<1>5. z \in [Nat -> Int]
  BY <1>3, <1>4
<1>6. B \in Int /\ Prod(b, k + 1) = B * s
  BY ProdStep, Zenon
<1>7. ASSUME NEW i \in Nat
      PROVE  /\ Prod(Factor(d, b, x[i]), k) \in Int
             /\ f[i] = Q[i] * Prod(Factor(d, b, x[i]), k)
             /\ g[i] = P[i] * Prod(Factor(d, b, x[i]), k)
             /\ h[i] = Q[i] * (Prod(Factor(d, b, x[i]), k) * (r * x[i] + s))
             /\ z[i] = f[i] * x[i]
  <2>0. x[i] \in Int
    BY <1>3, Zenon
  <2>1. h[i] = Q[i] * Prod(Factor(d, b, x[i]), k + 1)
    BY Zenon DEF Term
  <2>2. Prod(Factor(d, b, x[i]), k + 1) = Prod(Factor(d, b, x[i]), k) * (r * x[i] + s)
    BY <2>0, FactorStep, Zenon
  <2>3. f[i] = Q[i] * Prod(Factor(d, b, x[i]), k) /\ g[i] = P[i] * Prod(Factor(d, b, x[i]), k)
    BY Zenon DEF Term
  <2>4. Prod(Factor(d, b, x[i]), k) \in Int
    BY <2>0, FactorStep, Zenon
  <2>5. z[i] = f[i] * x[i]
    BY Zenon
  <2> HIDE DEF f, g, h, z, r, s
  <2> QED
    BY <2>1, <2>2, <2>3, <2>4, <2>5, Zenon
<1>8. Cong(Sum(f, n + 1), B, p) /\ Cong(Sum(g, n), B, p)
  BY <1>2, Zenon DEF Interpolates
<1> HIDE DEF f, g, h, z, r, s, B
<1>9. ASSUME NEW i \in 1 .. n PROVE Cong(z[i], w * f[i] + (-w) * g[i], p)
  <2>1. i \in Nat
    OBVIOUS
  <2> DEFINE c == Prod(Factor(d, b, x[i]), k)
  <2>2. c \in Int
    BY <1>7, <2>1, Zenon
  <2>3. f[i] = Q[i] * c /\ g[i] = P[i] * c /\ z[i] = (Q[i] * c) * x[i]
    BY <1>7, <2>1, Zenon
  <2> HIDE DEF c
  <2> QED
    BY <1>2, <2>2, <2>3, InterpolatesTerm, Zenon
<1> HIDE DEF w
<1>10. Cong(Sum(z, n), w * Sum(f, n) + (-w) * Sum(g, n), p)
  <2>1. -w \in Int
    BY <1>3
  <2> QED
    BY <1>3, <1>4, <1>5, <1>9, <2>1, SumLinear, Zenon
<1>11. /\ Sum(z, n + 1) = Sum(z, n) + f[n + 1] * w
       /\ Sum(f, n + 1) = Sum(f, n) + f[n + 1]
       /\ Sum(z, n) \in Int /\ Sum(f, n) \in Int /\ Sum(g, n) \in Int /\ f[n + 1] \in Int
       /\ Sum(z, n + 1) \in Int /\ Sum(f, n + 1) \in Int
  <2>1. z[n + 1] = f[n + 1] * w
    BY <1>3, <1>7, Zenon DEF w
  <2> QED
    BY <1>3, <1>4, <1>5, <2>1, SumStep, Zenon
<1>12. Cong(Sum(z, n + 1), 0, p)
  <2> DEFINE a == f[n + 1]
             F == Sum(f, n)
             G == Sum(g, n)
             T == Sum(f, n + 1)
  <2>1. a \in Int /\ F \in Int /\ G \in Int /\ T \in Int /\ T = F + a
    BY <1>11, Zenon
  <2>2. Cong(Sum(z, n), w * F + (-w) * G, p) /\ Cong(T, B, p) /\ Cong(G, B, p)
    BY <1>8, <1>10, Zenon
  <2>3. Sum(z, n + 1) = Sum(z, n) + a * w
    BY <1>11, Zenon
  <2> HIDE DEF a, F, G, T
  <2>4. Cong(a * w, a * w, p) /\ Cong(w, w, p) /\ Cong(-w, -w, p)
    BY <1>3, <2>1, CongRefl
  <2>5. Cong(Sum(z, n) + a * w, (w * F + (-w) * G) + a * w, p)
    BY <1>3, <2>2, <2>4, CongAdd, Zenon
  <2>6. (w * F + (-w) * G) + a * w = w * T + (-w) * G
    BY <1>3, <2>1
  <2>7. Cong(w * T, w * B, p) /\ Cong((-w) * G, (-w) * B, p)
    BY <1>3, <2>2, <2>4, CongMul, Zenon
  <2>8. Cong(w * T + (-w) * G, w * B + (-w) * B, p)
    BY <1>3, <2>7, CongAdd, Zenon
  <2>9. w * B + (-w) * B = 0
    BY <1>3, <1>6
  <2> QED
    BY <2>3, <2>5, <2>6, <2>8, <2>9, CongTrans
<1>13. ASSUME NEW i \in 1 .. n + 1 PROVE Cong(h[i], r * z[i] + s * f[i], p)
  <2>1. i \in Nat
    OBVIOUS
  <2> DEFINE c == Prod(Factor(d, b, x[i]), k)
             e == Q[i]
             a == x[i]
  <2>2. c \in Int /\ e \in Int /\ a \in Int /\ h[i] \in Int
    BY <1>3, <1>4, <1>7, <2>1, Zenon
  <2>3. f[i] = e * c /\ z[i] = (e * c) * a /\ h[i] = e * (c * (r * a + s))
    BY <1>7, <2>1, Zenon
  <2> HIDE DEF c, e, a
  <2>4. e * (c * (r * a + s)) = r * ((e * c) * a) + s * (e * c)
    BY <1>3, <2>2
  <2> QED
    BY <2>2, <2>3, <2>4, CongRefl, Zenon
<1>14. Cong(Sum(h, n + 1), r * Sum(z, n + 1) + s * Sum(f, n + 1), p)
  BY <1>3, <1>4, <1>5, <1>13, SumLinear, Zenon
<1>15. Cong(r * Sum(z, n + 1), r * 0, p) /\ Cong(s * Sum(f, n + 1), s * B, p)
  <2>1. Cong(r, r, p) /\ Cong(s, s, p)
    BY <1>3, CongRefl, Zenon
  <2> QED
    BY <1>3, <1>8, <1>12, <2>1, CongMul, Zenon
<1>16. Cong(r * Sum(z, n + 1) + s * Sum(f, n + 1), r * 0 + s * B, p)
  BY <1>3, <1>15, CongAdd, Zenon
<1>17. r * 0 + s * B = B * s
  BY <1>3, <1>6
<1>18. Cong(Sum(h, n + 1), B * s, p)
  BY <1>14, <1>16, <1>17, CongTrans, Zenon
<1> QED
  BY <1>6, <1>18, Zenon DEF h

(* Interpolation of the constant 1. *)
LEMMA InterpolatesNone ==
    ASSUME NEW p, Prime(p), NEW n \in Nat, NEW x, Points(x, n + 1, p),
           NEW d \in [Nat -> Int], NEW b \in [Nat -> Int]
    PROVE  Interpolates(x, n + 1, p, d, b, 0)
<1> SUFFICES ASSUME NEW P, IsCoef(P, x, n + 1, p)
             PROVE  Cong(Sum(Term(P, x, d, b, 0), n + 1), Prod(b, 0), p)
  BY Zenon DEF Interpolates
<1> DEFINE f == Term(P, x, d, b, 0)
<1>1. p \in Nat \ {0} /\ x \in [Nat -> Int] /\ P \in [Nat -> Int] /\ n + 1 \in Nat /\ 0 \in Nat
      /\ 0 \in Int /\ 1 \in Int
  BY DEF Prime, Points, IsCoef
<1>2. f \in [Nat -> Int]
  BY <1>1, TermTypes, Zenon
<1>3. ASSUME NEW i \in 1 .. n + 1 PROVE Cong(f[i], 1 * P[i] + 0 * P[i], p)
  <2>1. i \in Nat /\ P[i] \in Int
    BY <1>1
  <2>2. Factor(d, b, x[i]) \in [Nat -> Int]
    BY <1>1, <2>1 DEF Factor
  <2>3. f[i] = P[i] * 1
    BY <2>1, <2>2, ProdStep, Zenon DEF Term
  <2> HIDE DEF f
  <2>4. f[i] = 1 * P[i] + 0 * P[i] /\ f[i] \in Int
    BY <2>1, <2>3
  <2> QED
    BY <2>4, CongRefl, Zenon
<1>4. Cong(Sum(P, n + 1), 1, p)
  BY UnitSumAll, Zenon DEF UnitSum
<1>5. Prod(b, 0) = 1 /\ Sum(P, n + 1) \in Int
  BY <1>1, ProdStep, SumStep, Zenon
<1> HIDE DEF f
<1>6. Cong(Sum(f, n + 1), 1 * Sum(P, n + 1) + 0 * Sum(P, n + 1), p)
  BY <1>1, <1>2, <1>3, SumLinear, Zenon
<1>7. 1 * Sum(P, n + 1) + 0 * Sum(P, n + 1) = Sum(P, n + 1)
  BY <1>5
<1>8. Cong(Sum(f, n + 1), Prod(b, 0), p)
  BY <1>4, <1>5, <1>6, <1>7, CongTrans, Zenon
<1> QED
  BY <1>8, Zenon DEF f

(* n + 1 points interpolate a product of at most n linear factors at 0. *)
LEMMA Interpolation ==
    ASSUME NEW p, Prime(p), NEW x, NEW d \in [Nat -> Int], NEW b \in [Nat -> Int]
    PROVE  \A n \in Nat : Points(x, n + 1, p) => \A k \in 0 .. n : Interpolates(x, n + 1, p, d, b, k)
<1> DEFINE I(n, k) == Interpolates(x, n + 1, p, d, b, k)
           S == {n \in Nat : Points(x, n + 1, p) => \A k \in 0 .. n : I(n, k)}
<1>1. ASSUME NEW n \in Nat, Points(x, n + 1, p) PROVE I(n, 0)
  BY <1>1, InterpolatesNone, Zenon
<1>2. ASSUME NEW n \in Nat, NEW k \in Nat, Points(x, (n + 1) + 1, p), I(n, k), I(n + 1, k)
      PROVE  I(n + 1, k + 1)
  <2>1. n + 1 \in Nat
    OBVIOUS
  <2> QED
    BY <1>2, <2>1, InterpolatesStep, Zenon
<1> HIDE DEF I
<1>3. 0 \in S
  BY <1>1
<1>4. ASSUME NEW n \in Nat, n \in S PROVE n + 1 \in S
  <2> SUFFICES ASSUME Points(x, (n + 1) + 1, p) PROVE \A k \in 0 .. n + 1 : I(n + 1, k)
    OBVIOUS
  <2>1. Points(x, n + 1, p)
    BY DEF Points
  <2>2. \A k \in 0 .. n : I(n, k)
    BY <1>4, <2>1, Zenon
  <2> DEFINE K == {k \in Nat : k <= n + 1 => I(n + 1, k)}
  <2>3. 0 \in K
    BY <1>1
  <2>4. ASSUME NEW k \in Nat, k \in K PROVE k + 1 \in K
    <3>1. CASE k + 1 <= n + 1
      <4>1. I(n, k) /\ I(n + 1, k)
        BY <2>2, <2>4, <3>1
      <4> HIDE DEF K
      <4>2. I(n + 1, k + 1)
        BY <1>2, <4>1, Zenon
      <4> QED
        BY <4>2 DEF K
    <3> QED
      BY <3>1
  <2> HIDE DEF K
  <2>5. Nat \subseteq K
    BY <2>3, <2>4, Induction, Zenon
  <2> QED
    BY <2>5 DEF K
<1> HIDE DEF S
<1>5. Nat \subseteq S
  BY <1>3, <1>4, Induction, Zenon
<1> QED
  BY <1>5, Zenon DEF S, I
=============================================================================
