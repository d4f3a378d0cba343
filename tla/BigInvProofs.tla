---------------------------- MODULE BigInvProofs ----------------------------
(* BIG_inv is correct for all arguments: proofs about the loop of BigInv.  *)
EXTENDS BigInv, TLAPS

Divides(d, n) == \E k \in Int : n = d * k

(* The quotient and remainder that BIG_sdiv and BIG_mod leave. *)
LEMMA DivMod ==
    ASSUME NEW x \in Int, NEW y \in Nat \ {0}
    PROVE  x \div y \in Int /\ x % y \in 0 .. y - 1 /\ x = y * (x \div y) + (x % y)
  BY SMT

(* A multiple of m between -m and m is 0. *)
LEMMA SmallMultiple ==
    ASSUME NEW m_ \in Nat \ {0}, NEW k \in Int, -m_ < m_ * k, m_ * k < m_
    PROVE  k = 0
<1>1. k >= 1 => m_ * k >= m_
  BY SMT
<1>2. k <= -1 => m_ * k <= -m_
  BY SMT
<1> QED
  BY <1>1, <1>2, SMT

(* Equal remainders modulo m are a difference that m divides. *)
LEMMA SameRemainder ==
    ASSUME NEW x \in Int, NEW y \in Int, NEW n \in Nat \ {0}
    PROVE  x % n = y % n <=> Divides(n, x - y)
<1> DEFINE qx == x \div n  rx == x % n  qy == y \div n  ry == y % n
<1>1. qx \in Int /\ rx \in 0 .. n - 1 /\ x = n * qx + rx
  BY DivMod
<1>2. qy \in Int /\ ry \in 0 .. n - 1 /\ y = n * qy + ry
  BY DivMod
<1> HIDE DEF qx, rx, qy, ry
<1>3. n * (qx - qy) = n * qx - n * qy
  BY <1>1, <1>2, SMT
<1>4. ASSUME rx = ry PROVE Divides(n, x - y)
  <2>1. x - y = n * (qx - qy) /\ qx - qy \in Int
    BY <1>1, <1>2, <1>3, <1>4, SMT
  <2> QED
    BY <2>1 DEF Divides
<1>5. ASSUME Divides(n, x - y) PROVE rx = ry
  <2>1. PICK k \in Int : x - y = n * k
    BY <1>5 DEF Divides
  <2>2. n * (k - (qx - qy)) = n * k - n * (qx - qy)
    BY <1>1, <1>2, SMT
  <2>3. rx - ry = n * (k - (qx - qy))
    BY <1>1, <1>2, <1>3, <2>1, <2>2, SMT
  <2>4. k - (qx - qy) \in Int /\ -n < n * (k - (qx - qy)) /\ n * (k - (qx - qy)) < n
    BY <1>1, <1>2, <2>3, SMT
  <2>5. k - (qx - qy) = 0
    BY <2>4, SmallMultiple
  <2> QED
    BY <1>1, <1>2, <2>3, <2>5, SMT
<1> QED
  BY <1>4, <1>5 DEF rx, ry

(* Sums and multiples of multiples. *)
LEMMA DividesSum ==
    ASSUME NEW d \in Int, NEW x \in Int, NEW y \in Int, NEW c \in Int,
           Divides(d, x), Divides(d, y)
    PROVE  Divides(d, x + c * y)
<1>1. PICK i \in Int : x = d * i
  BY DEF Divides
<1>2. PICK j \in Int : y = d * j
  BY DEF Divides
<1>3. c * (d * j) = d * (c * j)
  BY <1>2, SMT
<1>4. d * (i + c * j) = d * i + d * (c * j)
  BY SMT
<1>5. x + c * y = d * (i + c * j) /\ i + c * j \in Int
  BY <1>1, <1>2, <1>3, <1>4, SMT
<1> QED
  BY <1>5 DEF Divides

-----------------------------------------------------------------------------
(* What one pass does: x0 becomes x1 - q * x0 up to a multiple of m. *)
LEMMA NextCoefficient ==
    ASSUME TypeOK, NEW q \in Nat
    PROVE  /\ nextX0(q) \in 0 .. m - 1
           /\ Divides(m, nextX0(q) - (x1 - q * x0))
<1> DEFINE p == q * x0
           r == p % m
           s == (m - r) + x1
<1>0. m \in Nat \ {0} /\ x0 \in Int /\ x1 \in Int
  BY DEF TypeOK
<1>1. p \in Int
  BY <1>0, SMT
<1>2. p \div m \in Int /\ r \in 0 .. m - 1 /\ p = m * (p \div m) + r
  BY <1>0, <1>1, DivMod
<1>3. s \in Int
  BY <1>0, <1>2, SMT
<1>4. s \div m \in Int /\ s % m \in 0 .. m - 1 /\ s = m * (s \div m) + (s % m)
  BY <1>0, <1>3, DivMod
<1>5. nextX0(q) = s % m
  BY DEF nextX0
<1> DEFINE i == p \div m  j == s \div m  z == s % m
<1>6. z - (x1 - p) = m * (1 + i - j)
  <2>1. i \in Int /\ j \in Int /\ z \in Int /\ p = m * i + r /\ s = m * j + z
    BY <1>2, <1>4
  <2> HIDE DEF p, r, i, j, z
  <2>2. m * (1 + i - j) = m + m * i - m * j
    BY <1>0, <2>1, SMT
  <2> QED
    BY <1>0, <1>1, <1>2, <2>1, <2>2, SMT
<1>7. 1 + i - j \in Int
  BY <1>2, <1>4, SMT
<1> QED
  BY <1>4, <1>5, <1>6, <1>7 DEF Divides
-----------------------------------------------------------------------------
(* The two remainders are multiples of a modulo m, and what divides both   *)
(* of them divides a and m; a remainder 0 means that there is a common     *)
(* factor (or that everything is 0 modulo m).                              *)
CommonFactor == \E d \in Nat : d > 1 /\ Divides(d, a) /\ Divides(d, m)

LoopInv ==
    /\ TypeOK
    /\ Divides(m, x1 * a - a_back)
    /\ a_back # 0 =>
          /\ Divides(m, x0 * a - module)
          /\ \A d \in Nat : Divides(d, a_back) /\ Divides(d, module)
                             => Divides(d, a) /\ Divides(d, m)
    /\ a_back = 0 => m = 1 \/ CommonFactor
    /\ pc = "done" => a_back <= 1 /\ res = x1

(* A number divides itself and 0. *)
LEMMA DividesItself ==
    ASSUME NEW n \in Int
    PROVE  Divides(n, n) /\ Divides(n, 0)
<1>1. n = n * 1 /\ 0 = n * 0
  BY SMT
<1> QED
  BY <1>1 DEF Divides

(* The invariant holds before the first pass. *)
LEMMA LoopInvInit == Init => LoopInv
<1> SUFFICES ASSUME Init PROVE LoopInv
  OBVIOUS
<1>1. TypeOK
  BY BigInvAssumption DEF Init, TypeOK
<1>2. x1 * a - a_back = 0 /\ x0 * a - module = -m
  BY <1>1 DEF Init, TypeOK
<1>3. Divides(m, 0) /\ Divides(m, -m) /\ Divides(m, m)
  <2>1. -m = m * (-1)
    BY <1>1 DEF TypeOK
  <2> QED
    BY <1>1, <2>1, DividesItself DEF TypeOK, Divides
<1>4. a_back = 0 => m = 1 \/ CommonFactor
  <2>1. a = 0 => Divides(m, a)
    BY <1>3
  <2>2. m = 1 \/ (m \in Nat /\ m > 1)
    BY <1>1 DEF TypeOK
  <2> QED
    BY <1>3, <2>1, <2>2 DEF Init, CommonFactor
<1> QED
  BY <1>1, <1>2, <1>3, <1>4 DEF LoopInv, Init

(* A pass that divides by a remainder other than 0. *)
LEMMA PassDivides ==
    ASSUME LoopInv, a_back # 0, module # 0
    PROVE  LET q == a_back \div module
               r == a_back % module
           IN  /\ q \in Nat /\ r \in Nat
               /\ Divides(m, nextX0(q) * a - r)
               /\ \A d \in Nat : Divides(d, module) /\ Divides(d, r) => Divides(d, a_back)
<1> DEFINE q == a_back \div module
           r == a_back % module
           nx == nextX0(q)
<1>0. a \in Int /\ m \in Int /\ a_back \in Nat /\ module \in Nat \ {0} /\ x0 \in Int /\ x1 \in Int
  BY DEF LoopInv, TypeOK
<1>1. q \in Nat /\ r \in Nat /\ a_back = module * q + r
  <2>1. q \in Int /\ r \in 0 .. module - 1 /\ a_back = module * q + r
    BY <1>0, DivMod
  <2> HIDE DEF q, r
  <2>2. q <= -1 => module * q <= -module
    BY <1>0, <2>1, SMT
  <2> QED
    BY <1>0, <2>1, <2>2, SMT
<1>2. nx \in Int /\ Divides(m, nx - (x1 - q * x0))
  <2>1. nx \in 0 .. m - 1 /\ Divides(m, nx - (x1 - q * x0))
    BY <1>1, NextCoefficient DEF LoopInv
  <2> QED
    BY <1>0, <2>1, SMT
<1> HIDE DEF q, r, nx
<1> DEFINE u == x1 * a - a_back
           v == x0 * a - module
           w == nx - (x1 - q * x0)
<1>3. Divides(m, u) /\ Divides(m, v) /\ Divides(m, w)
  BY <1>2 DEF LoopInv
<1>4. u \in Int /\ v \in Int /\ w \in Int /\ -q \in Int /\ u + (-q) * v \in Int
  BY <1>0, <1>1, <1>2, SMT
<1>5. Divides(m, (u + (-q) * v) + a * w)
  <2> HIDE DEF u, v, w
  <2>1. Divides(m, u + (-q) * v)
    BY <1>0, <1>3, <1>4, DividesSum
  <2> QED
    BY <1>0, <1>3, <1>4, <2>1, DividesSum
<1>6. (u + (-q) * v) + a * w = nx * a - r
  <2>1. a * (nx - (x1 - q * x0)) = nx * a - x1 * a + q * (x0 * a)
    BY <1>0, <1>1, <1>2, SMT
  <2>2. (-q) * (x0 * a - module) = q * module - q * (x0 * a)
    BY <1>0, <1>1, SMT
  <2>3. x1 * a \in Int /\ x0 * a \in Int /\ q * (x0 * a) \in Int /\ nx * a \in Int
          /\ q * module = module * q /\ q * module \in Int
    BY <1>0, <1>1, <1>2, SMT
  <2> QED
    BY <1>0, <1>1, <2>1, <2>2, <2>3, SMT
<1>7. ASSUME NEW d \in Nat, Divides(d, module), Divides(d, r)
      PROVE  Divides(d, a_back)
  <2>0. d \in Int /\ r \in Int /\ module \in Int /\ q \in Int
    BY <1>0, <1>1, SMT
  <2>1. Divides(d, r + q * module)
    BY <1>7, <2>0, DividesSum
  <2>2. r + q * module = a_back
    BY <1>0, <1>1, SMT
  <2> QED
    BY <2>1, <2>2
<1> QED
  BY <1>1, <1>5, <1>6, <1>7 DEF q, r, nx

(* One pass of the loop keeps the invariant. *)
LEMMA PassKeepsInv == LoopInv /\ pass => LoopInv'
<1> SUFFICES ASSUME LoopInv, pass PROVE LoopInv'
  OBVIOUS
<1>0. /\ a \in Nat /\ m \in Nat \ {0} /\ a_back \in Nat /\ a_back > 1 /\ module \in Nat
      /\ a' = a /\ m' = m /\ a_back' = module /\ x1' = x0 /\ pc' = pc /\ res' = res /\ pc = "loop"
  BY DEF LoopInv, TypeOK, pass
<1>1. Divides(m, x1' * a' - a_back')
  BY <1>0 DEF LoopInv
<1>2. ASSUME NEW q \in Nat, x0' = nextX0(q), module' \in Nat PROVE TypeOK'
  <2>1. x0' \in 0 .. m - 1
    BY <1>2, NextCoefficient DEF LoopInv
  <2> QED
    BY <1>0, <1>2, <2>1 DEF LoopInv, TypeOK
<1>3. CASE module = 0
  <2>1. PICK q \in 0 .. m : x0' = nextX0(q)
    BY <1>3 DEF pass, Quotients
  <2>2. module' \in 0 .. m
    BY <1>3 DEF pass, Remainders
  <2>3. TypeOK'
    BY <1>0, <1>2, <2>1, <2>2
  <2>4. CommonFactor'
    <3>1. Divides(a_back, a_back) /\ Divides(a_back, module)
      BY <1>0, <1>3, DividesItself
    <3>2. Divides(a_back, a) /\ Divides(a_back, m)
      BY <1>0, <3>1 DEF LoopInv
    <3> QED
      BY <1>0, <3>2 DEF CommonFactor, Divides
  <2> QED
    BY <1>0, <1>1, <1>3, <2>3, <2>4 DEF LoopInv, Divides
<1>4. CASE module # 0
  <2> DEFINE q == a_back \div module
  <2>1. x0' = nextX0(q) /\ module' = a_back % module
    BY <1>4 DEF pass, Quotients, Remainders
  <2>2. /\ q \in Nat /\ module' \in Nat
        /\ Divides(m, x0' * a - module')
        /\ \A d \in Nat : Divides(d, module) /\ Divides(d, module') => Divides(d, a_back)
    BY <1>0, <1>4, <2>1, PassDivides
  <2>3. TypeOK'
    BY <1>2, <2>1, <2>2
  <2>4. \A d \in Nat : Divides(d, a_back') /\ Divides(d, module')
                       => Divides(d, a') /\ Divides(d, m')
    BY <1>0, <2>2 DEF LoopInv
  <2> QED
    BY <1>0, <1>1, <1>4, <2>2, <2>3, <2>4 DEF LoopInv, Divides
<1> QED
  BY <1>3, <1>4

(* Every step keeps the invariant. *)
LEMMA LoopInvNext == LoopInv /\ [Next]_vars => LoopInv'
<1> SUFFICES ASSUME LoopInv, [Next]_vars PROVE LoopInv'
  OBVIOUS
<1>1. CASE pass
  BY <1>1, PassKeepsInv
<1>2. CASE leave
  BY <1>2 DEF LoopInv, TypeOK, leave, CommonFactor, Divides
<1>3. CASE UNCHANGED vars
  BY <1>3 DEF LoopInv, TypeOK, vars, CommonFactor, Divides
<1> QED
  BY <1>1, <1>2, <1>3 DEF Next

-----------------------------------------------------------------------------
(* What divides a and m divides no number that is 1 more than a multiple   *)
(* of m and a multiple of a: with a common factor there is no inverse.     *)
LEMMA NoInverse ==
    ASSUME TypeOK, CommonFactor, NEW x \in 0 .. m, Divides(m, x * a - 1)
    PROVE  FALSE
<1>1. PICK d \in Nat : d > 1 /\ Divides(d, a) /\ Divides(d, m)
  BY DEF CommonFactor
<1>2. PICK i \in Int : a = d * i
  BY <1>1 DEF Divides
<1>3. PICK j \in Int : m = d * j
  BY <1>1 DEF Divides
<1>4. PICK k \in Int : x * a - 1 = m * k
  BY DEF Divides
<1>5. x \in Int
  BY DEF TypeOK
<1>6. x * (d * i) = d * (x * i) /\ (d * j) * k = d * (j * k)
  BY <1>1, <1>2, <1>3, <1>4, <1>5, SMT
<1>7. d * (x * i - j * k) = d * (x * i) - d * (j * k)
  BY <1>1, <1>2, <1>3, <1>4, <1>5, SMT
<1>8. d * (x * i - j * k) = 1
  BY <1>1, <1>2, <1>3, <1>4, <1>5, <1>6, <1>7, SMT
<1>9. d \in Nat \ {0} /\ x * i - j * k \in Int
  BY <1>1, <1>2, <1>3, <1>4, <1>5, SMT
<1>10. x * i - j * k = 0
  BY <1>1, <1>8, <1>9, SmallMultiple
<1> QED
  BY <1>1, <1>8, <1>10, SMT

(* The invariant has Bezout's identity in it. *)
LEMMA InvImpliesBezout == LoopInv => Bezout
<1> SUFFICES ASSUME LoopInv PROVE Bezout
  OBVIOUS
<1>1. m \in Nat \ {0} /\ x1 * a \in Int /\ x0 * a \in Int /\ a_back \in Int /\ module \in Int
  BY DEF LoopInv, TypeOK
<1> QED
  BY <1>1, SameRemainder DEF LoopInv, Bezout

(* At the end of the loop the coefficient is the inverse, if there is one. *)
LEMMA InvImpliesInverse == LoopInv => InverseFound
<1> SUFFICES ASSUME LoopInv, pc = "done" PROVE InverseFound
  BY DEF InverseFound
<1>0. m \in Nat \ {0} /\ a \in Nat /\ res \in 0 .. m /\ res = x1 /\ a_back \in {0, 1}
  BY DEF LoopInv, TypeOK
<1>1. (res * a) % m = a_back % m
  BY <1>0, InvImpliesBezout DEF Bezout
<1>2. CASE a_back = 1
  BY <1>0, <1>1, <1>2 DEF InverseFound
<1>3. CASE a_back = 0
  <2>1. 0 % m = 0
    BY <1>0, SMT
  <2>2. ASSUME NEW x \in 0 .. m, (x * a) % m = 1 % m PROVE 1 % m = 0
    <3>1. m = 1 \/ CommonFactor
      BY <1>3 DEF LoopInv
    <3> DEFINE p == x * a
    <3>2. p \in Int /\ 1 \in Int /\ p % m = 1 % m
      BY <1>0, <2>2, SMT
    <3>3. Divides(m, p - 1)
      <4> HIDE DEF p
      <4> QED
        BY <1>0, <3>2, SameRemainder, Zenon
    <3>4. ~CommonFactor
      BY <3>3, NoInverse DEF LoopInv
    <3> QED
      BY <3>1, <3>4, SMT
  <2> QED
    BY <1>1, <1>3, <2>1, <2>2 DEF InverseFound
<1> QED
  BY <1>0, <1>2, <1>3

(* The coefficients of BIG_inv stay within the modulus. *)
THEOREM InvTypeOK == Spec => []TypeOK
<1>1. LoopInv => TypeOK
  BY DEF LoopInv
<1> QED
  BY <1>1, LoopInvInit, LoopInvNext, PTL DEF Spec

(* Every pass of BIG_inv keeps Bezout's identity, whatever a and m are. *)
THEOREM InvBezout == Spec => []Bezout
  BY LoopInvInit, LoopInvNext, InvImpliesBezout, PTL DEF Spec

(* BIG_inv is right for all a and all m: what it returns is an inverse if  *)
(* there is one, and can be told from an inverse if there is none.         *)
THEOREM InvCorrect == Spec => []InverseFound
  BY LoopInvInit, LoopInvNext, InvImpliesInverse, PTL DEF Spec
=============================================================================
