-------------------------- MODULE FussionArithmetic --------------------------
(***************************************************************************)
(* What the operators of Fussion compute, for every prime order of the     *)
(* group, every threshold, every hash function and every draw: the loops   *)
(* are powers, products and inverses of residues, both getPi_0 are the     *)
(* coefficients that interpolate at 0, the head's row unblinds to a share, *)
(* and Verify adds those up.  No run of the program occurs here.           *)
(***************************************************************************)
EXTENDS Fussion, Residues

-----------------------------------------------------------------------------
(* The loops of Tools.cpp and fussion.cpp compute powers, products and     *)
(* inverses of residues.                                                   *)

(* The order of the group is an odd prime. *)
LEMMA QPrime == Prime(q) /\ q \in Nat \ {0} /\ q > 2 /\ q - 1 \in Nat \ {0} /\ q - 1 >= 2
<1>1. q \in Nat /\ q > 2 /\ \A d \in 2 .. q - 1 : Mod(q, d) # 0
  BY ToolsAssumption, Zenon DEF Mod
<1>2. q \in Nat \ {0} /\ q >= 2 /\ q - 1 \in Nat \ {0} /\ q - 1 >= 2
  BY <1>1
<1> QED
  BY <1>1, <1>2, Zenon DEF Prime

(* pow_mpz is the power modulo m. *)
LEMMA PowIs ==
    ASSUME NEW a \in Int, NEW k \in Nat, NEW m \in Nat \ {0}
    PROVE  /\ pow_mpz(a, k, m) = Mod(Pow(a, k), m)
           /\ pow_mpz(a, k, m) \in 0 .. m - 1
           /\ Cong(pow_mpz(a, k, m), Pow(a, k), m)
<1> DEFINE P == CHOOSE power : power = [i \in 0 .. k |-> IF i = 0 THEN 1 % m ELSE (power[i - 1] * a) % m]
           w == [i \in 0 .. k |-> Mod(Pow(a, i), m)]
<1>1. pow_mpz(a, k, m) = P[k]
  BY Zenon DEF pow_mpz
<1>2. ASSUME NEW i \in Nat PROVE Mod(Mod(Pow(a, i), m) * a, m) = Mod(Pow(a, i + 1), m)
  <2>1. Pow(a, i) \in Int /\ Pow(a, i + 1) = Pow(a, i) * a
    BY PowStep, Zenon
  <2>2. Cong(Mod(Pow(a, i), m), Pow(a, i), m) /\ Cong(a, a, m)
    BY <2>1, ModMod, CongRefl, Zenon
  <2>3. Cong(Mod(Pow(a, i), m) * a, Pow(a, i) * a, m)
    BY <2>2, CongMul, Zenon
  <2> QED
    BY <2>1, <2>3, Zenon DEF Cong
<1>3. w = [i \in 0 .. k |-> IF i = 0 THEN 1 % m ELSE (w[i - 1] * a) % m]
  <2>1. w[0] = 1 % m
    BY PowStep DEF Mod
  <2>2. ASSUME NEW i \in 0 .. k, i # 0 PROVE w[i] = (w[i - 1] * a) % m
    <3>1. i - 1 \in Nat /\ i - 1 \in 0 .. k /\ (i - 1) + 1 = i
      BY <2>2
    <3>2. Mod(Mod(Pow(a, i - 1), m) * a, m) = Mod(Pow(a, i), m)
      BY <1>2, <3>1, Zenon
    <3>3. w[i] = Mod(Pow(a, i), m) /\ w[i - 1] = Mod(Pow(a, i - 1), m)
      BY <3>1, Zenon
    <3> QED
      BY <3>2, <3>3, Zenon DEF Mod
  <2>3. w = [i \in 0 .. k |-> w[i]]
    BY Zenon
  <2> HIDE DEF w
  <2> QED
    BY <2>1, <2>2, <2>3, Zenon
<1>4. P = [i \in 0 .. k |-> IF i = 0 THEN 1 % m ELSE (P[i - 1] * a) % m]
  <2> HIDE DEF w
  <2> QED
    BY <1>3, Zenon
<1> DEFINE S == {i \in Nat : i <= k => P[i] = w[i]}
<1> HIDE DEF P, w
<1>5. 0 \in S
  BY <1>3, <1>4
<1>6. ASSUME NEW i \in Nat, i \in S PROVE i + 1 \in S
  <2>1. CASE i + 1 <= k
    <3>1. i + 1 \in 0 .. k /\ i + 1 # 0 /\ (i + 1) - 1 = i /\ P[i] = w[i]
      BY <1>6, <2>1
    <3>2. P[i + 1] = (P[i] * a) % m
      BY <1>4, <3>1, Zenon
    <3>3. w[i + 1] = (w[i] * a) % m
      BY <1>3, <3>1, Zenon
    <3> QED
      BY <3>1, <3>2, <3>3
  <2> QED
    BY <2>1
<1> HIDE DEF S
<1>7. Nat \subseteq S
  BY <1>5, <1>6, Induction, Zenon
<1>8. P[k] = w[k]
  BY <1>7 DEF S
<1>9. pow_mpz(a, k, m) = Mod(Pow(a, k), m)
  BY <1>1, <1>8 DEF w
<1> QED
  <2>1. Pow(a, k) \in Int
    BY PowStep, Zenon
  <2> QED
    BY <1>9, <2>1, ModRange, ModMod, Zenon

(* A product reduced after every factor is the product modulo q. *)
LEMMA ProdModIs ==
    ASSUME NEW m \in Nat, NEW f, NEW g \in [Nat -> Int],
           \A i \in 1 .. m : Cong(f[i], g[i], q)
    PROVE  ProdMod(f, m) \in 0 .. q - 1 /\ Cong(ProdMod(f, m), Prod(g, m), q)
<1> DEFINE P == CHOOSE p : p = [i \in 0 .. m |-> IF i = 0 THEN 1 ELSE (p[i - 1] * f[i]) % q]
           w == [i \in 0 .. m |-> Mod(Prod(g, i), q)]
<1>0. q \in Nat \ {0} /\ q > 2
  BY QPrime, Zenon
<1>1. ProdMod(f, m) = P[m]
  BY Zenon DEF ProdMod
<1>2. ASSUME NEW i \in Nat, i + 1 \in 1 .. m
      PROVE  Mod(Mod(Prod(g, i), q) * f[i + 1], q) = Mod(Prod(g, i + 1), q)
  <2>1. Prod(g, i) \in Int /\ Prod(g, i + 1) = Prod(g, i) * g[i + 1]
    BY ProdStep, Zenon
  <2>2. Cong(Mod(Prod(g, i), q), Prod(g, i), q) /\ Cong(f[i + 1], g[i + 1], q)
    BY <1>0, <1>2, <2>1, ModMod, Zenon
  <2>3. Cong(Mod(Prod(g, i), q) * f[i + 1], Prod(g, i) * g[i + 1], q)
    BY <1>0, <2>2, CongMul, Zenon
  <2> QED
    BY <2>1, <2>3, Zenon DEF Cong
<1>3. w = [i \in 0 .. m |-> IF i = 0 THEN 1 ELSE (w[i - 1] * f[i]) % q]
  <2>1. w[0] = 1
    <3>1. 1 \in 0 .. q - 1
      BY <1>0
    <3>2. Mod(1, q) = 1
      BY <1>0, <3>1, ModSmall, Zenon
    <3>3. Prod(g, 0) = 1
      BY ProdStep, Zenon
    <3> QED
      BY <3>2, <3>3
  <2>2. ASSUME NEW i \in 0 .. m, i # 0 PROVE w[i] = (w[i - 1] * f[i]) % q
    <3>1. i - 1 \in Nat /\ i - 1 \in 0 .. m /\ (i - 1) + 1 = i /\ i \in 1 .. m
      BY <2>2
    <3>2. Mod(Mod(Prod(g, i - 1), q) * f[i], q) = Mod(Prod(g, i), q)
      BY <1>2, <3>1, Zenon
    <3>3. w[i] = Mod(Prod(g, i), q) /\ w[i - 1] = Mod(Prod(g, i - 1), q)
      BY <3>1, Zenon
    <3> QED
      BY <3>2, <3>3, Zenon DEF Mod
  <2>3. w = [i \in 0 .. m |-> w[i]]
    BY Zenon
  <2> HIDE DEF w
  <2> QED
    BY <2>1, <2>2, <2>3, Zenon
<1>4. P = [i \in 0 .. m |-> IF i = 0 THEN 1 ELSE (P[i - 1] * f[i]) % q]
  <2> HIDE DEF w
  <2> QED
    BY <1>3, Zenon
<1> DEFINE S == {i \in Nat : i <= m => P[i] = w[i]}
<1> HIDE DEF P, w
<1>5. 0 \in S
  BY <1>3, <1>4
<1>6. ASSUME NEW i \in Nat, i \in S PROVE i + 1 \in S
  <2>1. CASE i + 1 <= m
    <3>1. i + 1 \in 0 .. m /\ i + 1 # 0 /\ (i + 1) - 1 = i /\ P[i] = w[i]
      BY <1>6, <2>1
    <3>2. P[i + 1] = (P[i] * f[i + 1]) % q
      BY <1>4, <3>1, Zenon
    <3>3. w[i + 1] = (w[i] * f[i + 1]) % q
      BY <1>3, <3>1, Zenon
    <3> QED
      BY <3>1, <3>2, <3>3
  <2> QED
    BY <2>1
<1> HIDE DEF S
<1>7. Nat \subseteq S
  BY <1>5, <1>6, Induction, Zenon
<1>8. P[m] = w[m]
  BY <1>7 DEF S
<1>9. ProdMod(f, m) = Mod(Prod(g, m), q)
  BY <1>1, <1>8 DEF w
<1> QED
  <2>1. Prod(g, m) \in Int
    BY ProdStep, Zenon
  <2> QED
    BY <1>0, <1>9, <2>1, ModRange, ModMod, Zenon

(* invert_mpz is the inverse of Residues. *)
LEMMA InvertIs == \A a, m : invert_mpz(a, m) = Inv(a, m)
  BY Zenon DEF invert_mpz, Inv, Mod

(* Modulo q, what is not 0 times its invert_mpz is 1. *)
LEMMA InvertPrime ==
    ASSUME NEW a \in Int, Mod(a, q) # 0
    PROVE  invert_mpz(a, q) \in Int /\ Cong(a * invert_mpz(a, q), 1, q)
<1>1. invert_mpz(a, q) = Inv(a, q)
  BY InvertIs, Zenon
<1>2. Inv(a, q) \in 0 .. q - 1 /\ Cong(a * Inv(a, q), 1, q)
  BY QPrime, InvPrime, Zenon
<1> QED
  BY <1>1, <1>2

-----------------------------------------------------------------------------
(* Both overloads of getPi_0 compute Lagrange's coefficients. *)

(* Reduction modulo q keeps the residue. *)
LEMMA ReduceQ == \A a \in Int : a % q \in 0 .. q - 1 /\ a % q \in Int /\ Cong(a % q, a, q)
<1> TAKE a \in Int
<1>1. Mod(a, q) \in 0 .. q - 1 /\ Mod(a, q) \in Int /\ Cong(Mod(a, q), a, q)
  BY QPrime, ModMod, ModRange, Zenon
<1> QED
  BY <1>1, Zenon DEF Mod

(* So does adding q before it, as the code does with a difference. *)
LEMMA ModPlusQ == \A a \in Int : (a + q) % q \in Int /\ Cong((a + q) % q, a, q)
<1> TAKE a \in Int
<1>1. q \in Nat \ {0} /\ a + q \in Int /\ a + q = a + q * 1
  BY QPrime
<1>2. Mod(a + q, q) \in Int /\ Cong(Mod(a + q, q), a + q, q)
  BY <1>1, ModMod, Zenon
<1>3. Cong(a + q, a, q)
  <2>1. Mod(a + q, q) = Mod(a, q)
    BY <1>1, ModEq
  <2> QED
    BY <1>1, <2>1, Zenon DEF Cong
<1>4. Cong(Mod(a + q, q), a, q)
  BY <1>2, <1>3, CongTrans, Zenon
<1> QED
  BY <1>2, <1>4, Zenon DEF Mod

(* x continues the IDs of the first m rows, which are pairwise different   *)
(* and not 0 modulo q.                                                     *)
Extends(x, ID, m) ==
    /\ Points(x, m, q)
    /\ \A i \in 1 .. m : ID[i] = x[i] /\ Mod(x[i], q) # 0

(* The numerator of a coefficient times its own point is the product of    *)
(* all points.                                                             *)
LEMMA NumTimes ==
    ASSUME NEW x \in [Nat -> Int], NEW m \in Nat, NEW i \in 1 .. m
    PROVE  Prod(Num(x, i), m) * x[i] = Prod(x, m)
<1>1. Num(x, i) = [x EXCEPT ![i] = 1]
  BY Zenon DEF Num
<1>2. Prod([x EXCEPT ![i] = 1], m) * x[i] = Prod(x, m) * 1
  <2>1. 1 \in Int
    OBVIOUS
  <2> QED
    BY <2>1, ProdReplace, Zenon
<1>3. Prod(x, m) \in Int
  BY ProdStep, Zenon
<1> QED
  BY <1>1, <1>2, <1>3

(* getPi_0 of IDs: the coefficient of each ID, up to the denominator. *)
LEMMA PiIsCoef ==
    ASSUME t \in Nat, NEW ID, NEW x, Extends(x, ID, t), NEW i \in 1 .. t
    PROVE  /\ getPi_0(ID)[i] \in 0 .. q - 1
           /\ Cong(getPi_0(ID)[i] * Prod(Den(x, i), t), Prod(Num(x, i), t), q)
<1> DEFINE f == [j \in 1 .. t |-> IF j = i THEN 1 ELSE (ID[j] - ID[i] + q) % q]
           D == ProdMod(f, t)
           X == ProdMod(ID, t)
           v == invert_mpz(ID[i], q)
           N == (X * v) % q
           r == invert_mpz(D, q)
           d == Prod(Den(x, i), t)
           u == Prod(Num(x, i), t)
           c == x[i]
<1>0. q \in Nat \ {0} /\ Prime(q)
  BY QPrime, Zenon
<1>1. getPi_0(ID)[i] = (N * r) % q
  BY Zenon DEF getPi_0
<1>2. x \in [Nat -> Int] /\ i \in Nat /\ c \in Int /\ Mod(c, q) # 0 /\ ID[i] = c /\ Points(x, t, q)
  BY DEF Extends, Points
<1>3. /\ Den(x, i) \in [Nat -> Int] /\ Num(x, i) \in [Nat -> Int]
      /\ d \in Int /\ u \in Int
  BY <1>2, CoefTypes, Zenon
<1>4. D \in Int /\ Cong(D, d, q)
  <2>1. ASSUME NEW j \in 1 .. t PROVE Cong(f[j], Den(x, i)[j], q)
    <3>1. CASE j = i
      <4>1. f[j] = 1 /\ Den(x, i)[j] = 1 /\ 1 \in Int
        BY <3>1 DEF Den
      <4> QED
        BY <4>1, CongRefl, Zenon
    <3>2. CASE j # i
      <4>1. j \in Nat /\ x[j] \in Int /\ ID[j] = x[j]
        BY <1>2 DEF Extends
      <4>2. f[j] = ((x[j] - c) + q) % q /\ Den(x, i)[j] = x[j] - c /\ x[j] - c \in Int
        BY <1>2, <3>2, <4>1 DEF Den
      <4> QED
        BY <4>2, ModPlusQ, Zenon
    <3> QED
      BY <3>1, <3>2, Zenon
  <2> HIDE DEF f
  <2> QED
    BY <1>3, <2>1, ProdModIs
<1>5. X \in Int /\ Cong(X, Prod(x, t), q)
  <2>1. ASSUME NEW j \in 1 .. t PROVE Cong(ID[j], x[j], q)
    <3>1. j \in Nat /\ x[j] \in Int /\ ID[j] = x[j]
      BY <1>2 DEF Extends
    <3> QED
      BY <3>1, CongRefl, Zenon
  <2> QED
    BY <1>2, <2>1, ProdModIs
<1>6. Mod(D, q) # 0
  <2>1. Mod(d, q) # 0
    BY <1>0, <1>2, DenNonzero, Zenon
  <2> QED
    BY <1>4, <2>1, Zenon DEF Cong
<1>7. r \in Int /\ Cong(D * r, 1, q) /\ v \in Int /\ Cong(c * v, 1, q)
  BY <1>2, <1>4, <1>6, InvertPrime, Zenon
<1>8. u * c = Prod(x, t)
  BY <1>2, NumTimes, Zenon
<1> HIDE DEF f, D, X, v, r, d, u, c
<1>9. N \in Int /\ Cong(N, X * v, q)
  <2>1. X * v \in Int
    BY <1>5, <1>7
  <2> QED
    BY <2>1, ReduceQ, Zenon
<1> HIDE DEF N
<1>10. Cong(v, v, q) /\ Cong(u, u, q) /\ Cong(N, N, q) /\ Cong(N * r, N * r, q)
  BY <1>3, <1>7, <1>9, CongRefl
<1>11. Cong(X * v, (u * c) * v, q) /\ Cong(u * (c * v), u * 1, q)
  BY <1>0, <1>5, <1>7, <1>8, <1>10, CongMul, Zenon
<1>12. (u * c) * v = u * (c * v) /\ u * 1 = u
  BY <1>2, <1>3, <1>7
<1>13. Cong(N, u, q)
  BY <1>9, <1>11, <1>12, CongTrans, Zenon
<1>14. /\ (N * r) % q \in 0 .. q - 1 /\ Cong((N * r) % q, N * r, q)
       /\ (N * r) % q \in Int
  <2>1. N * r \in Int
    BY <1>7, <1>9
  <2> QED
    BY <2>1, ReduceQ, Zenon
<1>15. Cong(d, D, q)
  BY <1>4, CongSym, Zenon
<1>16. Cong(((N * r) % q) * d, (N * r) * D, q) /\ Cong(N * (D * r), N * 1, q)
  BY <1>0, <1>7, <1>10, <1>14, <1>15, CongMul, Zenon
<1>17. (N * r) * D = N * (D * r) /\ N * 1 = N
  BY <1>4, <1>7, <1>9
<1>18. Cong(((N * r) % q) * d, u, q)
  BY <1>13, <1>16, <1>17, CongTrans, Zenon
<1> QED
  BY <1>1, <1>14, <1>18, Zenon DEF d, u

(* The textbook products have the signs of their factors turned. *)
Sign1(i) == [j \in Nat |-> IF j = i THEN 1 ELSE -1]

(* getPi_0 of signatures, with its signs collected in one factor: the      *)
(* same.                                                                   *)
LEMMA SigmaPiIsCoef ==
    ASSUME t \in Nat, NEW ID, NEW x, Extends(x, ID, t), NEW i \in 1 .. t
    PROVE  /\ getPi_0_Sigma(ID)[i] \in 0 .. q - 1
           /\ Cong(getPi_0_Sigma(ID)[i] * Prod(Den(x, i), t), Prod(Num(x, i), t), q)
<1> DEFINE f == [j \in 1 .. t |-> IF j = i THEN 1 ELSE (ID[i] - ID[j] + q) % q]
           g == [j \in 1 .. t |-> IF j = i THEN 1 ELSE (-ID[j] + q) % q]
           F == [j \in Nat |-> IF j = i THEN 1 ELSE x[i] - x[j]]
           G == [j \in Nat |-> IF j = i THEN 1 ELSE -x[j]]
           D == ProdMod(f, t)
           N == ProdMod(g, t)
           r == invert_mpz(D, q)
           d == Prod(Den(x, i), t)
           u == Prod(Num(x, i), t)
           s == Prod(Sign1(i), t)
           c == x[i]
<1>0. q \in Nat \ {0} /\ Prime(q) /\ q > 2
  BY QPrime, Zenon
<1>1. getPi_0_Sigma(ID)[i] = (N * r) % q
  BY Zenon DEF getPi_0_Sigma
<1>2. x \in [Nat -> Int] /\ i \in Nat /\ c \in Int /\ ID[i] = c /\ Points(x, t, q)
  BY DEF Extends, Points
<1>3. /\ Den(x, i) \in [Nat -> Int] /\ Num(x, i) \in [Nat -> Int]
      /\ d \in Int /\ u \in Int
  BY <1>2, CoefTypes, Zenon
<1>4. F \in [Nat -> Int] /\ G \in [Nat -> Int] /\ Sign1(i) \in [Nat -> Int]
  BY <1>2 DEF Sign1
<1>5. ASSUME NEW j \in 1 .. t PROVE Cong(f[j], F[j], q) /\ Cong(g[j], G[j], q)
  <2>1. CASE j = i
    <3>1. f[j] = 1 /\ g[j] = 1 /\ F[j] = 1 /\ G[j] = 1 /\ 1 \in Int
      BY <2>1
    <3> QED
      BY <3>1, CongRefl, Zenon
  <2>2. CASE j # i
    <3>1. j \in Nat /\ x[j] \in Int /\ ID[j] = x[j]
      BY <1>2 DEF Extends
    <3>2. f[j] = ((c - x[j]) + q) % q /\ F[j] = c - x[j] /\ c - x[j] \in Int
      BY <1>2, <2>2, <3>1
    <3>3. g[j] = ((-x[j]) + q) % q /\ G[j] = -x[j] /\ -x[j] \in Int
      BY <1>2, <2>2, <3>1
    <3> QED
      BY <3>2, <3>3, ModPlusQ, Zenon
  <2> QED
    BY <2>1, <2>2, Zenon
<1>6. ASSUME NEW j \in 1 .. t
      PROVE  /\ Cong(F[j], Sign1(i)[j] * Den(x, i)[j], q)
             /\ Cong(G[j], Sign1(i)[j] * Num(x, i)[j], q)
             /\ Mod(Sign1(i)[j], q) # 0
  <2>0. j \in Nat /\ x[j] \in Int
    BY <1>2
  <2>1. CASE j = i
    <3>1. F[j] = 1 /\ G[j] = 1 /\ Sign1(i)[j] = 1 /\ Den(x, i)[j] = 1 /\ Num(x, i)[j] = 1
      BY <2>0, <2>1, Zenon DEF Sign1, Den, Num
    <3>2. 1 = 1 * 1 /\ 1 \in Int /\ 1 \in 0 .. q - 1
      BY <1>0
    <3>3. Mod(1, q) = 1 /\ Cong(1, 1, q)
      BY <1>0, <3>2, ModSmall, CongRefl, Zenon
    <3> QED
      BY <3>1, <3>2, <3>3
  <2>2. CASE j # i
    <3>1. /\ F[j] = c - x[j] /\ G[j] = -x[j] /\ Sign1(i)[j] = -1
          /\ Den(x, i)[j] = x[j] - c /\ Num(x, i)[j] = x[j]
      BY <2>0, <2>2, Zenon DEF Sign1, Den, Num
    <3>2. c - x[j] = (-1) * (x[j] - c) /\ -x[j] = (-1) * x[j] /\ c - x[j] \in Int /\ -x[j] \in Int
      BY <1>2, <2>0
    <3>3. Mod(-1, q) # 0
      <4>1. -1 \in Int /\ q - 1 \in 0 .. q - 1 /\ -1 \in Int /\ -1 = q * (-1) + (q - 1)
        BY <1>0
      <4>2. Mod(-1, q) = q - 1
        BY <1>0, <4>1, ModIs, Zenon
      <4> QED
        BY <1>0, <4>2
    <3> QED
      BY <3>1, <3>2, <3>3, CongRefl, Zenon
  <2> QED
    BY <2>1, <2>2, Zenon
<1> HIDE DEF f, g, F, G, d, u, c
<1>7. D \in Int /\ Cong(D, Prod(F, t), q) /\ N \in Int /\ Cong(N, Prod(G, t), q)
  BY <1>4, <1>5, ProdModIs
<1>8. Cong(Prod(F, t), s * d, q) /\ Cong(Prod(G, t), s * u, q)
  BY <1>0, <1>3, <1>4, <1>6, ProdTimes, Zenon DEF d, u
<1>9. s \in Int /\ Mod(s, q) # 0
  BY <1>0, <1>4, <1>6, ProdStep, ProdNonzero, Zenon
<1>10. Mod(d, q) # 0
  BY <1>0, <1>2, DenNonzero, Zenon DEF d
<1> HIDE DEF D, N, s
<1>11. Cong(D, s * d, q) /\ Cong(N, s * u, q)
  BY <1>7, <1>8, CongTrans, Zenon
<1>12. Mod(D, q) # 0
  <2>1. Mod(s * d, q) # 0
    BY <1>0, <1>3, <1>9, <1>10, PrimeProduct, Zenon
  <2> QED
    BY <1>11, <2>1, Zenon DEF Cong
<1>13. r \in Int /\ Cong(D * r, 1, q)
  BY <1>7, <1>12, InvertPrime, Zenon
<1> HIDE DEF r
<1> DEFINE w == (N * r) % q
<1>14. w \in 0 .. q - 1 /\ Cong(w, N * r, q) /\ w \in Int
  <2>1. N * r \in Int
    BY <1>7, <1>13
  <2> QED
    BY <2>1, ReduceQ, Zenon
<1> HIDE DEF w
<1>15. Cong(s * d, D, q) /\ Cong(N, N, q) /\ Cong(w, w, q)
  BY <1>7, <1>11, <1>14, CongRefl, CongSym, Zenon
<1>16. Cong(w * (s * d), (N * r) * D, q) /\ Cong(N * (D * r), N * 1, q)
  BY <1>0, <1>13, <1>14, <1>15, CongMul, Zenon
<1>17. (N * r) * D = N * (D * r) /\ N * 1 = N /\ w * (s * d) = (w * d) * s /\ s * u = u * s
  BY <1>3, <1>7, <1>9, <1>13, <1>14
<1>18. Cong((w * d) * s, u * s, q)
  BY <1>11, <1>16, <1>17, CongTrans, Zenon
<1>19. Cong(w * d, u, q)
  <2>1. w * d \in Int
    BY <1>3, <1>14
  <2> QED
    BY <1>0, <1>3, <1>9, <1>18, <2>1, Cancel, Zenon
<1> QED
  BY <1>1, <1>14, <1>19, Zenon DEF d, u, w

(* The two overloads of getPi_0 return the same vector. *)
LEMMA PisAgree ==
    ASSUME t \in Nat, NEW ID, NEW x, Extends(x, ID, t)
    PROVE  getPi_0(ID) = getPi_0_Sigma(ID)
<1>1. ASSUME NEW i \in 1 .. t PROVE getPi_0(ID)[i] = getPi_0_Sigma(ID)[i]
  <2> DEFINE a == getPi_0(ID)[i]
             b == getPi_0_Sigma(ID)[i]
             d == Prod(Den(x, i), t)
             u == Prod(Num(x, i), t)
  <2>1. a \in 0 .. q - 1 /\ Cong(a * d, u, q)
    BY PiIsCoef, Zenon
  <2>2. b \in 0 .. q - 1 /\ Cong(b * d, u, q)
    BY SigmaPiIsCoef, Zenon
  <2>3. q \in Nat \ {0} /\ Prime(q)
    BY QPrime, Zenon
  <2>4. d \in Int /\ Mod(d, q) # 0
    <3>1. Points(x, t, q) /\ x \in [Nat -> Int] /\ i \in Nat
      BY DEF Extends, Points
    <3>2. d \in Int
      BY <3>1, CoefTypes, Zenon
    <3> QED
      BY <2>3, <3>1, <3>2, DenNonzero, Zenon
  <2> HIDE DEF a, b, d, u
  <2>5. a \in Int /\ b \in Int
    BY <2>1, <2>2
  <2>6. Cong(a * d, b * d, q)
    BY <2>1, <2>2, CongSym, CongTrans, Zenon
  <2>7. Cong(a, b, q)
    BY <2>3, <2>4, <2>5, <2>6, Cancel, Zenon
  <2>8. a = b
    BY <2>1, <2>2, <2>3, <2>7, ModSmall, Zenon DEF Cong
  <2> QED
    BY <2>8, Zenon DEF a, b
<1>2. /\ getPi_0(ID) = [i \in 1 .. t |-> getPi_0(ID)[i]]
      /\ getPi_0_Sigma(ID) = [i \in 1 .. t |-> getPi_0_Sigma(ID)[i]]
  BY Zenon DEF getPi_0, getPi_0_Sigma
<1> HIDE DEF getPi_0, getPi_0_Sigma
<1> QED
  BY <1>1, <1>2, Zenon

(* getPi_0 returns interpolation coefficients. *)
LEMMA PiCoefs ==
    ASSUME t \in Nat, NEW ID, NEW x, Extends(x, ID, t)
    PROVE  \E P : IsCoef(P, x, t, q) /\ \A i \in 1 .. t : getPi_0(ID)[i] = P[i]
<1> DEFINE P == [i \in Nat |-> IF i \in 1 .. t THEN getPi_0(ID)[i] ELSE 0]
<1>0. ASSUME NEW i \in 1 .. t PROVE i \in Nat /\ getPi_0(ID)[i] \in Int
  <2>1. getPi_0(ID)[i] \in 0 .. q - 1
    BY PiIsCoef, Zenon
  <2>2. q \in Nat
    BY QPrime, Zenon
  <2> QED
    BY <2>1, <2>2
<1>1. ASSUME NEW i \in 1 .. t PROVE getPi_0(ID)[i] = P[i]
  BY <1>0, Zenon
<1>2. P \in [Nat -> Int]
  <2>1. ASSUME NEW i \in Nat PROVE (IF i \in 1 .. t THEN getPi_0(ID)[i] ELSE 0) \in Int
    <3> HIDE DEF P
    <3>1. CASE i \in 1 .. t
      BY <1>0, <3>1, Zenon
    <3>2. CASE i \notin 1 .. t
      BY <3>2
    <3> QED
      BY <3>1, <3>2, Zenon
  <2> QED
    BY <2>1, Zenon
<1>3. ASSUME NEW i \in 1 .. t PROVE Cong(P[i] * Prod(Den(x, i), t), Prod(Num(x, i), t), q)
  BY <1>1, PiIsCoef, Zenon
<1> HIDE DEF P
<1>4. IsCoef(P, x, t, q)
  BY <1>2, <1>3, Zenon DEF IsCoef
<1> QED
  BY <1>1, <1>4, Zenon

(* Distinct nonzero IDs are points of interpolation. *)
LEMMA GoodExtends ==
    ASSUME t \in Nat, GoodIDs, \A i \in 1 .. t : SignerIDs[i] \in Int
    PROVE  \E x : Extends(x, SignerIDs, t)
<1> DEFINE x == [i \in Nat |-> IF i \in 1 .. t THEN SignerIDs[i] ELSE 0]
<1>1. x \in [Nat -> Int] /\ \A i \in 1 .. t : x[i] = SignerIDs[i] /\ x[i] \in Int
  OBVIOUS
<1>2. ASSUME NEW i \in 1 .. t PROVE Mod(x[i], q) # 0
  BY <1>1 DEF GoodIDs, Mod
<1>3. ASSUME NEW i \in 1 .. t, NEW j \in 1 .. t, i # j PROVE Mod(x[i] - x[j], q) # 0
  <2> HIDE DEF x
  <2>1. Mod(x[i], q) # Mod(x[j], q)
    BY <1>1, <1>3, Zenon DEF GoodIDs, Mod
  <2>2. x[i] \in Int /\ x[j] \in Int /\ q \in Nat \ {0} /\ x[i] - x[j] \in Int
    BY <1>1, QPrime
  <2>3. SUFFICES ASSUME Mod(x[i] - x[j], q) = 0 PROVE FALSE
    BY Zenon
  <2>4. PICK k \in Int : x[i] - x[j] = q * k + 0
    BY <2>2, <2>3, ModRange, Zenon
  <2>5. x[i] = x[j] + q * k
    BY <2>2, <2>4
  <2> QED
    BY <2>1, <2>2, <2>5, ModEq, Zenon
<1> HIDE DEF x
<1>4. Extends(x, SignerIDs, t)
  BY <1>1, <1>2, <1>3, Zenon DEF Extends, Points
<1> QED
  BY <1>4, Zenon

(* The coefficients interpolate the powers of the IDs. *)
LEMMA PiSum ==
    ASSUME t \in Nat \ {0}, NEW ID, NEW x, Extends(x, ID, t), NEW k \in 0 .. t - 1,
           NEW P, IsCoef(P, x, t, q), NEW h \in [Nat -> Int],
           \A i \in 1 .. t : h[i] = P[i] * pow_mpz(ID[i], k, q)
    PROVE  Cong(Sum(h, t), IF k = 0 THEN 1 ELSE 0, q)
<1> DEFINE d == [l \in Nat |-> 1]
           b == [l \in Nat |-> 0]
           g == Term(P, x, d, b, k)
<1>0. /\ q \in Nat \ {0} /\ Prime(q) /\ t - 1 \in Nat /\ (t - 1) + 1 = t /\ t \in Nat /\ k \in Nat
      /\ x \in [Nat -> Int] /\ Points(x, t, q) /\ P \in [Nat -> Int]
  BY QPrime DEF Extends, Points, IsCoef
<1>1. d \in [Nat -> Int] /\ b \in [Nat -> Int]
  OBVIOUS
<1>2. Prod(b, k) = IF k = 0 THEN 1 ELSE 0
  <2>1. CASE k = 0
    BY <1>1, <2>1, ProdStep, Zenon
  <2>2. CASE k # 0
    <3>1. k - 1 \in Nat /\ (k - 1) + 1 = k /\ b[k] = 0
      BY <1>0, <2>2
    <3> HIDE DEF b
    <3>2. Prod(b, k - 1) \in Int /\ Prod(b, k) = Prod(b, k - 1) * b[k]
      BY <1>1, <3>1, ProdStep, Zenon
    <3> QED
      BY <2>2, <3>1, <3>2
  <2> QED
    BY <2>1, <2>2, Zenon
<1>3. \A y \in Int : Factor(d, b, y) = [l \in Nat |-> y]
  BY DEF Factor
<1>4. ASSUME NEW i \in Nat PROVE g[i] = P[i] * Pow(x[i], k)
  <2>1. x[i] \in Int
    BY <1>0, Zenon
  <2>2. g[i] = P[i] * Prod(Factor(d, b, x[i]), k)
    BY Zenon DEF Term
  <2> HIDE DEF g, d, b
  <2> QED
    BY <1>3, <2>1, <2>2, Zenon DEF Pow
<1> HIDE DEF d, b
<1>5. g \in [Nat -> Int]
  BY <1>0, <1>1, TermTypes, Zenon
<1>6. Cong(Sum(g, t), Prod(b, k), q)
  <2>1. Interpolates(x, (t - 1) + 1, q, d, b, k)
    BY <1>0, <1>1, Interpolation, Zenon
  <2> QED
    BY <1>0, <2>1, Zenon DEF Interpolates
<1> HIDE DEF g
<1>7. ASSUME NEW i \in 1 .. t PROVE Cong(h[i], 1 * g[i] + 0 * g[i], q)
  <2>1. i \in Nat /\ x[i] \in Int /\ P[i] \in Int /\ ID[i] = x[i]
    BY <1>0 DEF Extends
  <2>2. Cong(pow_mpz(x[i], k, q), Pow(x[i], k), q) /\ Cong(P[i], P[i], q)
    BY <1>0, <2>1, PowIs, CongRefl, Zenon
  <2>3. Cong(P[i] * pow_mpz(x[i], k, q), P[i] * Pow(x[i], k), q)
    BY <1>0, <2>2, CongMul, Zenon
  <2>4. Cong(h[i], g[i], q) /\ g[i] \in Int
    BY <1>4, <1>5, <2>1, <2>3, Zenon
  <2>5. 1 * g[i] + 0 * g[i] = g[i]
    BY <2>4
  <2> QED
    BY <2>4, <2>5, Zenon
<1>8. Cong(Sum(h, t), 1 * Sum(g, t) + 0 * Sum(g, t), q)
  <2>1. 0 \in Int /\ 1 \in Int
    OBVIOUS
  <2> QED
    BY <1>0, <1>5, <1>7, <2>1, SumLinear, Zenon
<1>9. Sum(g, t) \in Int
  BY <1>0, <1>5, SumStep, Zenon
<1>10. 1 * Sum(g, t) + 0 * Sum(g, t) = Sum(g, t)
  BY <1>9
<1> QED
  BY <1>2, <1>6, <1>8, <1>10, CongTrans, Zenon

(* The same for the sum that is reduced after every term. *)
LEMMA PiSumLoop ==
    ASSUME t \in Nat \ {0}, NEW ID, NEW x, Extends(x, ID, t), NEW k \in 0 .. t - 1
    PROVE  (LET sum[i \in 0 .. t] == IF i = 0 THEN 0
                      ELSE (sum[i - 1] + getPi_0(ID)[i] * pow_mpz(ID[i], k, q)) % q
            IN  sum[t]) = IF k = 0 THEN 1 ELSE 0
<1>0. q \in Nat \ {0} /\ t \in Nat /\ q > 2
  BY QPrime, Zenon
<1>1. PICK P : IsCoef(P, x, t, q) /\ \A i \in 1 .. t : getPi_0(ID)[i] = P[i]
  BY <1>0, PiCoefs, Zenon
<1> DEFINE h == [i \in Nat |-> IF i \in 1 .. t THEN P[i] * pow_mpz(ID[i], k, q) ELSE 0]
           s == CHOOSE sum : sum = [i \in 0 .. t |-> IF i = 0 THEN 0
                      ELSE (sum[i - 1] + getPi_0(ID)[i] * pow_mpz(ID[i], k, q)) % q]
           w == [i \in 0 .. t |-> Mod(Sum(h, i), q)]
<1>2. ASSUME NEW i \in 1 .. t PROVE P[i] * pow_mpz(ID[i], k, q) \in Int
  <2>1. i \in Nat /\ k \in Nat /\ ID[i] \in Int /\ P[i] \in Int
    BY <1>1 DEF Extends, Points, IsCoef
  <2>2. pow_mpz(ID[i], k, q) \in 0 .. q - 1
    BY <1>0, <2>1, PowIs, Zenon
  <2>3. pow_mpz(ID[i], k, q) \in Int
    BY <1>0, <2>2
  <2> QED
    BY <2>1, <2>3
<1>3. h \in [Nat -> Int]
  BY <1>2
<1>4. \A i \in 1 .. t : h[i] = P[i] * pow_mpz(ID[i], k, q) /\ h[i] = getPi_0(ID)[i] * pow_mpz(ID[i], k, q)
  BY <1>1
<1> HIDE DEF h
<1>5. Cong(Sum(h, t), IF k = 0 THEN 1 ELSE 0, q)
  BY <1>1, <1>3, <1>4, PiSum
<1>6. w = [i \in 0 .. t |-> IF i = 0 THEN 0
                      ELSE (w[i - 1] + getPi_0(ID)[i] * pow_mpz(ID[i], k, q)) % q]
  <2>1. w[0] = 0
    <3>1. 0 \in 0 .. q - 1 /\ 0 \in 0 .. t
      BY <1>0
    <3>2. Mod(0, q) = 0 /\ Sum(h, 0) = 0
      BY <1>0, <1>3, <3>1, ModSmall, SumStep, Zenon
    <3> QED
      BY <3>1, <3>2, Zenon
  <2>2. ASSUME NEW i \in 0 .. t, i # 0
        PROVE  w[i] = (w[i - 1] + getPi_0(ID)[i] * pow_mpz(ID[i], k, q)) % q
    <3>1. i - 1 \in Nat /\ i - 1 \in 0 .. t /\ (i - 1) + 1 = i /\ i \in 1 .. t /\ i \in Nat
      BY <1>0, <2>2
    <3>2. Sum(h, i - 1) \in Int /\ Sum(h, i) = Sum(h, i - 1) + h[i] /\ h[i] \in Int
      BY <1>3, <3>1, SumStep, Zenon
    <3>3. Cong(Mod(Sum(h, i - 1), q), Sum(h, i - 1), q) /\ Cong(h[i], h[i], q)
      BY <1>0, <3>2, ModMod, CongRefl, Zenon
    <3>4. Cong(Mod(Sum(h, i - 1), q) + h[i], Sum(h, i - 1) + h[i], q)
      BY <1>0, <3>3, CongAdd, Zenon
    <3>5. w[i] = Mod(Sum(h, i), q) /\ w[i - 1] = Mod(Sum(h, i - 1), q)
      BY <3>1, Zenon
    <3>6. w[i] = Mod(w[i - 1] + h[i], q)
      BY <3>2, <3>4, <3>5, Zenon DEF Cong
    <3> HIDE DEF w
    <3> QED
      BY <1>4, <3>1, <3>6, Zenon DEF Mod
  <2>3. w = [i \in 0 .. t |-> w[i]]
    BY Zenon
  <2> HIDE DEF w
  <2> QED
    BY <2>1, <2>2, <2>3, Zenon
<1>7. s = [i \in 0 .. t |-> IF i = 0 THEN 0
                      ELSE (s[i - 1] + getPi_0(ID)[i] * pow_mpz(ID[i], k, q)) % q]
  <2> HIDE DEF w
  <2> QED
    BY <1>6, Zenon
<1> DEFINE S == {i \in Nat : i <= t => s[i] = w[i]}
<1> HIDE DEF s, w
<1>8. 0 \in S
  BY <1>0, <1>6, <1>7
<1>9. ASSUME NEW i \in Nat, i \in S PROVE i + 1 \in S
  <2>1. CASE i + 1 <= t
    <3>1. i + 1 \in 0 .. t /\ i + 1 # 0 /\ (i + 1) - 1 = i /\ s[i] = w[i]
      BY <1>0, <1>9, <2>1
    <3>2. s[i + 1] = (s[i] + getPi_0(ID)[i + 1] * pow_mpz(ID[i + 1], k, q)) % q
      BY <1>7, <3>1, Zenon
    <3>3. w[i + 1] = (w[i] + getPi_0(ID)[i + 1] * pow_mpz(ID[i + 1], k, q)) % q
      BY <1>6, <3>1, Zenon
    <3> QED
      BY <3>1, <3>2, <3>3
  <2> QED
    BY <2>1
<1> HIDE DEF S
<1>10. Nat \subseteq S
  BY <1>8, <1>9, Induction, Zenon
<1>11. s[t] = w[t]
  BY <1>0, <1>10 DEF S
<1>12. w[t] = Mod(Sum(h, t), q)
  BY <1>0 DEF w
<1>13. (IF k = 0 THEN 1 ELSE 0) \in 0 .. q - 1
  BY <1>0
<1>14. s[t] = IF k = 0 THEN 1 ELSE 0
  BY <1>0, <1>5, <1>11, <1>12, <1>13, ModSmall, Zenon DEF Cong
<1> QED
  BY <1>14, Zenon DEF s

-----------------------------------------------------------------------------
(* What the blinding of a row comes to. *)

Powers(a, u) == [l \in Nat |-> Pow(a, u[l])]

(* Products of powers are integers. *)
LEMMA PowersTypes ==
    ASSUME NEW a \in Int, NEW u \in [Nat -> Nat], NEW m \in Nat
    PROVE  Powers(a, u) \in [Nat -> Int] /\ Prod(Powers(a, u), m) \in Int
<1>1. ASSUME NEW l \in Nat PROVE Pow(a, u[l]) \in Int
  <2>1. u[l] \in Nat
    BY Zenon
  <2> QED
    BY <2>1, PowStep, Zenon
<1>2. Powers(a, u) \in [Nat -> Int]
  BY <1>1, Zenon DEF Powers
<1> QED
  BY <1>2, ProdStep, Zenon

(* A power of beta = g^a is the a-th power of a power of g. *)
LEMMA PowSwap ==
    ASSUME NEW g \in Int, NEW a \in Nat, NEW k \in Nat, NEW beta \in Int, Cong(beta, Pow(g, a), q)
    PROVE  Cong(Pow(beta, k), Pow(Pow(g, k), a), q)
<1>1. Pow(g, a) \in Int /\ Pow(g, k) \in Int /\ q \in Nat \ {0}
  BY PowStep, QPrime, Zenon
<1>2. Cong(Pow(beta, k), Pow(Pow(g, a), k), q)
  BY <1>1, PowCong, Zenon
<1>3. Pow(Pow(g, a), k) = Pow(g, a * k) /\ Pow(Pow(g, k), a) = Pow(g, k * a) /\ a * k = k * a
  <2>1. a * k = k * a
    OBVIOUS
  <2> QED
    BY <2>1, PowPow, Zenon
<1> QED
  BY <1>2, <1>3, Zenon

(* (g^u1 ... g^um g^x)^alpha = beta^u1 ... beta^um beta^x *)
LEMMA Blinding ==
    ASSUME NEW g \in Int, NEW a \in Nat, NEW beta \in Int, Cong(beta, Pow(g, a), q),
           NEW x \in Nat, NEW m \in Nat, NEW u \in [Nat -> Nat]
    PROVE  Cong(Pow(Prod(Powers(g, u), m) * Pow(g, x), a), Prod(Powers(beta, u), m) * Pow(beta, x), q)
<1> DEFINE C == Prod(Powers(g, u), m)
           B == Prod(Powers(beta, u), m)
<1>1. /\ C \in Int /\ B \in Int /\ Powers(g, u) \in [Nat -> Int] /\ Powers(beta, u) \in [Nat -> Int]
      /\ Pow(g, x) \in Int /\ Pow(beta, x) \in Int /\ q \in Nat \ {0}
  BY PowersTypes, PowStep, QPrime, Zenon
<1>2. ASSUME NEW i \in 1 .. m PROVE Cong(Powers(beta, u)[i], Pow(Powers(g, u)[i], a), q)
  <2>1. i \in Nat /\ u[i] \in Nat
    OBVIOUS
  <2>2. Powers(beta, u)[i] = Pow(beta, u[i]) /\ Powers(g, u)[i] = Pow(g, u[i])
    BY <2>1, Zenon DEF Powers
  <2> QED
    BY <2>1, <2>2, PowSwap, Zenon
<1>3. Cong(B, Pow(C, a), q)
  BY <1>1, <1>2, PowOfProd, Zenon
<1>4. Cong(Pow(beta, x), Pow(Pow(g, x), a), q)
  BY PowSwap, Zenon
<1> HIDE DEF B, C
<1> DEFINE c == C * Pow(g, x)
<1>5. c \in Int /\ Cong(c, C * Pow(g, x), q)
  BY <1>1, CongRefl
<1> HIDE DEF c
<1>6. Cong(Pow(c, a), Pow(C, a) * Pow(Pow(g, x), a), q)
  BY <1>1, <1>5, PowTimes, Zenon
<1>7. Cong(B * Pow(beta, x), Pow(C, a) * Pow(Pow(g, x), a), q)
  BY <1>1, <1>3, <1>4, CongMul, Zenon
<1>8. Cong(Pow(c, a), B * Pow(beta, x), q)
  BY <1>6, <1>7, CongSym, CongTrans
<1> QED
  BY <1>8, Zenon DEF c, C, B

(* The head's aux is not 0. *)
LEMMA BlindingNonzero ==
    ASSUME NEW g \in Int, Mod(g, q) # 0, NEW x \in Nat, NEW m \in Nat, NEW u \in [Nat -> Nat]
    PROVE  Mod(Prod(Powers(g, u), m) * Pow(g, x), q) # 0
<1>1. /\ Prod(Powers(g, u), m) \in Int /\ Powers(g, u) \in [Nat -> Int] /\ Pow(g, x) \in Int /\ Prime(q)
  BY PowersTypes, PowStep, QPrime, Zenon
<1>2. ASSUME NEW i \in 1 .. m PROVE Mod(Powers(g, u)[i], q) # 0
  <2>1. i \in Nat /\ u[i] \in Nat
    OBVIOUS
  <2>2. Powers(g, u)[i] = Pow(g, u[i])
    BY <2>1, Zenon DEF Powers
  <2> QED
    BY <1>1, <2>1, <2>2, PowNonzero, Zenon
<1>3. Mod(Prod(Powers(g, u), m), q) # 0
  BY <1>1, <1>2, ProdNonzero, Zenon
<1>4. Mod(Pow(g, x), q) # 0
  BY <1>1, PowNonzero, Zenon
<1> QED
  BY <1>1, <1>3, <1>4, PrimeProduct, Zenon

(* Re-encryption: raised to rk, then to the verifier's hash, the blinding  *)
(* is raised to alpha.                                                     *)
LEMMA ReEncryption ==
    ASSUME NEW C \in Int, Mod(C, q) # 0, NEW c \in Int, Cong(c, C, q),
           NEW rk \in Nat, NEW h \in Nat, NEW a \in Nat, Cong(rk * h, a, q - 1),
           NEW aux \in Int, Cong(aux, Pow(c, rk), q)
    PROVE  Cong(Pow(aux, h), Pow(C, a), q)
<1>1. q \in Nat \ {0} /\ Prime(q) /\ Pow(c, rk) \in Int /\ Pow(C, rk) \in Int /\ rk * h \in Nat
  BY QPrime, PowStep
<1>2. Cong(Pow(c, rk), Pow(C, rk), q)
  BY <1>1, PowCong, Zenon
<1>3. Cong(aux, Pow(C, rk), q)
  BY <1>2, CongTrans, Zenon
<1>4. Cong(Pow(aux, h), Pow(Pow(C, rk), h), q)
  BY <1>1, <1>3, PowCong, Zenon
<1>5. Pow(Pow(C, rk), h) = Pow(C, rk * h)
  BY PowPow, Zenon
<1>6. Cong(Pow(C, rk * h), Pow(C, a), q)
  BY <1>1, PowExponent, Zenon
<1> QED
  BY <1>4, <1>5, <1>6, CongTrans, Zenon

-----------------------------------------------------------------------------
(* What hashToCoprime returns is invertible modulo q - 1. *)

(* What hashToCoprime returns is prime to every factor of q - 1. *)
LEMMA HashFound ==
    ASSUME sha \in Shas, NEW y \in 0 .. q - 1, hashToCoprime(y) # 0
    PROVE  hashToCoprime(y) \in Nat /\ isCoprime(hashToCoprime(y))
<1> DEFINE hash == hashToZp256(sha, y, q - 1)
           hits == {k \in 0 .. q - 2 : isCoprime(hash + k * inc)}
           k0 == CHOOSE k \in hits : \A l \in hits : k <= l
<1>1. hash \in Nat
  <2> DEFINE m == q - 1
             a == sha[y]
  <2>1. a \in Int /\ m \in Nat \ {0}
    BY ShaAssumption, QPrime
  <2>2. hash = Mod(a, m)
    BY Zenon DEF hashToZp256, Mod
  <2> HIDE DEF m, a
  <2>3. Mod(a, m) \in 0 .. m - 1
    BY <2>1, ModRange, Zenon
  <2> QED
    BY <2>1, <2>2, <2>3
<1>2. inc \in Nat
  BY FussionAssumption
<1>3. hits # {} /\ hashToCoprime(y) = hash + inc * k0
  BY Zenon DEF hashToCoprime
<1>4. hits \subseteq Nat
  OBVIOUS
<1>5. \A k \in hits : isCoprime(hash + k * inc)
  BY Zenon
<1> HIDE DEF hits
<1>6. \E k \in hits : \A l \in hits : k <= l
  BY <1>3, <1>4, Least, Zenon
<1>7. k0 \in hits
  BY <1>6, Zenon
<1> HIDE DEF k0, hash
<1>8. k0 \in Nat /\ isCoprime(hash + k0 * inc)
  BY <1>4, <1>5, <1>7, Zenon
<1>9. hash + k0 * inc = hash + inc * k0 /\ hash + inc * k0 \in Nat
  BY <1>1, <1>2, <1>8
<1> QED
  BY <1>3, <1>8, <1>9, Zenon

(* getFactors() lists every prime of q - 1. *)
LEMMA FactorsPrime ==
    ASSUME NEW f \in 2 .. q - 1, Prime(f), Mod(q - 1, f) = 0
    PROVE  f \in Factors
<1>1. (q - 1) % f = 0 /\ \A d \in 2 .. f - 1 : f % d # 0
  BY Zenon DEF Prime, Mod
<1>2. Factors = {c \in 2 .. q - 1 : (q - 1) % c = 0 /\ \A d \in 2 .. c - 1 : c % d # 0}
  BY FussionAssumption, Zenon
<1> QED
  BY <1>1, <1>2, Zenon

(* The exponent a / h that AggSig computes modulo q - 1 is a again after   *)
(* h.                                                                      *)
LEMMA HashInverse ==
    ASSUME NEW h \in Nat, isCoprime(h), NEW a \in Nat
    PROVE  /\ (a * invert_mpz(h, q - 1)) % (q - 1) \in Nat
           /\ Cong(((a * invert_mpz(h, q - 1)) % (q - 1)) * h, a, q - 1)
<1> DEFINE m == q - 1
           v == invert_mpz(h, m)
           r == (a * v) % m
<1>1. m \in Nat \ {0} /\ m >= 2
  BY QPrime, Zenon
<1>2. ASSUME NEW f \in 2 .. m, Prime(f), Mod(m, f) = 0 PROVE Mod(h, f) # 0
  <2>1. f \in Factors
    BY <1>2, FactorsPrime, Zenon
  <2> QED
    BY <2>1, Zenon DEF isCoprime, Mod
<1> HIDE DEF m
<1>3. \E x \in 1 .. m - 1 : Mod(h * x, m) = 1
  <2>1. h \in Int /\ m \in Nat /\ \A f \in 2 .. m : Prime(f) /\ Mod(m, f) = 0 => Mod(h, f) # 0
    BY <1>1, <1>2
  <2> QED
    BY <1>1, <2>1, NoFactorInverse, Zenon
<1>4. v \in 1 .. m - 1 /\ Mod(h * v, m) = 1
  <2>1. v = CHOOSE x \in 1 .. m - 1 : Mod(h * x, m) = 1
    BY <1>3, Zenon DEF invert_mpz, Mod
  <2> HIDE DEF v
  <2> QED
    BY <1>3, <2>1, Zenon
<1> HIDE DEF v
<1>5. v \in Nat /\ a * v \in Int /\ 1 \in 0 .. m - 1 /\ h * v \in Int
  BY <1>1, <1>4
<1>6. Cong(h * v, 1, m)
  BY <1>1, <1>4, <1>5, ModSmall DEF Cong
<1>7. r \in 0 .. m - 1 /\ Cong(r, a * v, m)
  <2>1. Mod(a * v, m) \in 0 .. m - 1 /\ Cong(Mod(a * v, m), a * v, m)
    BY <1>1, <1>5, ModRange, ModMod, Zenon
  <2> QED
    BY <2>1, Zenon DEF Mod
<1> HIDE DEF r
<1>8. Cong(h, h, m) /\ Cong(a, a, m) /\ r \in Nat
  BY <1>1, <1>7, CongRefl
<1>9. Cong(r * h, (a * v) * h, m) /\ Cong(a * (h * v), a * 1, m)
  <2>1. Cong(r * h, (a * v) * h, m)
    BY <1>1, <1>7, <1>8, CongMul, Zenon
  <2>2. Cong(a * (h * v), a * 1, m)
    BY <1>1, <1>6, <1>8, CongMul, Zenon
  <2> QED
    BY <2>1, <2>2, Zenon
<1>10. (a * v) * h = a * (h * v) /\ a * 1 = a
  BY <1>5
<1>11. Cong(r * h, a, m)
  BY <1>9, <1>10, CongTrans, Zenon
<1> QED
  BY <1>8, <1>11, Zenon DEF r, v, m

-----------------------------------------------------------------------------
(* The public keys. *)

(* The i-th public key is the product of the first i coefficients. *)
LEMMA PKIs ==
    ASSUME tm \in Nat, NEW b, NEW g \in [Nat -> Int], \A i \in 1 .. tm - 1 : b[i] = g[i],
           NEW i \in 1 .. tm - 1
    PROVE  /\ getPK(b)[i] \in 0 .. q - 1 /\ Cong(getPK(b)[i], Prod(g, i), q)
           /\ DOMAIN getPK(b) = 1 .. tm - 1
<1> DEFINE m == tm - 1
           P == CHOOSE PK : PK = [j \in 1 .. tm - 1 |->
                                      ECP2_mul(IF j = 1 THEN ECP2_generator ELSE PK[j - 1], b[j])]
           w == [j \in 1 .. m |-> Mod(Prod(g, j), q)]
<1>0. q \in Nat \ {0} /\ m \in Nat /\ 1 \in 1 .. m
  BY QPrime
<1>1. getPK(b) = P
  BY Zenon DEF getPK
<1>2. w[1] = (1 * b[1]) % q
  <2>1. Prod(g, 0) = 1 /\ Prod(g, 0 + 1) = Prod(g, 0) * g[0 + 1] /\ 0 + 1 = 1
    BY ProdStep
  <2>2. b[1] = g[1]
    BY <1>0, Zenon
  <2> QED
    BY <1>0, <2>1, <2>2, Zenon DEF Mod
<1>3. ASSUME NEW j \in 2 .. m PROVE w[j] = (w[j - 1] * b[j]) % q
  <2>1. j - 1 \in Nat /\ j - 1 \in 1 .. m /\ (j - 1) + 1 = j /\ j \in 1 .. m /\ j \in Nat
    BY <1>0
  <2>2. Prod(g, j - 1) \in Int /\ Prod(g, j) = Prod(g, j - 1) * g[j] /\ g[j] \in Int /\ b[j] = g[j]
    BY <2>1, ProdStep, Zenon
  <2>3. Cong(Mod(Prod(g, j - 1), q), Prod(g, j - 1), q) /\ Cong(g[j], g[j], q)
    BY <1>0, <2>2, ModMod, CongRefl, Zenon
  <2>4. Cong(Mod(Prod(g, j - 1), q) * g[j], Prod(g, j - 1) * g[j], q)
    BY <1>0, <2>3, CongMul, Zenon
  <2>5. w[j] = Mod(Prod(g, j), q) /\ w[j - 1] = Mod(Prod(g, j - 1), q)
    BY <2>1, Zenon
  <2>6. w[j] = Mod(w[j - 1] * b[j], q)
    BY <2>2, <2>4, <2>5, Zenon DEF Cong
  <2> HIDE DEF w
  <2> QED
    BY <2>6, Zenon DEF Mod
<1>4. w = [j \in 1 .. m |-> w[j]]
  BY Zenon
<1>5. w = [j \in 1 .. tm - 1 |-> ECP2_mul(IF j = 1 THEN ECP2_generator ELSE w[j - 1], b[j])]
  <2> HIDE DEF w
  <2>1. ASSUME NEW j \in 1 .. m
        PROVE  w[j] = ECP2_mul(IF j = 1 THEN ECP2_generator ELSE w[j - 1], b[j])
    <3>1. CASE j = 1
      BY <1>2, <3>1, Zenon DEF ECP2_mul, ECP2_generator
    <3>2. CASE j # 1
      <4>1. j \in 2 .. m
        BY <1>0, <3>2
      <4> QED
        BY <1>3, <3>2, <4>1, Zenon DEF ECP2_mul
    <3> QED
      BY <3>1, <3>2, Zenon
  <2> HIDE DEF m
  <2>2. w = [j \in 1 .. m |-> ECP2_mul(IF j = 1 THEN ECP2_generator ELSE w[j - 1], b[j])]
    BY <1>4, <2>1, Zenon
  <2> QED
    BY <2>2, Zenon DEF m
<1>6. P = [j \in 1 .. tm - 1 |-> ECP2_mul(IF j = 1 THEN ECP2_generator ELSE P[j - 1], b[j])]
  <2> HIDE DEF w, m
  <2> QED
    BY <1>5, Zenon
<1> DEFINE S == {j \in Nat : j + 1 <= m => P[j + 1] = w[j + 1]}
<1> HIDE DEF P, w
<1>7. 0 \in S
  <2>1. P[1] = ECP2_mul(ECP2_generator, b[1]) /\ w[1] = ECP2_mul(ECP2_generator, b[1])
    BY <1>0, <1>5, <1>6, Zenon
  <2> QED
    BY <2>1
<1>8. ASSUME NEW j \in Nat, j \in S PROVE j + 1 \in S
  <2>1. CASE (j + 1) + 1 <= m
    <3>1. (j + 1) + 1 \in 1 .. m /\ (j + 1) + 1 # 1 /\ ((j + 1) + 1) - 1 = j + 1 /\ P[j + 1] = w[j + 1]
      BY <1>0, <1>8, <2>1
    <3>2. P[(j + 1) + 1] = ECP2_mul(P[j + 1], b[(j + 1) + 1])
      BY <1>6, <3>1, Zenon
    <3>3. w[(j + 1) + 1] = ECP2_mul(w[j + 1], b[(j + 1) + 1])
      BY <1>5, <3>1, Zenon
    <3> QED
      BY <3>1, <3>2, <3>3
  <2> QED
    BY <2>1
<1> HIDE DEF S
<1>9. Nat \subseteq S
  BY <1>7, <1>8, Induction, Zenon
<1>10. P[i] = w[i]
  <2>1. i - 1 \in S /\ (i - 1) + 1 = i /\ i <= m
    BY <1>9
  <2> QED
    BY <2>1, Zenon DEF S
<1>11. w[i] = Mod(Prod(g, i), q) /\ Prod(g, i) \in Int
  BY ProdStep DEF w
<1>12. DOMAIN getPK(b) = 1 .. tm - 1
  BY <1>1, <1>6, Zenon
<1> QED
  BY <1>12, <1>0, <1>1, <1>10, <1>11, ModRange, ModMod, Zenon

-----------------------------------------------------------------------------
(* The keys and the signature of one UAV. *)

(* g continues the values f of 1..m. *)
Continues(g, f, m) == g \in [Nat -> Nat] /\ \A i \in 1 .. m : f[i] = g[i]

(* A drawn vector continued to all of Nat is a sequence of numbers. *)
LEMMA ContinuesTypes ==
    ASSUME NEW g, NEW f, NEW m, Continues(g, f, m)
    PROVE  g \in [Nat -> Nat] /\ g \in [Nat -> Int]
BY DEF Continues

(* Every drawn vector can be continued. *)
LEMMA Continued ==
    ASSUME NEW m \in Nat, NEW S, S \subseteq Nat, NEW f \in [1 .. m -> S]
    PROVE  \E g : Continues(g, f, m)
<1> DEFINE g == [i \in Nat |-> IF i \in 1 .. m THEN f[i] ELSE 0]
<1>1. ASSUME NEW i \in Nat PROVE (IF i \in 1 .. m THEN f[i] ELSE 0) \in Nat
  <2>1. CASE i \in 1 .. m
    <3>1. f[i] \in Nat
      <4>1. f[i] \in S
        BY <2>1, Zenon
      <4> QED
        BY <4>1, Zenon
    <3> QED
      BY <2>1, <3>1, Zenon
  <2>2. CASE i \notin 1 .. m
    BY <2>2, Zenon
  <2> QED
    BY <2>1, <2>2, Zenon
<1>2. g \in [Nat -> Nat]
  BY <1>1, Zenon
<1>3. ASSUME NEW i \in 1 .. m PROVE f[i] = g[i]
  <2>1. i \in Nat
    OBVIOUS
  <2> QED
    BY <2>1, Zenon
<1> HIDE DEF g
<1>4. Continues(g, f, m)
  BY <1>2, <1>3, Zenon DEF Continues
<1> QED
  BY <1>4, Zenon

(* The hash of the message is a point of the group. *)
LEMMA PointIs == sha \in Shas => hashToPoint(sha, M) \in 0 .. q - 1 /\ hashToPoint(sha, M) \in Int
<1> SUFFICES ASSUME sha \in Shas PROVE hashToPoint(sha, M) \in 0 .. q - 1 /\ hashToPoint(sha, M) \in Int
  BY Zenon
<1>1. sha[M] \in Int
  <2>1. M \in 0 .. q - 1 \cup {M}
    BY Zenon
  <2>2. sha[M] \in Nat
    BY <2>1, ShaAssumption, Zenon
  <2> QED
    BY <2>2
<1>2. sha[M] % q \in Int
  BY <1>1, ReduceQ, Zenon
<1>3. 1 * (sha[M] % q) \in Int
  BY <1>2
<1>4. hashToPoint(sha, M) = (1 * (sha[M] % q)) % q
  BY Zenon DEF hashToPoint, ECP_mul, hashToZp256
<1> QED
  BY <1>3, <1>4, ReduceQ, Zenon

(* getUAV: the two ciphertext vectors of a UAV. *)
LEMMA UavIs ==
    ASSUME pp.g \in Int, pp.beta \in Int, tm \in Nat, NEW y \in Nat, NEW d, NEW b, NEW u,
           NEW D, Continues(D, d, tm - 1), NEW B, Continues(B, b, tm - 1), NEW U, Continues(U, u, tm - 1)
    PROVE  /\ getUAV(d, b, y, u).ID = y
           /\ \A i \in 1 .. tm - 1 :
                 /\ getUAV(d, b, y, u).c1[i] \in 0 .. q - 1
                 /\ Cong(getUAV(d, b, y, u).c1[i], Powers(pp.g, U)[i], q)
                 /\ getUAV(d, b, y, u).c2[i] \in 0 .. q - 1
                 /\ Cong(getUAV(d, b, y, u).c2[i], Powers(pp.beta, U)[i] * Factor(D, B, y)[i], q)
<1>1. getUAV(d, b, y, u).ID = y
  BY Zenon DEF getUAV
<1>2. ASSUME NEW i \in 1 .. tm - 1
      PROVE  /\ getUAV(d, b, y, u).c1[i] \in 0 .. q - 1
             /\ Cong(getUAV(d, b, y, u).c1[i], Powers(pp.g, U)[i], q)
             /\ getUAV(d, b, y, u).c2[i] \in 0 .. q - 1
             /\ Cong(getUAV(d, b, y, u).c2[i], Powers(pp.beta, U)[i] * Factor(D, B, y)[i], q)
  <2> DEFINE v == U[i]
             G == pp.g
             P == pow_mpz(G, v, q)
             beta == pp.beta
             R == pow_mpz(beta, v, q)
             F == D[i] * y + B[i]
  <2>1. i \in Nat /\ d[i] = D[i] /\ b[i] = B[i] /\ u[i] = v /\ D[i] \in Nat /\ B[i] \in Nat /\ v \in Nat
    BY DEF Continues
  <2>2. getUAV(d, b, y, u).c1[i] = P /\ getUAV(d, b, y, u).c2[i] = (R * (F % q)) % q
    BY <2>1, Zenon DEF getUAV
  <2>3. Powers(G, U)[i] = Pow(G, v) /\ Powers(beta, U)[i] = Pow(beta, v) /\ Factor(D, B, y)[i] = F
    BY <2>1, Zenon DEF Powers, Factor
  <2>4. q \in Nat \ {0} /\ F \in Int /\ G \in Int /\ beta \in Int
    BY <2>1, QPrime
  <2> HIDE DEF v, F, G, beta
  <2>5. P \in 0 .. q - 1 /\ Cong(P, Pow(G, v), q) /\ R \in 0 .. q - 1 /\ Cong(R, Pow(beta, v), q)
    BY <2>1, <2>4, PowIs, Zenon
  <2>6. F % q \in Int /\ Cong(F % q, F, q)
    BY <2>4, ReduceQ, Zenon
  <2> HIDE DEF P, R
  <2>7. Cong(R * (F % q), Pow(beta, v) * F, q)
    BY <2>4, <2>5, <2>6, CongMul, Zenon
  <2>8. R * (F % q) \in Int
    BY <2>4, <2>5, <2>6
  <2>9. (R * (F % q)) % q \in 0 .. q - 1 /\ Cong((R * (F % q)) % q, R * (F % q), q)
    BY <2>8, ReduceQ, Zenon
  <2>10. Cong((R * (F % q)) % q, Pow(beta, v) * F, q)
    BY <2>7, <2>9, CongTrans, Zenon
  <2> QED
    BY <2>2, <2>3, <2>5, <2>9, <2>10, Zenon DEF G, beta
<1> QED
  BY <1>1, <1>2, Zenon

(* Sign: the two products over the first t - 1 ciphertexts. *)
LEMMA SignIs ==
    ASSUME pp.g \in Int, pp.beta \in Int, tm \in Nat, t - 1 \in 0 .. tm - 1, sha \in Shas, NEW y \in Nat,
           NEW d, NEW b, NEW u, NEW uav, uav = getUAV(d, b, y, u),
           NEW D, Continues(D, d, tm - 1), NEW B, Continues(B, b, tm - 1), NEW U, Continues(U, u, tm - 1)
    PROVE  /\ Sign(uav).ID = y
           /\ Sign(uav).cj \in 0 .. q - 1
           /\ Cong(Sign(uav).cj, Prod(Powers(pp.g, U), t - 1), q)
           /\ Sign(uav).sig \in 0 .. q - 1
           /\ Cong(Sign(uav).sig,
                   hashToPoint(sha, M) * (Prod(Powers(pp.beta, U), t - 1) * Prod(Factor(D, B, y), t - 1)), q)
<1> DEFINE G == Powers(pp.g, U)
           R == Powers(pp.beta, U)
           F == Factor(D, B, y)
           m == t - 1
           H == hashToPoint(sha, M)
           W == [l \in Nat |-> R[l] * F[l]]
           c == ProdMod(uav.c1, m)
           s == ProdMod(uav.c2, m)
<1>1. U \in [Nat -> Nat] /\ D \in [Nat -> Nat] /\ B \in [Nat -> Nat] /\ q \in Nat \ {0} /\ m \in Nat
      /\ m \in 0 .. tm - 1
  BY QPrime DEF Continues
<1>2. G \in [Nat -> Int] /\ R \in [Nat -> Int] /\ F \in [Nat -> Int]
  <2>1. G \in [Nat -> Int] /\ R \in [Nat -> Int]
    BY <1>1, PowersTypes, Zenon
  <2>2. F \in [Nat -> Int]
    BY <1>1 DEF Factor
  <2> QED
    BY <2>1, <2>2, Zenon
<1>3. H \in Int
  BY PointIs, Zenon
<1>4. Sign(uav).ID = uav.ID /\ Sign(uav).cj = c /\ Sign(uav).sig = (H * s) % q
  BY Zenon DEF Sign, ECP_mul
<1>5. /\ uav.ID = y
      /\ \A i \in 1 .. tm - 1 : Cong(uav.c1[i], G[i], q) /\ Cong(uav.c2[i], R[i] * F[i], q)
  BY UavIs, Zenon
<1> HIDE DEF G, R, F, H
<1>6. \A i \in 1 .. m : i \in 1 .. tm - 1 /\ i \in Nat
  BY <1>1
<1>7. W \in [Nat -> Int] /\ \A i \in Nat : W[i] = R[i] * F[i] /\ W[i] \in Int
  BY <1>2
<1> HIDE DEF W, m
<1>8. \A i \in 1 .. m : Cong(uav.c1[i], G[i], q) /\ Cong(uav.c2[i], W[i], q) /\ Cong(W[i], R[i] * F[i], q)
  BY <1>5, <1>6, <1>7, CongRefl, Zenon
<1>9. c \in 0 .. q - 1 /\ Cong(c, Prod(G, m), q)
  BY <1>1, <1>2, <1>8, ProdModIs, Zenon
<1>10. s \in 0 .. q - 1 /\ Cong(s, Prod(W, m), q)
  BY <1>1, <1>7, <1>8, ProdModIs, Zenon
<1>11. Cong(Prod(W, m), Prod(R, m) * Prod(F, m), q)
  BY <1>1, <1>2, <1>7, <1>8, ProdTimes, Zenon
<1> HIDE DEF c, s
<1>12. Cong(s, Prod(R, m) * Prod(F, m), q) /\ Cong(H, H, q)
  BY <1>3, <1>10, <1>11, CongTrans, CongRefl, Zenon
<1>13. Cong(H * s, H * (Prod(R, m) * Prod(F, m)), q)
  BY <1>1, <1>12, CongMul, Zenon
<1>14. H * s \in Int
  BY <1>1, <1>3, <1>10
<1>15. (H * s) % q \in 0 .. q - 1 /\ Cong((H * s) % q, H * s, q)
  BY <1>14, ReduceQ, Zenon
<1>16. Cong((H * s) % q, H * (Prod(R, m) * Prod(F, m)), q)
  BY <1>13, <1>15, CongTrans, Zenon
<1> QED
  BY <1>4, <1>5, <1>9, <1>15, <1>16, Zenon DEF G, R, F, H, m

-----------------------------------------------------------------------------
(* The row AggSig sends for one signer; unblinded by Verify, it is the     *)
(* signer's share of H times the secret.                                   *)

(* So cj and sig of what Sign returns are residues. *)
LEMMA SignTyped ==
    ASSUME pp.g \in Int, pp.beta \in Int, tm \in Nat, t - 1 \in 0 .. tm - 1, sha \in Shas, NEW y \in Nat,
           NEW d, NEW b, NEW u,
           NEW D, Continues(D, d, tm - 1), NEW B, Continues(B, b, tm - 1), NEW U, Continues(U, u, tm - 1)
    PROVE  Sign(getUAV(d, b, y, u)).cj \in 0 .. q - 1 /\ Sign(getUAV(d, b, y, u)).sig \in 0 .. q - 1
<1> DEFINE uav == getUAV(d, b, y, u)
<1>1. uav = getUAV(d, b, y, u)
  OBVIOUS
<1> HIDE DEF uav
<1>2. Sign(uav).cj \in 0 .. q - 1 /\ Sign(uav).sig \in 0 .. q - 1
  BY <1>1, SignIs
<1> QED
  BY <1>1, <1>2, Zenon

(* AggSig: the row of one signature is its re-encryption under the         *)
(* verifier's key.                                                         *)
LEMMA RowIs ==
    ASSUME pp.g \in Int, pp.beta \in Int, alpha \in Nat, NEW h \in Nat, isCoprime(h), NEW x \in Nat,
           NEW i \in 1 .. Len(sigmas), sigmas[i].cj \in Int, sigmas[i].sig \in Int
    PROVE  /\ AggSigRows(h, x)[i].ID = sigmas[i].ID
           /\ AggSigRows(h, x)[i].aux \in 0 .. q - 1
           /\ AggSigRows(h, x)[i].sig \in 0 .. q - 1
           /\ \E be \in Int : /\ Cong(be, Pow(pp.beta, x), q)
                              /\ Cong(AggSigRows(h, x)[i].sig, sigmas[i].sig * be, q)
           /\ \E rk \in Nat, c \in Int : /\ Cong(rk * h, alpha, q - 1)
                                         /\ Cong(c, sigmas[i].cj * Pow(pp.g, x), q)
                                         /\ Cong(AggSigRows(h, x)[i].aux, Pow(c, rk), q)
<1> DEFINE rk == (alpha * invert_mpz(h, q - 1)) % (q - 1)
           g == pp.g
           beta == pp.beta
           ge == pow_mpz(g, x, q)
           be == pow_mpz(beta, x, q)
           cj == sigmas[i].cj
           s == sigmas[i].sig
           c == (cj * ge) % q
           aux == pow_mpz(c, rk, q)
           row == (s * be) % q
<1>1. /\ AggSigRows(h, x)[i].ID = sigmas[i].ID
      /\ AggSigRows(h, x)[i].aux = aux
      /\ AggSigRows(h, x)[i].sig = row
  BY Zenon DEF AggSigRows, ECP_mul
<1>2. rk \in Nat /\ Cong(rk * h, alpha, q - 1)
  BY HashInverse, Zenon
<1>3. q \in Nat \ {0} /\ g \in Int /\ beta \in Int /\ cj \in Int /\ s \in Int
  BY QPrime, Zenon
<1> HIDE DEF rk, g, beta, cj, s
<1>4. ge \in 0 .. q - 1 /\ Cong(ge, Pow(g, x), q)
  BY <1>3, PowIs, Zenon
<1>5. be \in 0 .. q - 1 /\ Cong(be, Pow(beta, x), q)
  BY <1>3, PowIs, Zenon
<1> HIDE DEF ge, be
<1>6. cj * ge \in Int /\ s * be \in Int /\ be \in Int
  BY <1>3, <1>4, <1>5
<1>7. c \in Int /\ Cong(c, cj * ge, q)
  BY <1>6, ReduceQ, Zenon
<1>8. row \in 0 .. q - 1 /\ Cong(row, s * be, q)
  BY <1>6, ReduceQ, Zenon
<1>9. Cong(cj, cj, q)
  BY <1>3, CongRefl, Zenon
<1>10. Cong(cj * ge, cj * Pow(g, x), q)
  BY <1>3, <1>4, <1>9, CongMul, Zenon
<1>11. Cong(c, cj * Pow(g, x), q)
  BY <1>7, <1>10, CongTrans, Zenon
<1> HIDE DEF c, row
<1>12. aux \in 0 .. q - 1 /\ Cong(aux, Pow(c, rk), q)
  BY <1>2, <1>3, <1>7, PowIs, Zenon
<1> HIDE DEF aux
<1> QED
  <2>1. \E z \in Int : Cong(z, Pow(beta, x), q) /\ Cong(row, s * z, q)
    BY <1>5, <1>6, <1>8, Zenon
  <2>2. \E k \in Nat, z \in Int :
           Cong(k * h, alpha, q - 1) /\ Cong(z, cj * Pow(g, x), q) /\ Cong(aux, Pow(z, k), q)
    BY <1>2, <1>7, <1>11, <1>12, Zenon
  <2> QED
    BY <1>1, <1>8, <1>12, <2>1, <2>2, Zenon DEF g, beta, cj, s

(* cj and s are what Sign makes of m shares whose product is F. *)
Blinded(cj, s, g, beta, U, m, H, F) ==
    /\ m \in Nat /\ U \in [Nat -> Nat] /\ F \in Int /\ H \in Int
    /\ cj \in Int /\ Cong(cj, Prod(Powers(g, U), m), q)
    /\ s \in Int /\ Cong(s, H * (Prod(Powers(beta, U), m) * F), q)

(* aux and row are what AggSig makes of cj and s. *)
ReEncrypted(aux, row, cj, s, g, beta, a, h, x) ==
    /\ g \in Int /\ Mod(g, q) # 0 /\ beta \in Int /\ a \in Nat /\ Cong(beta, Pow(g, a), q)
    /\ h \in Nat /\ x \in Nat /\ aux \in Int /\ row \in Int
    /\ \E be \in Int : Cong(be, Pow(beta, x), q) /\ Cong(row, s * be, q)
    /\ \E rk \in Nat, c \in Int :
          Cong(rk * h, a, q - 1) /\ Cong(c, cj * Pow(g, x), q) /\ Cong(aux, Pow(c, rk), q)

(* What Verify makes of a re-encrypted row is the share without the        *)
(* blinding.                                                               *)
LEMMA RowUnblinds ==
    ASSUME NEW g, NEW beta, NEW a, NEW h, NEW x, NEW m, NEW U, NEW F, NEW H, NEW P \in Int,
           NEW cj, NEW s, NEW row, NEW aux,
           Blinded(cj, s, g, beta, U, m, H, F), ReEncrypted(aux, row, cj, s, g, beta, a, h, x)
    PROVE  /\ ECP_mul(row, (P * invert_mpz(pow_mpz(aux, h, q), q)) % q) \in 0 .. q - 1
           /\ Cong(ECP_mul(row, (P * invert_mpz(pow_mpz(aux, h, q), q)) % q), H * (P * F), q)
<1> DEFINE C == Prod(Powers(g, U), m) * Pow(g, x)
           B == Prod(Powers(beta, U), m)
           b == Pow(beta, x)
           D == pow_mpz(aux, h, q)
           v == invert_mpz(D, q)
           k == (P * v) % q
<1>a. /\ g \in Int /\ Mod(g, q) # 0 /\ beta \in Int /\ a \in Nat /\ Cong(beta, Pow(g, a), q)
      /\ h \in Nat /\ x \in Nat /\ aux \in Int /\ row \in Int
  BY Zenon DEF ReEncrypted
<1>b. /\ m \in Nat /\ U \in [Nat -> Nat] /\ F \in Int /\ H \in Int /\ cj \in Int /\ s \in Int
      /\ Cong(cj, Prod(Powers(g, U), m), q) /\ Cong(s, H * (Prod(Powers(beta, U), m) * F), q)
  BY Zenon DEF Blinded
<1>c. PICK be \in Int : Cong(be, Pow(beta, x), q) /\ Cong(row, s * be, q)
  BY Zenon DEF ReEncrypted
<1>d. PICK rk \in Nat, c \in Int :
         Cong(rk * h, a, q - 1) /\ Cong(c, cj * Pow(g, x), q) /\ Cong(aux, Pow(c, rk), q)
  BY Zenon DEF ReEncrypted
<1>1. q \in Nat \ {0} /\ Prime(q) /\ Prod(Powers(g, U), m) \in Int /\ Pow(g, x) \in Int
      /\ B \in Int /\ b \in Int
  <2>1. Pow(g, x) \in Int /\ b \in Int
    BY <1>a, PowStep, Zenon
  <2>2. Prod(Powers(g, U), m) \in Int /\ B \in Int
    BY <1>a, <1>b, PowersTypes, Zenon
  <2> QED
    BY <2>1, <2>2, QPrime, Zenon
<1>2. C \in Int /\ Mod(C, q) # 0
  <2>1. C \in Int
    BY <1>1
  <2> QED
    BY <1>a, <1>b, <2>1, BlindingNonzero, Zenon
<1>3. Cong(Pow(C, a), B * b, q)
  BY <1>a, <1>b, Blinding, Zenon
<1>4. Cong(c, C, q)
  <2>1. Cong(Pow(g, x), Pow(g, x), q)
    BY <1>1, CongRefl, Zenon
  <2>2. Cong(cj * Pow(g, x), C, q)
    BY <1>1, <1>b, <2>1, CongMul, Zenon
  <2> QED
    BY <1>d, <2>2, CongTrans, Zenon
<1> HIDE DEF C, B, b
<1>5. Cong(Pow(aux, h), Pow(C, a), q)
  BY <1>2, <1>4, <1>a, <1>d, ReEncryption, Zenon
<1>6. D \in 0 .. q - 1 /\ Cong(D, Pow(aux, h), q)
  BY <1>1, <1>a, PowIs, Zenon
<1> HIDE DEF D
<1>7. D \in Int /\ Cong(D, Pow(C, a), q)
  BY <1>1, <1>5, <1>6, CongTrans
<1>8. Cong(D, B * b, q)
  BY <1>3, <1>7, CongTrans, Zenon
<1>9. Mod(D, q) # 0
  <2>1. Mod(Pow(C, a), q) # 0
    BY <1>1, <1>2, <1>a, PowNonzero, Zenon
  <2> QED
    BY <1>7, <2>1, Zenon DEF Cong
<1>10. v \in Int /\ Cong(D * v, 1, q)
  BY <1>7, <1>9, InvertPrime, Zenon
<1> HIDE DEF v
<1>11. P * v \in Int
  BY <1>10
<1>12. k \in Int /\ Cong(k, P * v, q)
  BY <1>11, ReduceQ, Zenon
<1> HIDE DEF k
<1>13. Cong(row * k, H * (P * F), q)
  <2>1. Cong(s, H * (B * F), q) /\ Cong(be, b, q)
    BY <1>b, <1>c, Zenon DEF B, b
  <2>2. Cong(s * be, (H * (B * F)) * b, q)
    BY <1>1, <2>1, CongMul, Zenon
  <2>3. Cong(row, (H * (B * F)) * b, q)
    BY <1>c, <2>2, CongTrans, Zenon
  <2>4. Cong(row * k, ((H * (B * F)) * b) * (P * v), q)
    BY <1>1, <1>12, <2>3, CongMul, Zenon
  <2>5. ((H * (B * F)) * b) * (P * v) = (H * (P * F)) * ((B * b) * v)
    BY <1>1, <1>10, <1>b
  <2>6. Cong(v, v, q) /\ Cong(H * (P * F), H * (P * F), q) /\ Cong(B * b, D, q)
    <3>1. H * (P * F) \in Int
      BY <1>b
    <3> QED
      BY <1>8, <1>10, <3>1, CongRefl, CongSym, Zenon
  <2>7. Cong((B * b) * v, D * v, q)
    BY <1>1, <2>6, CongMul, Zenon
  <2>8. Cong((B * b) * v, 1, q)
    BY <1>10, <2>7, CongTrans, Zenon
  <2>9. Cong((H * (P * F)) * ((B * b) * v), (H * (P * F)) * 1, q)
    BY <1>1, <2>6, <2>8, CongMul, Zenon
  <2>10. (H * (P * F)) * 1 = H * (P * F)
    BY <1>b
  <2> QED
    BY <2>4, <2>5, <2>9, <2>10, CongTrans, Zenon
<1>14. row * k \in Int
  BY <1>12, <1>a
<1>15. (row * k) % q \in 0 .. q - 1 /\ Cong((row * k) % q, row * k, q)
  BY <1>14, ReduceQ, Zenon
<1>16. Cong((row * k) % q, H * (P * F), q)
  BY <1>13, <1>15, CongTrans, Zenon
<1> QED
  BY <1>15, <1>16, Zenon DEF k, v, D, ECP_mul

-----------------------------------------------------------------------------
(* The sum that Verify accumulates. *)

Unblind(h, ID, i) == ECP_mul(sig[i].sig, (getPi_0(ID)[i] * invert_mpz(pow_mpz(sig[i].aux, h, q), q)) % q)

(* Verify accepts when the unblinded shares add up to hash times public    *)
(* key.                                                                    *)
LEMMA VerifySum ==
    ASSUME t \in Nat \ {0}, NEW h, NEW g \in [Nat -> Int], NEW ID, ID = [i \in 1 .. t |-> sig[i].ID],
           \A i \in 1 .. t : Unblind(h, ID, i) \in 0 .. q - 1 /\ Cong(Unblind(h, ID, i), g[i], q),
           Cong(Sum(g, t), hashToPoint(sha, M) * pp.PK[t - 1], q)
    PROVE  Verify(h) = 1
<1> DEFINE m == t
           T(i) == Unblind(h, ID, i)
           s == CHOOSE s : s = [i \in 1 .. t |-> IF i = 1 THEN T(1) ELSE ECP_add(s[i - 1], T(i))]
           w == [i \in 1 .. m |-> Mod(Sum(g, i), q)]
           R == hashToPoint(sha, M) * pp.PK[t - 1]
<1>0. q \in Nat \ {0} /\ m \in Nat /\ 1 \in 1 .. m /\ m \in 1 .. m
  BY QPrime
<1>1. Verify(h) = IF (s[t] * 1) % q = R % q THEN 1 ELSE 0
  BY DEF Verify, Unblind, e, ECP2_generator
<1> HIDE DEF T, R
<1>2. ASSUME NEW i \in 1 .. m PROVE T(i) \in 0 .. q - 1 /\ Cong(T(i), g[i], q)
  BY Zenon DEF T
<1>3. w[1] = T(1)
  <2>0. 0 \in Nat /\ 0 + 1 = 1 /\ 1 \in Nat
    OBVIOUS
  <2>1. Sum(g, 0) = 0 /\ Sum(g, 0 + 1) = Sum(g, 0) + g[0 + 1] /\ g[1] \in Int
    BY <2>0, SumStep, Zenon
  <2>2. Sum(g, 1) = g[1]
    BY <2>0, <2>1
  <2>3. T(1) \in 0 .. q - 1 /\ Cong(T(1), g[1], q)
    BY <1>0, <1>2, Zenon
  <2>4. Mod(T(1), q) = T(1)
    BY <1>0, <2>3, ModSmall, Zenon
  <2>5. w[1] = Mod(Sum(g, 1), q)
    BY <1>0, Zenon
  <2> HIDE DEF w
  <2> QED
    BY <2>2, <2>3, <2>4, <2>5, Zenon DEF Cong
<1>4. ASSUME NEW i \in 2 .. m PROVE w[i] = (w[i - 1] + T(i)) % q
  <2>1. i - 1 \in Nat /\ i - 1 \in 1 .. m /\ (i - 1) + 1 = i /\ i \in 1 .. m /\ i \in Nat
    BY <1>0
  <2>2. Sum(g, i - 1) \in Int /\ Sum(g, i) = Sum(g, i - 1) + g[i] /\ g[i] \in Int
    <3>1. Sum(g, i - 1) \in Int /\ Sum(g, (i - 1) + 1) = Sum(g, i - 1) + g[(i - 1) + 1]
      BY <2>1, SumStep, Zenon
    <3> QED
      BY <2>1, <3>1, Zenon
  <2>3. Cong(Mod(Sum(g, i - 1), q), Sum(g, i - 1), q)
    BY <1>0, <2>2, ModMod, Zenon
  <2>4. Cong(T(i), g[i], q)
    BY <1>2, <2>1, Zenon
  <2>5. Cong(Mod(Sum(g, i - 1), q) + T(i), Sum(g, i - 1) + g[i], q)
    BY <1>0, <2>3, <2>4, CongAdd, Zenon
  <2>6. w[i] = Mod(Sum(g, i), q) /\ w[i - 1] = Mod(Sum(g, i - 1), q)
    BY <2>1, Zenon
  <2> HIDE DEF w
  <2>7. w[i] = Mod(w[i - 1] + T(i), q)
    BY <2>2, <2>5, <2>6, Zenon DEF Cong
  <2> QED
    BY <2>7, Zenon DEF Mod
<1>5. w = [i \in 1 .. m |-> w[i]]
  BY Zenon
<1>6. w = [i \in 1 .. t |-> IF i = 1 THEN T(1) ELSE ECP_add(w[i - 1], T(i))]
  <2> HIDE DEF w
  <2>1. ASSUME NEW i \in 1 .. m PROVE w[i] = IF i = 1 THEN T(1) ELSE ECP_add(w[i - 1], T(i))
    <3>1. CASE i = 1
      BY <1>3, <3>1, Zenon
    <3>2. CASE i # 1
      <4>1. i \in 2 .. m
        BY <1>0, <3>2
      <4> QED
        BY <1>4, <3>2, <4>1, Zenon DEF ECP_add
    <3> QED
      BY <3>1, <3>2, Zenon
  <2> HIDE DEF m
  <2>2. w = [i \in 1 .. m |-> IF i = 1 THEN T(1) ELSE ECP_add(w[i - 1], T(i))]
    BY <1>5, <2>1, Zenon
  <2> QED
    BY <2>2, Zenon DEF m
<1>7. s = [i \in 1 .. t |-> IF i = 1 THEN T(1) ELSE ECP_add(s[i - 1], T(i))]
  <2> HIDE DEF w, m
  <2> QED
    BY <1>6, Zenon
<1> DEFINE S == {j \in Nat : j + 1 <= m => s[j + 1] = w[j + 1]}
<1> HIDE DEF s, w
<1>8. 0 \in S
  <2>1. s[1] = T(1) /\ w[1] = T(1)
    BY <1>0, <1>6, <1>7, Zenon
  <2> QED
    BY <2>1
<1>9. ASSUME NEW j \in Nat, j \in S PROVE j + 1 \in S
  <2>1. CASE (j + 1) + 1 <= m
    <3>0. (j + 1) + 1 \in 1 .. m /\ (j + 1) + 1 # 1 /\ ((j + 1) + 1) - 1 = j + 1 /\ j + 1 <= m
      BY <1>0, <2>1
    <3>1. (j + 1) + 1 \in 1 .. m /\ (j + 1) + 1 # 1 /\ ((j + 1) + 1) - 1 = j + 1 /\ s[j + 1] = w[j + 1]
      BY <1>9, <3>0, Zenon
    <3>2. s[(j + 1) + 1] = ECP_add(s[j + 1], T((j + 1) + 1))
      BY <1>7, <3>1, Zenon
    <3>3. w[(j + 1) + 1] = ECP_add(w[j + 1], T((j + 1) + 1))
      BY <1>6, <3>1, Zenon
    <3> QED
      BY <3>1, <3>2, <3>3
  <2> QED
    BY <2>1
<1> HIDE DEF S
<1>10. Nat \subseteq S
  BY <1>8, <1>9, Induction, Zenon
<1>11. s[t] = w[t]
  <2>1. m - 1 \in S /\ (m - 1) + 1 = m /\ m <= m
    BY <1>0, <1>10
  <2> QED
    BY <2>1, Zenon DEF S
<1>12. w[t] = Mod(Sum(g, t), q) /\ Sum(g, t) \in Int
  <2>1. w[t] = Mod(Sum(g, t), q)
    BY <1>0, Zenon DEF w
  <2>2. Sum(g, t) \in Int
    BY <1>0, SumStep, Zenon
  <2> QED
    BY <2>1, <2>2, Zenon
<1>13. Mod(w[t], q) = Mod(Sum(g, t), q) /\ w[t] \in Int
  BY <1>0, <1>12, ModMod, Zenon
<1>14. (s[t] * 1) % q = Mod(Sum(g, t), q)
  <2>1. s[t] * 1 = w[t]
    BY <1>11, <1>13
  <2> QED
    BY <1>13, <2>1, Zenon DEF Mod
<1>15. Mod(Sum(g, t), q) = R % q
  BY Zenon DEF Cong, Mod, R
<1> QED
  BY <1>1, <1>14, <1>15, Zenon

-----------------------------------------------------------------------------
(* The instance, and two powers in either order. *)

(* The parameters of an instance, and the ranges of its draws. *)
LEMMA Instance ==
    ASSUME inst \in Insts
    PROVE  /\ tm \in Nat /\ tm >= 2 /\ n \in Nat /\ t \in Nat \ {0} /\ t - 1 \in 1 .. tm - 1 /\ t <= n
           /\ inst.Gs \subseteq 1 .. q /\ inst.Coefs \subseteq 1 .. q
           /\ inst.IDs \subseteq 1 .. q /\ inst.Exps \subseteq 1 .. q
<1>1. /\ inst.tm \in Nat /\ inst.tm >= 2 /\ inst.n \in Nat /\ inst.n > inst.tm \div 2
      /\ inst.Gs \cup inst.Coefs \cup inst.IDs \cup inst.Exps \subseteq rand_mpz
  BY FussionAssumption, Zenon
<1>2. rand_mpz \subseteq 1 .. q
  BY QPrime DEF rand_mpz
<1>3. tm \in Nat /\ tm >= 2 /\ n \in Nat /\ n > tm \div 2 /\ t = tm \div 2 + 1
  BY <1>1, Zenon DEF tm, n, t
<1>4. tm \div 2 \in Nat /\ tm \div 2 >= 1 /\ tm \div 2 <= tm - 1
  BY <1>3
<1>5. t \in Nat \ {0} /\ t - 1 \in 1 .. tm - 1 /\ t <= n
  BY <1>3, <1>4
<1>6. /\ inst.Gs \subseteq 1 .. q /\ inst.Coefs \subseteq 1 .. q
      /\ inst.IDs \subseteq 1 .. q /\ inst.Exps \subseteq 1 .. q
  BY <1>1, <1>2, Zenon
<1> QED
  BY <1>3, <1>5, <1>6, Zenon

(* Diffie-Hellman: the two exponents may be applied in either order. *)
LEMMA PowCommutes ==
    ASSUME NEW g \in Int, NEW a \in Nat, NEW k \in Nat
    PROVE  pow_mpz(pow_mpz(g, a, q), k, q) = pow_mpz(pow_mpz(g, k, q), a, q)
<1> DEFINE A == pow_mpz(g, a, q)
           K == pow_mpz(g, k, q)
<1>1. q \in Nat \ {0}
  BY QPrime, Zenon
<1>2. A \in 0 .. q - 1 /\ Cong(A, Pow(g, a), q) /\ K \in 0 .. q - 1 /\ Cong(K, Pow(g, k), q)
  BY <1>1, PowIs, Zenon
<1> HIDE DEF A, K
<1>3. A \in Int /\ K \in Int /\ Pow(g, a) \in Int /\ Pow(g, k) \in Int
  BY <1>1, <1>2, PowStep
<1>4. Cong(Pow(A, k), Pow(Pow(g, k), a), q)
  BY <1>2, <1>3, PowSwap, Zenon
<1>5. Cong(Pow(K, a), Pow(Pow(g, k), a), q)
  BY <1>1, <1>2, <1>3, PowCong, Zenon
<1>6. Cong(Pow(A, k), Pow(K, a), q)
  BY <1>4, <1>5, CongSym, CongTrans, Zenon
<1>7. pow_mpz(A, k, q) = Mod(Pow(A, k), q) /\ pow_mpz(K, a, q) = Mod(Pow(K, a), q)
  BY <1>1, <1>3, PowIs, Zenon
<1>8. pow_mpz(A, k, q) = pow_mpz(K, a, q)
  BY <1>6, <1>7, Zenon DEF Cong
<1> QED
  BY <1>8, Zenon DEF A, K

==============================================================================
