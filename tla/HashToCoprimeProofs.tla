------------------------- MODULE HashToCoprimeProofs -------------------------
(* Proofs about the loop of hashToCoprime, for every modulus, set of       *)
(* factors and increment taken from it.                                    *)
EXTENDS HashToCoprime, Residues

(* Adding the divisor keeps a value divisible: one pass of                 *)
(* `hash += inc' on a value that inc divides.                              *)
LEMMA AddDivisor ==
    ASSUME NEW h \in Nat, NEW m \in Nat \ {0}, h % m = 0
    PROVE  (h + m) % m = 0
<1>1. PICK k \in Int : h = m * k
  BY SMT
<1> DEFINE r == (h + m) % m
           d == (h + m) \div m
<1>2. r \in 0 .. m - 1 /\ d \in Int /\ h + m = m * d + r
  BY SMT
<1>3. r = m * (k + 1 - d)
  BY <1>1, <1>2, SMT
<1> HIDE DEF r, d
<1>4. k + 1 - d \in Int /\ (k + 1 - d >= 1 => m * (k + 1 - d) >= m)
        /\ (k + 1 - d <= -1 => m * (k + 1 - d) <= -m)
  BY <1>2, SMT
<1>5. k + 1 - d = 0
  BY <1>2, <1>3, <1>4, SMT
<1>6. r = 0
  BY <1>3, <1>5, SMT
<1> QED
  BY <1>6, Zenon DEF r

(* The inductive invariant of the divisible case. *)
LoopInv ==
    /\ TypeOK
    /\ hash0 % inc = 0 => hash % inc = 0 /\ pc = "while"

(* The loop keeps its types and its direction: hash grows from hash0. *)
THEOREM LoopTypeOK == Spec => []TypeOK
<1>1. Init => TypeOK
  BY HashAssumption DEF Init, TypeOK
<1>2. TypeOK /\ [Next]_vars => TypeOK'
  BY HashAssumption DEF TypeOK, Next, vars, addInc, leave
<1> QED
  BY <1>1, <1>2, PTL DEF Spec

(* hashToCoprime does not return for a hash that inc divides, whatever the *)
(* factors are, as long as inc is one of them.                             *)
THEOREM LoopNeverReturns == Spec => []MultipleNeverReturns
<1>1. Init => LoopInv
  BY HashAssumption DEF Init, LoopInv, TypeOK
<1>2. LoopInv /\ [Next]_vars => LoopInv'
  <2> SUFFICES ASSUME LoopInv, [Next]_vars PROVE LoopInv'
    BY Zenon
  <2>1. TypeOK'
    BY HashAssumption DEF LoopInv, TypeOK, Next, vars, addInc, leave
  <2>2. CASE addInc
    <3>1. hash % inc = 0 => (hash + inc) % inc = 0
      BY AddDivisor, HashAssumption, Zenon DEF LoopInv, TypeOK
    <3> QED
      BY <2>1, <2>2, <3>1, Zenon DEF LoopInv, addInc
  <2>3. CASE leave
    <3>1. hash % inc # 0
      BY <2>3, HashAssumption, Zenon DEF leave, isCoprime
    <3> QED
      BY <2>1, <2>3, <3>1, Zenon DEF LoopInv, leave
  <2>4. CASE UNCHANGED vars
    BY <2>4, Zenon DEF LoopInv, TypeOK, vars
  <2> QED
    BY <2>2, <2>3, <2>4, Zenon DEF Next
<1>3. LoopInv => MultipleNeverReturns
  BY Zenon DEF LoopInv, MultipleNeverReturns
<1> QED
  BY <1>1, <1>2, <1>3, PTL DEF Spec

(* A value that no factor divides has an inverse modulo q - 1: every prime *)
(* of q - 1 is one of the factors.                                         *)
LEMMA CoprimeInvertible ==
    ASSUME NEW h \in Nat, isCoprime(h)
    PROVE  \E x \in 1 .. module : ((h % module) * x) % module = 1
<1> DEFINE r == Mod(h, module)
<1>1. inc \in 2 .. module /\ module \in Nat /\ module >= 2
  BY HashAssumption, FactorsAssumption
<1>2. ASSUME NEW f \in 2 .. module, Prime(f), Mod(module, f) = 0
      PROVE  Mod(h, f) # 0
  <2>1. f \in Factors
    BY <1>2, FactorsAssumption, Zenon DEF Prime, Mod
  <2> QED
    BY <2>1, Zenon DEF isCoprime, Mod
<1>3. PICK x \in 1 .. module - 1 : Mod(h * x, module) = 1
  <2>1. h \in Int /\ \A f \in 2 .. module : Prime(f) /\ Mod(module, f) = 0 => Mod(h, f) # 0
    BY <1>2
  <2> QED
    BY <1>1, <2>1, NoFactorInverse, Zenon
<1>4. module \in Nat \ {0} /\ h \in Int /\ x \in Int /\ h * x \in Int
  BY <1>1
<1>5. Cong(r, h, module) /\ Cong(x, x, module) /\ r \in Int
  BY <1>4, ModMod, CongRefl, Zenon
<1> HIDE DEF r
<1>6. Cong(r * x, h * x, module)
  BY <1>4, <1>5, CongMul, Zenon
<1>7. Mod(r * x, module) = 1
  BY <1>3, <1>6, Zenon DEF Cong
<1> QED
  BY <1>1, <1>7 DEF r, Mod

(* The inductive invariant of the loop's exit. *)
ExitInv ==
    /\ TypeOK
    /\ pc = "return" => isCoprime(hash)

(* AggSig can always invert what hashToCoprime gives it, whatever the      *)
(* primes of q - 1 are and whichever of them inc is.                       *)
THEOREM LoopResultInvertible == Spec => []ResultInvertible
<1>1. Init => ExitInv
  BY HashAssumption DEF Init, ExitInv, TypeOK
<1>2. ExitInv /\ [Next]_vars => ExitInv'
  <2> SUFFICES ASSUME ExitInv, [Next]_vars PROVE ExitInv'
    BY Zenon
  <2>1. TypeOK'
    BY HashAssumption DEF ExitInv, TypeOK, Next, vars, addInc, leave
  <2>2. CASE addInc
    BY <2>1, <2>2, Zenon DEF ExitInv, addInc
  <2>3. CASE leave
    BY <2>1, <2>3, Zenon DEF ExitInv, leave, isCoprime
  <2>4. CASE UNCHANGED vars
    BY <2>1, <2>4, Zenon DEF ExitInv, vars, isCoprime
  <2> QED
    BY <2>2, <2>3, <2>4, Zenon DEF Next
<1>3. ExitInv => ResultInvertible
  BY CoprimeInvertible, Zenon DEF ExitInv, TypeOK, ResultInvertible
<1> QED
  BY <1>1, <1>2, <1>3, PTL DEF Spec
=============================================================================
