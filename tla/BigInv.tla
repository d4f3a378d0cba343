------------------------------- MODULE BigInv -------------------------------
(***************************************************************************)
(* BIG_inv of src/Tools/Tools.cpp: the inverse of a modulo m by Euclid's   *)
(* algorithm, one pass of its loop per step.  The coefficients are kept    *)
(* reduced modulo m, so that no BIG is ever negative.                      *)
(***************************************************************************)
EXTENDS Integers

CONSTANTS A, M      \* the arguments explored

ASSUME BigInvAssumption == A \subseteq Nat /\ M \subseteq Nat \ {0}

VARIABLES
    pc,
    a, m,           \* the arguments; m0 is the copy of m that stays
    a_back, module, \* the copies of a and m that Euclid's algorithm reduces
    x0, x1,         \* their coefficients
    res

vars == <<pc, a, m, a_back, module, x0, x1, res>>

Init ==
    /\ pc = "loop"
    /\ a \in A /\ m \in M
    /\ a_back = a /\ module = m
    /\ x0 = 0 /\ x1 = 1
    /\ res = 0

(* BIG_sdiv and BIG_mod return something for the divisor 0 as well         *)
(* (MIRACL, external): quotient and remainder are then unknown BIGs, here  *)
(* below the bound m.                                                      *)
Quotients(x, y) == IF y = 0 THEN 0 .. m ELSE {x \div y}
Remainders(x, y) == IF y = 0 THEN 0 .. m ELSE {x % y}

(* BIG_modmul, BIG_modneg and BIG_modadd in a row *)
nextX0Unsigned(q) == (((q * x0) % m) + x1) % m
nextX0Unreduced(q) == (m - ((q * x0) % m)) + x1
nextX0(q) == ((m - ((q * x0) % m)) + x1) % m

(* BIG_comp(a_back, one) > 0: one pass *)
pass ==
    /\ pc = "loop"
    /\ a_back > 1
    /\ a_back' = module
    /\ module' \in Remainders(a_back, module)
    /\ x1' = x0
    /\ \E q \in Quotients(a_back, module) : x0' = nextX0(q)
    /\ UNCHANGED <<pc, a, m, res>>

leaveAtGcd ==
    /\ pc = "loop"
    /\ a_back <= 1 \/ module = 0
    /\ pc' = "done"
    /\ res' = x1
    /\ UNCHANGED <<a, m, a_back, module, x0, x1>>

leaveAtOne ==
    /\ pc = "loop"
    /\ a_back = 1
    /\ pc' = "done"
    /\ res' = x1
    /\ UNCHANGED <<a, m, a_back, module, x0, x1>>

leave ==
    /\ pc = "loop"
    /\ a_back <= 1
    /\ pc' = "done"
    /\ res' = x1
    /\ UNCHANGED <<a, m, a_back, module, x0, x1>>

Next == pass \/ leave

Spec == Init /\ [][Next]_vars

FairSpec == Spec /\ WF_vars(Next)

-----------------------------------------------------------------------------
(* Both coefficients stay reduced; 1 is not below the modulus 1. *)
TypeOK ==
    /\ pc \in {"loop", "done"}
    /\ a \in Nat /\ m \in Nat \ {0}
    /\ a_back \in Nat /\ module \in Nat
    /\ x0 \in 0 .. m /\ x1 \in 0 .. m /\ res \in 0 .. m

(* Bezout's identity modulo m: each remainder is its coefficient times a.  *)
(* Negation and addition modulo m in the place of a signed subtraction     *)
(* keep it.  Of the remainder after a division by 0 nothing is known, and  *)
(* nothing is used.                                                        *)
Bezout ==
    /\ (x1 * a) % m = a_back % m
    /\ a_back # 0 => (x0 * a) % m = module % m

(* BIG_inv returns an inverse of a modulo m whenever there is one, for a   *)
(* below, equal to or above m, and otherwise a number whose product with a *)
(* is 0 modulo m, which no caller can take for an inverse.                 *)
InverseFound ==
    pc = "done" =>
        IF \E x \in 0 .. m : (x * a) % m = 1 % m
        THEN (res * a) % m = 1 % m
        ELSE (res * a) % m = 0

(* The loop ends for all arguments, those with a common factor included:   *)
(* the pass that divides by 0 is the last one.                             *)
Terminates == <>(pc = "done")
=============================================================================
