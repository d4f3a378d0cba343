---------------------------- MODULE HashToCoprime ----------------------------
(***************************************************************************)
(* The loop of hashToCoprime, src/fussion.cpp:29-36, which both AggSig and *)
(* Verify run: starting from a hash value it adds inc until the value is   *)
(* divisible by none of the factors.  In the code inc is 254760293, which  *)
(* is itself one of the factors.                                           *)
(***************************************************************************)
EXTENDS Integers

CONSTANTS
    module,     \* lambda_q = q - 1
    Factors,    \* getFactors(): the primes of q - 1
    inc,
    MaxHash     \* bound on hash, so that the endless loop has finitely many states

ASSUME HashAssumption ==
    /\ module \in Nat \ {0}
    /\ Factors \subseteq Nat \ {0}
    /\ inc \in Factors
    /\ MaxHash \in Nat

(* getFactors() lists every prime of q - 1. *)
ASSUME FactorsAssumption ==
    Factors = {f \in 2 .. module : module % f = 0 /\ \A m \in 2 .. f - 1 : f % m # 0}

VARIABLES
    pc,         \* "while" or "return"
    hash,
    hash0       \* history: the value hashToZp256 returned

vars == <<pc, hash, hash0>>

isCoprime(x) == \A f \in Factors : x % f # 0

Init ==
    /\ pc = "while"
    /\ hash0 \in 0 .. module - 1
    /\ hash = hash0

addIncDown ==
    /\ pc = "while"
    /\ ~isCoprime(hash)
    /\ hash < MaxHash
    /\ hash' = hash - inc
    /\ UNCHANGED <<pc, hash0>>

addIncOnce ==
    /\ pc = "while"
    /\ hash' = hash + inc
    /\ pc' = "return"
    /\ UNCHANGED hash0

addIncTwice ==
    /\ pc = "while"
    /\ ~isCoprime(hash)
    /\ hash < MaxHash
    /\ hash' = hash + inc + inc
    /\ UNCHANGED <<pc, hash0>>

(* while (!isCoprime(hash, factors)) hash += inc; *)
addInc ==
    /\ pc = "while"
    /\ ~isCoprime(hash)
    /\ hash < MaxHash
    /\ hash' = hash + inc
    /\ UNCHANGED <<pc, hash0>>

leaveAtOdd ==
    /\ pc = "while"
    /\ hash % 2 # 0
    /\ pc' = "return"
    /\ UNCHANGED <<hash, hash0>>

leave ==
    /\ pc = "while"
    /\ isCoprime(hash)
    /\ pc' = "return"
    /\ UNCHANGED <<hash, hash0>>

Next == addInc \/ leave

Spec == Init /\ [][Next]_vars

FairSpec == Spec /\ WF_vars(Next)

-----------------------------------------------------------------------------
(* The loop only counts up, in steps of inc. *)
TypeOK ==
    /\ pc \in {"while", "return"}
    /\ hash0 \in 0 .. module - 1
    /\ hash \in Nat
    /\ hash >= hash0

(* A hash value that inc divides never leaves the loop: inc is one of the  *)
(* factors, so that adding it keeps the value divisible.  AggSig and       *)
(* Verify then do not return.                                              *)
MultipleNeverReturns == hash0 % inc = 0 => pc = "while"

(* A value that is returned has an inverse modulo q - 1, which is what     *)
(* AggSig needs it for.                                                    *)
ResultInvertible ==
    pc = "return" =>
        module = 1 \/ \E x \in 1 .. module : ((hash % module) * x) % module = 1

(* Every other hash value is left behind by the loop. *)
OthersReturn == hash0 % inc # 0 ~> pc = "return"
=============================================================================
