-------------------------------- MODULE Tools --------------------------------
(***************************************************************************)
(* src/Tools/Tools.cpp over a small prime q in place of the 255-bit order  *)
(* of the curve.  A point of G1 or G2 is the multiple of the generator it  *)
(* is, so that the groups are Z_q under addition and the pairing is the    *)
(* product of the two multiples (MIRACL, external).  SHA-256 is the        *)
(* parameter `sha', any function from field elements to numbers.           *)
(***************************************************************************)
EXTENDS Integers

CONSTANT q      \* CURVE_Order

ASSUME ToolsAssumption ==
    /\ q \in Nat /\ q > 2
    /\ \A m \in 2 .. q - 1 : q % m # 0

(* mpz_urandomm returns 0 .. q-1 and 1 is added *)
rand_mpz == {res + 1 : res \in 0 .. q - 1}

pow_mpz(base, exp, mod) ==
    LET power[k \in 0 .. exp] == IF k = 0 THEN 1 % mod ELSE (power[k - 1] * base) % mod
    IN  power[exp]

(* mpz_invert leaves the zero of a fresh mpz_class when there is no inverse *)
invert_mpz(a, m) ==
    IF \E x \in 1 .. m - 1 : (a * x) % m = 1
    THEN CHOOSE x \in 1 .. m - 1 : (a * x) % m = 1
    ELSE 0

hashToZp256(sha, x, m) == sha[x] % m

ECP_mul(P, k) == (P * k) % q
ECP2_mul(P, k) == (P * k) % q
ECP_add(P, R) == (P + R) % q
ECP2_generator == 1
hashToPoint(sha, x) == ECP_mul(1, hashToZp256(sha, x, q))
e(P1, P2) == (P1 * P2) % q
=============================================================================
