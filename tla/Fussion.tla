------------------------------- MODULE Fussion -------------------------------
(***************************************************************************)
(* The signature scheme, src/fussion.cpp: its functions as operators over  *)
(* the small field of Tools, and fussion(), which runs them once in a row, *)
(* as a state machine in which every rand_mpz is a choice.                 *)
(*                                                                         *)
(* An instance is a pair of arguments n and tm of Setup with the draws     *)
(* explored for it.  Draws are uniform over 1..q; explored are the subsets *)
(* Gs (for g), Coefs (b and d), IDs, and Exps (alpha, u, e, sk_v).         *)
(***************************************************************************)
EXTENDS Tools, Sequences, FiniteSets

CONSTANTS
    Insts,              \* instances: [n, tm, Gs, Coefs, IDs, Exps]
    M,                  \* the message
    Factors, inc,       \* getFactors(), and the step of hashToCoprime
    Shas                \* hash functions explored

ASSUME FussionAssumption ==
    /\ \A z \in Insts :
          /\ z.tm \in Nat /\ z.tm >= 2 /\ z.n \in Nat /\ z.n > z.tm \div 2
          /\ z.Gs \cup z.Coefs \cup z.IDs \cup z.Exps \subseteq rand_mpz
    \* the factors are the primes of q-1, and inc is one of them
    /\ Factors = {f \in 2 .. q - 1 : (q - 1) % f = 0 /\ \A m \in 2 .. f - 1 : f % m # 0}
    /\ inc \in Factors

(* A digest, read as a number, is not negative. *)
ASSUME ShaAssumption == \A f \in Shas : \A x \in 0 .. q - 1 \cup {M} : f[x] \in Nat

VARIABLES inst, pc, sha, pp, alpha, UAVs, sigmas, sk_v, sig, pass

vars == <<inst, pc, sha, pp, alpha, UAVs, sigmas, sk_v, sig, pass>>

n == inst.n
tm == inst.tm

(* t = tm / 2 + 1 *)
t == tm \div 2 + 1

-----------------------------------------------------------------------------
(* Product modulo q of f[i] over 1..m, computed as the loops do. *)
ProdMod(f, m) ==
    LET p[i \in 0 .. m] == IF i = 0 THEN 1 ELSE (p[i - 1] * f[i]) % q
    IN  p[m]

isCoprime(x) == \A f \in Factors : x % f # 0

(* hashToCoprime.  Adding inc repeats after q-1 steps modulo every factor, *)
(* so the loop ends within them or never; 0, which is no coprime, stands   *)
(* for a loop that never ends.  The loop itself is module HashToCoprime.   *)
hashToCoprime(x) ==
    LET hash == hashToZp256(sha, x, q - 1)
        hits == {k \in 0 .. q - 2 : isCoprime(hash + k * inc)}
    IN  IF hits = {} THEN 0
        ELSE hash + inc * (CHOOSE k \in hits : \A l \in hits : k <= l)

(* PK[i] = b[0] * ... * b[i] * P2 *)
getPK(b) ==
    LET PK[i \in 1 .. tm - 1] == ECP2_mul(IF i = 1 THEN ECP2_generator ELSE PK[i - 1], b[i])
    IN  PK

getUAVUnreduced(d, b, id, u) ==
    LET fij(i) == (d[i] * id + b[i]) % q
    IN  [ID |-> id,
         c1 |-> [i \in 1 .. tm - 1 |-> pow_mpz(pp.g, u[i], q)],
         c2 |-> [i \in 1 .. tm - 1 |-> pow_mpz(pp.beta, u[i], q) * fij(i)]]

(* ElGamal encryptions of the shares f_i(id) = d_i * id + b_i *)
getUAV(d, b, id, u) ==
    LET fij(i) == (d[i] * id + b[i]) % q
    IN  [ID |-> id,
         c1 |-> [i \in 1 .. tm - 1 |-> pow_mpz(pp.g, u[i], q)],
         c2 |-> [i \in 1 .. tm - 1 |-> (pow_mpz(pp.beta, u[i], q) * fij(i)) % q]]

Sign(uav) ==
    [ID |-> uav.ID,
     cj |-> ProdMod(uav.c1, t - 1),
     sig |-> ECP_mul(hashToPoint(sha, M), ProdMod(uav.c2, t - 1))]

AggSigRowsModQ(h, x) ==
    LET rk == (alpha * invert_mpz(h, q - 1)) % q
        ge == pow_mpz(pp.g, x, q)
        beta_e == pow_mpz(pp.beta, x, q)
    IN  [i \in 1 .. Len(sigmas) |->
            [ID |-> sigmas[i].ID,
             aux |-> pow_mpz((sigmas[i].cj * ge) % q, rk, q),
             sig |-> ECP_mul(sigmas[i].sig, beta_e)]]

(* The re-encryption of every row, for the secret hash h and the draw x. *)
AggSigRows(h, x) ==
    LET rk == (alpha * invert_mpz(h, q - 1)) % (q - 1)
        ge == pow_mpz(pp.g, x, q)
        beta_e == pow_mpz(pp.beta, x, q)
    IN  [i \in 1 .. Len(sigmas) |->
            [ID |-> sigmas[i].ID,
             aux |-> pow_mpz((sigmas[i].cj * ge) % q, rk, q),
             sig |-> ECP_mul(sigmas[i].sig, beta_e)]]

getPi_0_NoDivision(ID) ==
    LET prodX == ProdMod(ID, t)
        denominator(i) == ProdMod([j \in 1 .. t |-> IF j = i THEN 1 ELSE (ID[j] - ID[i] + q) % q], t)
    IN  [i \in 1 .. t |-> (prodX * invert_mpz(denominator(i), q)) % q]

(* getPi_0(Params, vector<mpz_class>, int): one product of all IDs, from   *)
(* which each numerator is divided out                                     *)
getPi_0(ID) ==
    LET prodX == ProdMod(ID, t)
        denominator(i) == ProdMod([j \in 1 .. t |-> IF j = i THEN 1 ELSE (ID[j] - ID[i] + q) % q], t)
        numerator(i) == (prodX * invert_mpz(ID[i], q)) % q
    IN  [i \in 1 .. t |-> (numerator(i) * invert_mpz(denominator(i), q)) % q]

getPi_0_SigmaUnsigned(ID) ==
    LET numerator(i) == ProdMod([j \in 1 .. t |-> IF j = i THEN 1 ELSE ID[j] % q], t)
        denominator(i) == ProdMod([j \in 1 .. t |-> IF j = i THEN 1 ELSE (ID[i] - ID[j] + q) % q], t)
    IN  [i \in 1 .. t |-> (numerator(i) * invert_mpz(denominator(i), q)) % q]

(* getPi_0(Params, Sigma, int): the textbook products *)
getPi_0_Sigma(ID) ==
    LET numerator(i) == ProdMod([j \in 1 .. t |-> IF j = i THEN 1 ELSE (-ID[j] + q) % q], t)
        denominator(i) == ProdMod([j \in 1 .. t |-> IF j = i THEN 1 ELSE (ID[i] - ID[j] + q) % q], t)
    IN  [i \in 1 .. t |-> (numerator(i) * invert_mpz(denominator(i), q)) % q]

(* Verify, once hashToCoprime has returned h *)
Verify(h) ==
    LET Pis == getPi_0([i \in 1 .. t |-> sig[i].ID])
        k(i) == (Pis[i] * invert_mpz(pow_mpz(sig[i].aux, h, q), q)) % q
        s[i \in 1 .. t] == IF i = 1 THEN ECP_mul(sig[1].sig, k(1))
                           ELSE ECP_add(s[i - 1], ECP_mul(sig[i].sig, k(i)))
        left == e(s[t], ECP2_generator)
        right == e(hashToPoint(sha, M), pp.PK[t - 1])
    IN  IF left = right THEN 1 ELSE 0

-----------------------------------------------------------------------------
Init ==
    /\ inst \in Insts
    /\ pc = "Setup"
    /\ sha \in Shas
    /\ pp = [g |-> 0, beta |-> 0, PK |-> <<>>]
    /\ alpha = 0
    /\ UAVs = <<>>
    /\ sigmas = <<>>
    /\ sk_v = 0
    /\ sig = <<>>
    /\ pass = 0

Setup ==
    /\ pc = "Setup"
    /\ \E g \in inst.Gs, a \in inst.Exps :
          /\ alpha' = a
          /\ pp' = [g |-> g, beta |-> pow_mpz(g, a, q), PK |-> <<>>]
    /\ pc' = "KeyGen"
    /\ UNCHANGED <<inst, sha, UAVs, sigmas, sk_v, sig, pass>>

KeyGen ==
    /\ pc = "KeyGen"
    /\ \E b, d \in [1 .. tm - 1 -> inst.Coefs], id \in [1 .. n -> inst.IDs],
          u \in [1 .. n -> [1 .. tm - 1 -> inst.Exps]] :
          /\ pp' = [pp EXCEPT !.PK = getPK(b)]
          /\ UAVs' = [j \in 1 .. n |-> getUAV(d, b, id[j], u[j])]
    /\ pc' = "collectSig"
    /\ UNCHANGED <<inst, sha, alpha, sigmas, sk_v, sig, pass>>

collectSig ==
    /\ pc = "collectSig"
    /\ sigmas' = [i \in 1 .. t |-> Sign(UAVs[i])]
    /\ pc' = "AggSig"
    /\ UNCHANGED <<inst, sha, pp, alpha, UAVs, sk_v, sig, pass>>

AggSigNoAlpha ==
    /\ pc = "AggSig"
    /\ \E sk \in inst.Exps, x \in inst.Exps :
          LET PK_v == pow_mpz(pp.g, sk, q)
              h == hashToCoprime(PK_v)
          IN  /\ sk_v' = sk
              /\ pc' = IF h = 0 THEN "AggSigLoops" ELSE "Verify"
              /\ sig' = IF h = 0 THEN <<>> ELSE AggSigRows(h, x)
    /\ UNCHANGED <<inst, sha, pp, alpha, UAVs, sigmas, pass>>

(* The verifier's key pair is drawn, and AggSig is called with PK_v *)
AggSig ==
    /\ pc = "AggSig"
    /\ \E sk \in inst.Exps, x \in inst.Exps :
          LET PK_v == pow_mpz(pp.g, sk, q)
              h == hashToCoprime(pow_mpz(PK_v, alpha, q))
          IN  /\ sk_v' = sk
              /\ pc' = IF h = 0 THEN "AggSigLoops" ELSE "Verify"
              /\ sig' = IF h = 0 THEN <<>> ELSE AggSigRows(h, x)
    /\ UNCHANGED <<inst, sha, pp, alpha, UAVs, sigmas, pass>>

VerifyStep ==
    /\ pc = "Verify"
    /\ LET h == hashToCoprime(pow_mpz(pp.beta, sk_v, q))
       IN  /\ pc' = IF h = 0 THEN "VerifyLoops" ELSE "done"
           /\ pass' = IF h = 0 THEN 0 ELSE Verify(h)
    /\ UNCHANGED <<inst, sha, pp, alpha, UAVs, sigmas, sk_v, sig>>

Next == Setup \/ KeyGen \/ collectSig \/ AggSig \/ VerifyStep

Spec == Init /\ [][Next]_vars

-----------------------------------------------------------------------------
SignerIDs == [i \in 1 .. t |-> UAVs[i].ID]

(* Points at which Lagrange interpolation at 0 works with getPi_0. *)
GoodIDs ==
    /\ \A i \in 1 .. t : SignerIDs[i] % q # 0
    /\ \A i, j \in 1 .. t : i # j => SignerIDs[i] % q # SignerIDs[j] % q

(* Shape of the state: everything the program stores is reduced modulo q,  *)
(* except what rand_mpz returned.                                          *)
TypeOK ==
    /\ sha \in Shas
    /\ pp.g \in 0 .. q /\ pp.beta \in 0 .. q - 1
    /\ alpha \in 0 .. q /\ sk_v \in 0 .. q
    /\ \A i \in DOMAIN pp.PK : pp.PK[i] \in 0 .. q - 1
    /\ \A j \in DOMAIN UAVs : \A i \in 1 .. tm - 1 :
          UAVs[j].c1[i] \in 0 .. q - 1 /\ UAVs[j].c2[i] \in 0 .. q - 1
    /\ \A i \in DOMAIN sigmas : sigmas[i].cj \in 0 .. q - 1 /\ sigmas[i].sig \in 0 .. q - 1
    /\ \A i \in DOMAIN sig : sig[i].aux \in 0 .. q - 1 /\ sig[i].sig \in 0 .. q - 1
    /\ pass \in {0, 1}

(* fussion() returns 1 for every draw of the random values but these: g is *)
(* 0 modulo q, a signer's ID is 0 modulo q, or two signers' IDs are equal  *)
(* modulo q.  ElGamal blinding, re-encryption and interpolation cancel for *)
(* all exponents, shares that are 0 and blinding values equal to q or q-1  *)
(* included.                                                               *)
CorrectSignatureVerifies ==
    pc = "done" /\ pp.g % q # 0 /\ GoodIDs => pass = 1

(* The head hashes PK_v^alpha and the verifier beta^sk_v: a verifier never *)
(* enters the endless loop of hashToCoprime when the head came through it. *)
VerifierNeverLoops == pc # "VerifyLoops"

(* The coefficients of getPi_0 interpolate at 0 every polynomial of degree *)
(* below t from its values at the signers' IDs.                            *)
PiInterpolates ==
    pc = "collectSig" /\ GoodIDs =>
        LET Pis == getPi_0(SignerIDs)
            S(k) == LET sum[i \in 0 .. t] == IF i = 0 THEN 0
                          ELSE (sum[i - 1] + Pis[i] * pow_mpz(SignerIDs[i], k, q)) % q
                    IN  sum[t]
        IN  \A k \in 0 .. t - 1 : S(k) = IF k = 0 THEN 1 ELSE 0

(* The two overloads of getPi_0 compute the same coefficients. *)
PiOverloadsAgree ==
    pc = "collectSig" /\ GoodIDs => getPi_0(SignerIDs) = getPi_0_Sigma(SignerIDs)
=============================================================================
