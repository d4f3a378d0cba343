---------------------------- MODULE FussionProofs ----------------------------
(***************************************************************************)
(* Proofs about the runs of fussion(), for every prime order of the group, *)
(* every threshold, every hash function and every draw.  The inductive     *)
(* invariant RunInv says that after every step each variable holds what    *)
(* the functions compute from the draws made so far; FussionArithmetic     *)
(* then says what those values are.                                        *)
(***************************************************************************)
EXTENDS FussionArithmetic

(* hashToCoprime as the head and as the verifier call it *)
Secret == hashToCoprime(pow_mpz(pow_mpz(pp.g, sk_v, q), alpha, q))
VerifierSecret == hashToCoprime(pow_mpz(pp.beta, sk_v, q))

(* Nothing is drawn before Setup; afterwards beta is a power of g. *)
SetupInv ==
    IF pc = "Setup" THEN pp = [g |-> 0, beta |-> 0, PK |-> <<>>] /\ alpha = 0
    ELSE /\ pp = [g |-> pp.g, beta |-> pp.beta, PK |-> pp.PK]
         /\ pp.g \in inst.Gs /\ alpha \in inst.Exps
         /\ pp.beta = pow_mpz(pp.g, alpha, q)

(* The public keys and the UAVs' keys are computed from b, d, id and u. *)
Drawn(b, d, id, u) ==
    /\ b \in [1 .. tm - 1 -> inst.Coefs] /\ d \in [1 .. tm - 1 -> inst.Coefs]
    /\ id \in [1 .. n -> inst.IDs] /\ u \in [1 .. n -> [1 .. tm - 1 -> inst.Exps]]
    /\ pp.PK = getPK(b)
    /\ UAVs = [j \in 1 .. n |-> getUAV(d, b, id[j], u[j])]

KeyGenInv ==
    IF pc \in {"Setup", "KeyGen"} THEN pp.PK = <<>> /\ UAVs = <<>>
    ELSE \E b, d, id, u : Drawn(b, d, id, u)

(* The head holds the signatures of the first t UAVs. *)
SigmaInv ==
    sigmas = IF pc \in {"Setup", "KeyGen", "collectSig"} THEN <<>> ELSE [i \in 1 .. t |-> Sign(UAVs[i])]

(* The aggregate signature is what AggSig computes for some draw of e. *)
RowInv ==
    IF pc \in {"Verify", "VerifyLoops", "done"}
    THEN sk_v \in inst.Exps /\ Secret # 0 /\ \E x \in inst.Exps : sig = AggSigRows(Secret, x)
    ELSE sig = <<>> /\ sk_v \in inst.Exps \cup {0}

(* pass is the answer of Verify for the verifier's own hash. *)
PassInv ==
    /\ pass = IF pc = "done" THEN Verify(VerifierSecret) ELSE 0
    /\ pc = "VerifyLoops" => VerifierSecret = 0

RunInv ==
    /\ inst \in Insts /\ sha \in Shas
    /\ pc \in {"Setup", "KeyGen", "collectSig", "AggSig", "AggSigLoops", "Verify", "VerifyLoops", "done"}
    /\ SetupInv /\ KeyGenInv /\ SigmaInv /\ RowInv /\ PassInv

-----------------------------------------------------------------------------
(* What the operators read.  PKOf, HashOf and VerifyOf are getPK,          *)
(* hashToCoprime and Verify with the state they read as parameters.        *)

PKOf(m, b) ==
    LET PK[i \in 1 .. m - 1] == ECP2_mul(IF i = 1 THEN ECP2_generator ELSE PK[i - 1], b[i])
    IN  PK

HashOf(f, x) ==
    LET hash == hashToZp256(f, x, q - 1)
        hits == {k \in 0 .. q - 2 : isCoprime(hash + k * inc)}
    IN  IF hits = {} THEN 0
        ELSE hash + inc * (CHOOSE k \in hits : \A l \in hits : k <= l)

VerifyOf(h, rows, Pis, m, point, PK) ==
    LET k(i) == (Pis[i] * invert_mpz(pow_mpz(rows[i].aux, h, q), q)) % q
        s[i \in 1 .. m] == IF i = 1 THEN ECP_mul(rows[1].sig, k(1))
                           ELSE ECP_add(s[i - 1], ECP_mul(rows[i].sig, k(i)))
        left == e(s[m], ECP2_generator)
        right == e(point, PK)
    IN  IF left = right THEN 1 ELSE 0

(* getUAV keeps the ID it is given. *)
LEMMA UavID ==
    ASSUME NEW d, NEW b, NEW y, NEW u, NEW uav, uav = getUAV(d, b, y, u)
    PROVE  uav.ID = y
  BY DEF getUAV

(* What depends on the instance alone stays with it. *)
LEMMA InstFrame == inst' = inst => tm' = tm /\ n' = n /\ t' = t
BY Zenon DEF tm, n, t

(* The public keys depend on the instance and the coefficients. *)
LEMMA PKFrame ==
    ASSUME inst' = inst, NEW b PROVE getPK(b)' = getPK(b)
<1>1. getPK(b) = PKOf(tm, b)
  BY Zenon DEF getPK, PKOf
<1>2. getPK(b)' = PKOf(tm', b)
  BY Zenon DEF getPK, PKOf
<1> QED
  BY <1>1, <1>2, InstFrame, Zenon

(* A UAV's keys depend on the instance, g, beta and the draws. *)
LEMMA UavFrame ==
    ASSUME inst' = inst, pp'.g = pp.g, pp'.beta = pp.beta, NEW d, NEW b, NEW id, NEW u
    PROVE  getUAV(d, b, id, u)' = getUAV(d, b, id, u)
BY InstFrame, Zenon DEF getUAV

(* Draws stay the draws of the same UAVs. *)
LEMMA DrawnFrame ==
    ASSUME inst' = inst, pp' = pp, UAVs' = UAVs, NEW b, NEW d, NEW id, NEW u, Drawn(b, d, id, u)
    PROVE  Drawn(b, d, id, u)'
<1>1. tm' = tm /\ n' = n /\ getPK(b)' = getPK(b)
  BY InstFrame, PKFrame, Zenon
<1>2. [j \in 1 .. n |-> getUAV(d, b, id[j], u[j])]' = [j \in 1 .. n |-> getUAV(d, b, id[j], u[j])]
  BY <1>1, UavFrame, Zenon
<1> QED
  BY <1>1, <1>2, Zenon DEF Drawn

(* The signatures depend on the UAVs and the hash function. *)
LEMMA SignFrame ==
    ASSUME inst' = inst, sha' = sha, UAVs' = UAVs
    PROVE  [i \in 1 .. t |-> Sign(UAVs[i])]' = [i \in 1 .. t |-> Sign(UAVs[i])]
BY InstFrame, Zenon DEF Sign

(* Secret as a function of the values it reads. *)
LEMMA SecretIs ==
    /\ Secret = HashOf(sha, pow_mpz(pow_mpz(pp.g, sk_v, q), alpha, q))
    /\ Secret' = HashOf(sha', pow_mpz(pow_mpz(pp'.g, sk_v', q), alpha', q))
    /\ \A y : hashToCoprime(y) = HashOf(sha, y)
<1>1. Secret = HashOf(sha, pow_mpz(pow_mpz(pp.g, sk_v, q), alpha, q))
  BY Zenon DEF Secret, hashToCoprime, HashOf
<1>2. Secret' = HashOf(sha', pow_mpz(pow_mpz(pp'.g, sk_v', q), alpha', q))
  BY Zenon DEF Secret, hashToCoprime, HashOf
<1>3. \A y : hashToCoprime(y) = HashOf(sha, y)
  BY Zenon DEF hashToCoprime, HashOf
<1> QED
  BY <1>1, <1>2, <1>3, Zenon

(* VerifierSecret stays as long as those values do. *)
LEMMA VerifierSecretFrame ==
    sha' = sha /\ pp' = pp /\ sk_v' = sk_v => VerifierSecret' = VerifierSecret
<1>1. VerifierSecret = HashOf(sha, pow_mpz(pp.beta, sk_v, q))
  BY Zenon DEF VerifierSecret, hashToCoprime, HashOf
<1>2. VerifierSecret' = HashOf(sha', pow_mpz(pp'.beta, sk_v', q))
  BY Zenon DEF VerifierSecret, hashToCoprime, HashOf
<1> QED
  BY <1>1, <1>2, Zenon

(* And so does the answer of Verify. *)
LEMMA VerifyFrame ==
    ASSUME inst' = inst, sha' = sha, pp' = pp, sk_v' = sk_v, sig' = sig
    PROVE  Verify(VerifierSecret)' = Verify(VerifierSecret)
<1> DEFINE ID == [i \in 1 .. t |-> sig[i].ID]
           H == hashToPoint(sha, M)
<1>1. Verify(VerifierSecret) = VerifyOf(VerifierSecret, sig, getPi_0(ID), t, H, pp.PK[t - 1])
  BY Zenon DEF Verify, VerifyOf
<1>2. Verify(VerifierSecret)' = VerifyOf(VerifierSecret', sig', getPi_0(ID)', t', H', pp'.PK[t' - 1])
  BY Zenon DEF Verify, VerifyOf
<1>3. t' = t /\ VerifierSecret' = VerifierSecret /\ H' = H
  BY InstFrame, VerifierSecretFrame, Zenon
<1>4. getPi_0(ID)' = getPi_0(ID)
  BY <1>3, Zenon DEF getPi_0
<1> QED
  BY <1>1, <1>2, <1>3, <1>4, Zenon

-----------------------------------------------------------------------------
(* Every step of fussion() preserves the invariant. *)

(* Setup fills in the parameters; nothing else is there yet. *)
LEMMA SetupPreserves == RunInv /\ Setup => RunInv'
<1> SUFFICES ASSUME RunInv, Setup PROVE RunInv'
  BY Zenon
<1>1. PICK g \in inst.Gs, a \in inst.Exps :
         alpha' = a /\ pp' = [g |-> g, beta |-> pow_mpz(g, a, q), PK |-> <<>>]
  BY Zenon DEF Setup
<1>2. /\ pc = "Setup" /\ pc' = "KeyGen" /\ inst' = inst /\ sha' = sha /\ UAVs' = UAVs /\ sigmas' = sigmas
      /\ sk_v' = sk_v /\ sig' = sig /\ pass' = pass
  BY Zenon DEF Setup
<1>3. inst \in Insts /\ sha \in Shas /\ KeyGenInv /\ SigmaInv /\ RowInv /\ PassInv
  BY Zenon DEF RunInv
<1>4. SetupInv'
  BY <1>1, <1>2, Zenon DEF SetupInv
<1>5. KeyGenInv'
  BY <1>1, <1>2, <1>3, Zenon DEF KeyGenInv
<1>6. SigmaInv'
  BY <1>2, <1>3, Zenon DEF SigmaInv
<1>7. RowInv'
  BY <1>2, <1>3, Zenon DEF RowInv
<1>8. PassInv'
  BY <1>2, <1>3, Zenon DEF PassInv
<1> QED
  BY <1>2, <1>3, <1>4, <1>5, <1>6, <1>7, <1>8, Zenon DEF RunInv

(* KeyGen stores what getPK and getUAV compute from its draws. *)
LEMMA KeyGenPreserves == RunInv /\ KeyGen => RunInv'
<1> SUFFICES ASSUME RunInv, KeyGen PROVE RunInv'
  BY Zenon
<1>1. PICK b, d \in [1 .. tm - 1 -> inst.Coefs], id \in [1 .. n -> inst.IDs],
           u \in [1 .. n -> [1 .. tm - 1 -> inst.Exps]] :
         /\ pp' = [pp EXCEPT !.PK = getPK(b)]
         /\ UAVs' = [j \in 1 .. n |-> getUAV(d, b, id[j], u[j])]
  BY Zenon DEF KeyGen
<1>2. /\ pc = "KeyGen" /\ pc' = "collectSig" /\ inst' = inst /\ sha' = sha /\ alpha' = alpha
      /\ sigmas' = sigmas /\ sk_v' = sk_v /\ sig' = sig /\ pass' = pass
  BY Zenon DEF KeyGen
<1>3. inst \in Insts /\ sha \in Shas /\ SetupInv /\ SigmaInv /\ RowInv /\ PassInv
  BY Zenon DEF RunInv
<1>4. pp' = [g |-> pp.g, beta |-> pp.beta, PK |-> getPK(b)]
  <2>1. pp = [g |-> pp.g, beta |-> pp.beta, PK |-> pp.PK]
    BY <1>2, <1>3, Zenon DEF SetupInv
  <2> QED
    BY <1>1, <2>1, Zenon
<1>5. pp'.g = pp.g /\ pp'.beta = pp.beta /\ pp'.PK = getPK(b)
  BY <1>4, Zenon
<1>6. SetupInv'
  BY <1>2, <1>3, <1>4, <1>5, Zenon DEF SetupInv
<1>7. KeyGenInv'
  <2>1. tm' = tm /\ n' = n /\ getPK(b)' = getPK(b)
    BY <1>2, InstFrame, PKFrame, Zenon
  <2>2. [j \in 1 .. n |-> getUAV(d, b, id[j], u[j])]' = [j \in 1 .. n |-> getUAV(d, b, id[j], u[j])]
    BY <1>2, <1>5, <2>1, UavFrame, Zenon
  <2>3. Drawn(b, d, id, u)'
    BY <1>1, <1>2, <1>5, <2>1, <2>2, Zenon DEF Drawn
  <2>4. \E c1, c2, c3, c4 : Drawn(c1, c2, c3, c4)'
    BY <2>3, Zenon
  <2> QED
    BY <1>2, <2>4, Zenon DEF KeyGenInv
<1>8. SigmaInv'
  BY <1>2, <1>3, Zenon DEF SigmaInv
<1>9. RowInv'
  BY <1>2, <1>3, Zenon DEF RowInv
<1>10. PassInv'
  BY <1>2, <1>3, Zenon DEF PassInv
<1> QED
  BY <1>2, <1>3, <1>6, <1>7, <1>8, <1>9, <1>10, Zenon DEF RunInv

(* Steps after KeyGen keep what Setup and KeyGen drew. *)
LEMMA DrawsKept ==
    ASSUME SetupInv, KeyGenInv, pc \notin {"Setup", "KeyGen"}, pc' \notin {"Setup", "KeyGen"},
           inst' = inst, pp' = pp, alpha' = alpha, UAVs' = UAVs
    PROVE  SetupInv' /\ KeyGenInv'
<1>1. SetupInv'
  BY Zenon DEF SetupInv
<1>2. PICK b, d, id, u : Drawn(b, d, id, u)
  BY Zenon DEF KeyGenInv
<1>3. Drawn(b, d, id, u)'
  BY <1>2, DrawnFrame, Zenon
<1>4. \E c1, c2, c3, c4 : Drawn(c1, c2, c3, c4)'
  BY <1>3, Zenon
<1> QED
  BY <1>1, <1>4, Zenon DEF KeyGenInv

(* collectSig stores the first t signatures. *)
LEMMA collectSigPreserves == RunInv /\ collectSig => RunInv'
<1> SUFFICES ASSUME RunInv, collectSig PROVE RunInv'
  BY Zenon
<1>1. /\ pc = "collectSig" /\ pc' = "AggSig" /\ inst' = inst /\ sha' = sha /\ pp' = pp /\ alpha' = alpha
      /\ UAVs' = UAVs /\ sk_v' = sk_v /\ sig' = sig /\ pass' = pass
      /\ sigmas' = [i \in 1 .. t |-> Sign(UAVs[i])]
  BY Zenon DEF collectSig
<1>2. inst \in Insts /\ sha \in Shas /\ SetupInv /\ KeyGenInv /\ RowInv /\ PassInv
  BY Zenon DEF RunInv
<1>3. SetupInv' /\ KeyGenInv'
  BY <1>1, <1>2, DrawsKept, Zenon
<1>4. SigmaInv'
  <2>1. [i \in 1 .. t |-> Sign(UAVs[i])]' = [i \in 1 .. t |-> Sign(UAVs[i])]
    BY <1>1, SignFrame, Zenon
  <2> QED
    BY <1>1, <2>1, Zenon DEF SigmaInv
<1>5. RowInv'
  BY <1>1, <1>2, Zenon DEF RowInv
<1>6. PassInv'
  BY <1>1, <1>2, Zenon DEF PassInv
<1> QED
  BY <1>1, <1>2, <1>3, <1>4, <1>5, <1>6, Zenon DEF RunInv

(* Steps after collectSig keep the partial signatures too. *)
LEMMA SigmasKept ==
    ASSUME SigmaInv,
           pc \notin {"Setup", "KeyGen", "collectSig"}, pc' \notin {"Setup", "KeyGen", "collectSig"},
           inst' = inst, sha' = sha, UAVs' = UAVs, sigmas' = sigmas
    PROVE  SigmaInv'
<1>1. [i \in 1 .. t |-> Sign(UAVs[i])]' = [i \in 1 .. t |-> Sign(UAVs[i])]
  BY SignFrame, Zenon
<1>2. sigmas = [i \in 1 .. t |-> Sign(UAVs[i])]
  BY Zenon DEF SigmaInv
<1> QED
  BY <1>1, <1>2, Zenon DEF SigmaInv

(* Steps after AggSig keep the aggregated signature too. *)
LEMMA RowsKept ==
    ASSUME RowInv, pc \in {"Verify", "VerifyLoops", "done"}, pc' \in {"Verify", "VerifyLoops", "done"},
           inst' = inst, sha' = sha, pp' = pp, alpha' = alpha, sigmas' = sigmas, sk_v' = sk_v, sig' = sig
    PROVE  RowInv'
<1>1. PICK x \in inst.Exps : sig = AggSigRows(Secret, x)
  BY Zenon DEF RowInv
<1>2. Secret' = Secret /\ Secret # 0 /\ sk_v \in inst.Exps
  BY SecretIs, Zenon DEF RowInv
<1>3. AggSigRows(Secret, x)' = AggSigRows(Secret, x)
  BY <1>2, Zenon DEF AggSigRows
<1>4. sk_v' \in inst'.Exps /\ x \in inst'.Exps /\ sig' = AggSigRows(Secret, x)' /\ Secret' # 0
  BY <1>1, <1>2, <1>3, Zenon
<1> QED
  BY <1>4, Zenon DEF RowInv

(* AggSig stores its rows, or does not return from hashToCoprime. *)
LEMMA AggSigPreserves == RunInv /\ AggSig => RunInv'
<1> SUFFICES ASSUME RunInv, AggSig PROVE RunInv'
  BY Zenon
<1> DEFINE h(sk) == hashToCoprime(pow_mpz(pow_mpz(pp.g, sk, q), alpha, q))
<1>1. PICK sk \in inst.Exps, x \in inst.Exps :
         /\ sk_v' = sk
         /\ pc' = IF h(sk) = 0 THEN "AggSigLoops" ELSE "Verify"
         /\ sig' = IF h(sk) = 0 THEN <<>> ELSE AggSigRows(h(sk), x)
  BY Zenon DEF AggSig
<1>2. /\ pc = "AggSig" /\ inst' = inst /\ sha' = sha /\ pp' = pp /\ alpha' = alpha
      /\ UAVs' = UAVs /\ sigmas' = sigmas /\ pass' = pass
  BY Zenon DEF AggSig
<1>3. /\ inst \in Insts /\ sha \in Shas /\ SetupInv /\ KeyGenInv /\ SigmaInv /\ RowInv /\ PassInv
  BY Zenon DEF RunInv
<1>4. pc' \in {"AggSigLoops", "Verify"}
  BY <1>1, Zenon
<1>5. SetupInv' /\ KeyGenInv'
  BY <1>2, <1>3, <1>4, DrawsKept, Zenon
<1>6. SigmaInv'
  BY <1>2, <1>3, <1>4, SigmasKept, Zenon
<1>7. RowInv'
  <2>1. Secret' = h(sk)
    BY <1>1, <1>2, SecretIs, Zenon
  <2> HIDE DEF h
  <2>2. CASE h(sk) = 0
    <3>1. pc' = "AggSigLoops" /\ sig' = <<>> /\ sk_v' \in inst.Exps
      BY <1>1, <2>2, Zenon
    <3> QED
      BY <1>2, <3>1, Zenon DEF RowInv
  <2>3. CASE h(sk) # 0
    <3>1. pc' = "Verify" /\ sig' = AggSigRows(h(sk), x) /\ sk_v' \in inst'.Exps /\ x \in inst'.Exps
      BY <1>1, <1>2, <2>3, Zenon
    <3>2. AggSigRows(Secret, x)' = AggSigRows(h(sk), x)
      BY <1>2, <2>1, Zenon DEF AggSigRows
    <3> QED
      BY <2>1, <2>3, <3>1, <3>2, Zenon DEF RowInv
  <2> QED
    BY <2>2, <2>3, Zenon
<1>8. PassInv'
  BY <1>2, <1>3, <1>4, Zenon DEF PassInv
<1> QED
  BY <1>2, <1>3, <1>4, <1>5, <1>6, <1>7, <1>8, Zenon DEF RunInv

(* Verify answers for the stored signature, or does not return. *)
LEMMA VerifyStepPreserves == RunInv /\ VerifyStep => RunInv'
<1> SUFFICES ASSUME RunInv, VerifyStep PROVE RunInv'
  BY Zenon
<1>1. /\ inst \in Insts /\ sha \in Shas /\ SetupInv /\ KeyGenInv /\ SigmaInv /\ RowInv
  BY Zenon DEF RunInv
<1>2. /\ pc = "Verify" /\ inst' = inst /\ sha' = sha /\ pp' = pp /\ alpha' = alpha
      /\ UAVs' = UAVs /\ sigmas' = sigmas /\ sk_v' = sk_v /\ sig' = sig
  BY Zenon DEF VerifyStep
<1>3. /\ pc' = IF VerifierSecret = 0 THEN "VerifyLoops" ELSE "done"
      /\ pass' = IF VerifierSecret = 0 THEN 0 ELSE Verify(VerifierSecret)
  BY Zenon DEF VerifyStep, VerifierSecret
<1>4. pc' \in {"VerifyLoops", "done"}
  BY <1>3, Zenon
<1>5. SetupInv' /\ KeyGenInv'
  BY <1>1, <1>2, <1>4, DrawsKept, Zenon
<1>6. SigmaInv'
  BY <1>1, <1>2, <1>4, SigmasKept, Zenon
<1>7. RowInv'
  BY <1>1, <1>2, <1>4, RowsKept, Zenon
<1>8. PassInv'
  <2>1. VerifierSecret' = VerifierSecret /\ Verify(VerifierSecret)' = Verify(VerifierSecret)
    BY <1>2, VerifierSecretFrame, VerifyFrame, Zenon
  <2> QED
    BY <1>3, <2>1, Zenon DEF PassInv
<1> QED
  BY <1>1, <1>2, <1>4, <1>5, <1>6, <1>7, <1>8, Zenon DEF RunInv

(* A stuttering step changes nothing. *)
LEMMA Stutters == RunInv /\ UNCHANGED vars => RunInv'
<1> SUFFICES ASSUME RunInv, UNCHANGED vars PROVE RunInv'
  BY Zenon
<1>1. /\ inst \in Insts /\ sha \in Shas /\ SetupInv /\ KeyGenInv /\ SigmaInv /\ RowInv /\ PassInv
      /\ pc \in {"Setup", "KeyGen", "collectSig", "AggSig", "AggSigLoops", "Verify", "VerifyLoops", "done"}
  BY Zenon DEF RunInv
<1>2. /\ pc' = pc /\ inst' = inst /\ sha' = sha /\ pp' = pp /\ alpha' = alpha /\ UAVs' = UAVs
      /\ sigmas' = sigmas /\ sk_v' = sk_v /\ sig' = sig /\ pass' = pass
  BY Zenon DEF vars
<1>3. SetupInv' /\ KeyGenInv'
  <2>1. CASE pc \in {"Setup", "KeyGen"}
    BY <1>1, <1>2, <2>1, Zenon DEF SetupInv, KeyGenInv
  <2>2. CASE pc \notin {"Setup", "KeyGen"}
    BY <1>1, <1>2, <2>2, DrawsKept, Zenon
  <2> QED
    BY <2>1, <2>2, Zenon
<1>4. SigmaInv'
  <2>1. CASE pc \in {"Setup", "KeyGen", "collectSig"}
    BY <1>1, <1>2, <2>1, Zenon DEF SigmaInv
  <2>2. CASE pc \notin {"Setup", "KeyGen", "collectSig"}
    BY <1>1, <1>2, <2>2, SigmasKept, Zenon
  <2> QED
    BY <2>1, <2>2, Zenon
<1>5. RowInv'
  <2>1. CASE pc \in {"Verify", "VerifyLoops", "done"}
    BY <1>1, <1>2, <2>1, RowsKept, Zenon
  <2>2. CASE pc \notin {"Verify", "VerifyLoops", "done"}
    BY <1>1, <1>2, <2>2, Zenon DEF RowInv
  <2> QED
    BY <2>1, <2>2, Zenon
<1>6. PassInv'
  <2>1. VerifierSecret' = VerifierSecret /\ Verify(VerifierSecret)' = Verify(VerifierSecret)
    BY <1>2, VerifierSecretFrame, VerifyFrame, Zenon
  <2> QED
    BY <1>1, <1>2, <2>1, Zenon DEF PassInv
<1> QED
  BY <1>1, <1>2, <1>3, <1>4, <1>5, <1>6, Zenon DEF RunInv

(* Every state of fussion() is the one its functions compute from the     *)
(* draws.                                                                  *)
THEOREM RunInvariant == Spec => []RunInv
<1>1. Init => RunInv
  BY DEF Init, RunInv, SetupInv, KeyGenInv, SigmaInv, RowInv, PassInv
<1>2. RunInv /\ [Next]_vars => RunInv'
  BY SetupPreserves, KeyGenPreserves, collectSigPreserves, AggSigPreserves, VerifyStepPreserves,
     Stutters, Zenon
  DEF Next
<1> QED
  BY <1>1, <1>2, PTL DEF Spec

-----------------------------------------------------------------------------
(* What the invariant says of the values. *)

(* The verifier's call of hashToCoprime returns what the head's did. *)
LEMMA SecretAgrees ==
    ASSUME inst \in Insts, SetupInv, pc # "Setup", sk_v \in inst.Exps
    PROVE  /\ VerifierSecret = Secret
           /\ sha \in Shas /\ Secret # 0 => Secret \in Nat /\ isCoprime(Secret)
<1> DEFINE y == pow_mpz(pow_mpz(pp.g, sk_v, q), alpha, q)
<1>1. pp.g \in Nat /\ alpha \in Nat /\ sk_v \in Nat /\ pp.beta = pow_mpz(pp.g, alpha, q) /\ q \in Nat \ {0}
  <2>1. pp.g \in 1 .. q /\ alpha \in 1 .. q /\ sk_v \in 1 .. q /\ pp.beta = pow_mpz(pp.g, alpha, q)
    BY Instance, Zenon DEF SetupInv
  <2> QED
    BY <2>1, QPrime
<1>2. pow_mpz(pp.beta, sk_v, q) = y
  <2>1. pp.g \in Int
    BY <1>1
  <2> QED
    <3>1. pow_mpz(pow_mpz(pp.g, alpha, q), sk_v, q) = y
      BY <1>1, <2>1, PowCommutes, Zenon
    <3> QED
      BY <1>1, <3>1, Zenon
<1>3. y \in 0 .. q - 1
  <2>1. pp.g \in Int
    BY <1>1
  <2>2. pow_mpz(pp.g, sk_v, q) \in 0 .. q - 1
    BY <1>1, <2>1, PowIs, Zenon
  <2>3. pow_mpz(pp.g, sk_v, q) \in Int
    BY <1>1, <2>2
  <2> QED
    BY <1>1, <2>3, PowIs, Zenon
<1>4. Secret = hashToCoprime(y)
  BY Zenon DEF Secret
<1> HIDE DEF y
<1> QED
  BY <1>2, <1>3, <1>4, HashFound, Zenon DEF VerifierSecret

(* The parameters that Setup drew are in range, and beta is g to the       *)
(* alpha.                                                                  *)
LEMMA SetupTypes ==
    ASSUME inst \in Insts, SetupInv, pc # "Setup"
    PROVE  /\ pp.g \in Int /\ pp.beta \in Int /\ alpha \in Nat /\ pp.beta \in 0 .. q - 1
           /\ pp.g \in 1 .. q /\ alpha \in 1 .. q
           /\ Cong(pp.beta, Pow(pp.g, alpha), q)
<1>1. pp.g \in 1 .. q /\ alpha \in 1 .. q /\ pp.beta = pow_mpz(pp.g, alpha, q) /\ q \in Nat \ {0}
  BY Instance, QPrime, Zenon DEF SetupInv
<1>2. pp.g \in Int /\ alpha \in Nat
  BY <1>1
<1>3. pow_mpz(pp.g, alpha, q) \in 0 .. q - 1 /\ Cong(pow_mpz(pp.g, alpha, q), Pow(pp.g, alpha), q)
  BY <1>1, <1>2, PowIs, Zenon
<1>4. pow_mpz(pp.g, alpha, q) \in Int
  BY <1>1, <1>3
<1> QED
  BY <1>1, <1>2, <1>3, <1>4, Zenon

(* The draws of KeyGen can be continued to sequences. *)
LEMMA DrawnIs ==
    ASSUME inst \in Insts, NEW b, NEW d, NEW id, NEW u, Drawn(b, d, id, u)
    PROVE  /\ \E B : Continues(B, b, tm - 1)
           /\ \E D : Continues(D, d, tm - 1)
           /\ \A j \in 1 .. n : /\ id[j] \in Nat /\ \E U : Continues(U, u[j], tm - 1)
                                /\ UAVs[j] = getUAV(d, b, id[j], u[j])
<1>1. tm - 1 \in Nat /\ inst.Coefs \subseteq Nat /\ inst.Exps \subseteq Nat /\ inst.IDs \subseteq Nat
  <2>1. 1 .. q \subseteq Nat
    OBVIOUS
  <2>2. tm - 1 \in Nat
    BY Instance
  <2>3. inst.Coefs \subseteq Nat /\ inst.Exps \subseteq Nat /\ inst.IDs \subseteq Nat
    BY <2>1, Instance, Zenon
  <2> QED
    BY <2>2, <2>3, Zenon
<1> DEFINE m == tm - 1
           C == inst.Coefs
           X == inst.Exps
<1>2. m \in Nat /\ C \subseteq Nat /\ X \subseteq Nat /\ b \in [1 .. m -> C] /\ d \in [1 .. m -> C]
      /\ u \in [1 .. n -> [1 .. m -> X]] /\ id \in [1 .. n -> inst.IDs]
      /\ UAVs = [j \in 1 .. n |-> getUAV(d, b, id[j], u[j])]
  BY <1>1, Zenon DEF Drawn
<1> HIDE DEF m, C, X
<1>3. (\E B : Continues(B, b, m)) /\ (\E D : Continues(D, d, m))
  BY <1>2, Continued, Zenon
<1>4. ASSUME NEW j \in 1 .. n
      PROVE  /\ id[j] \in Nat /\ (\E U : Continues(U, u[j], m))
             /\ UAVs[j] = getUAV(d, b, id[j], u[j])
  <2>1. u[j] \in [1 .. m -> X] /\ id[j] \in inst.IDs
    BY <1>2, Zenon
  <2>2. id[j] \in Nat
    BY <1>1, <2>1, Zenon
  <2>3. \E U : Continues(U, u[j], m)
    BY <1>2, <2>1, Continued, Zenon
  <2>4. UAVs[j] = getUAV(d, b, id[j], u[j])
    BY <1>2, Zenon
  <2> QED
    BY <2>2, <2>3, <2>4, Zenon
<1> QED
  BY <1>3, <1>4, Zenon DEF m

(* Each row unblinds to the interpolated share of its UAV. *)
LEMMA RowVerifies ==
    ASSUME inst \in Insts, sha \in Shas, SetupInv, pc # "Setup", Mod(pp.g, q) # 0,
           NEW b, NEW d, NEW id, NEW u, Drawn(b, d, id, u),
           NEW B, Continues(B, b, tm - 1), NEW D, Continues(D, d, tm - 1),
           sigmas = [i \in 1 .. t |-> Sign(UAVs[i])],
           NEW h \in Nat, isCoprime(h), NEW x \in Nat, sig = AggSigRows(h, x),
           NEW i \in 1 .. t, NEW ID, getPi_0(ID)[i] \in Int
    PROVE  /\ sig[i].ID = id[i]
           /\ Unblind(h, ID, i) \in 0 .. q - 1
           /\ Cong(Unblind(h, ID, i),
                   hashToPoint(sha, M) * (getPi_0(ID)[i] * Prod(Factor(D, B, id[i]), t - 1)), q)
<1> DEFINE g == pp.g
           beta == pp.beta
           m == t - 1
           y == id[i]
           F == Prod(Factor(D, B, y), m)
           H == hashToPoint(sha, M)
           P == getPi_0(ID)[i]
           cj == sigmas[i].cj
           s == sigmas[i].sig
           row == sig[i].sig
           aux == sig[i].aux
<1>1. /\ tm \in Nat /\ t \in Nat \ {0} /\ t - 1 \in 0 .. tm - 1 /\ i \in 1 .. n /\ m \in Nat
      /\ q \in Nat \ {0}
  BY Instance, QPrime
<1>2. y \in Nat /\ UAVs[i] = getUAV(d, b, y, u[i])
  <2>1. id[i] \in Nat
    BY <1>1, DrawnIs, Zenon
  <2>2. UAVs[i] = getUAV(d, b, id[i], u[i])
    BY <1>1, Zenon DEF Drawn
  <2> QED
    BY <2>1, <2>2, Zenon
<1>3. PICK U : Continues(U, u[i], tm - 1)
  BY <1>1, DrawnIs, Zenon
<1>4. g \in Int /\ beta \in Int /\ alpha \in Nat /\ Cong(beta, Pow(g, alpha), q)
  BY SetupTypes, Zenon
<1>5. sigmas[i] = Sign(UAVs[i]) /\ i \in 1 .. Len(sigmas)
  BY <1>1
<1>6. /\ sigmas[i].ID = y
      /\ cj \in 0 .. q - 1 /\ Cong(cj, Prod(Powers(g, U), m), q)
      /\ s \in 0 .. q - 1 /\ Cong(s, H * (Prod(Powers(beta, U), m) * F), q)
  <2>1. /\ Sign(UAVs[i]).ID = y
        /\ Sign(UAVs[i]).cj \in 0 .. q - 1
        /\ Cong(Sign(UAVs[i]).cj, Prod(Powers(pp.g, U), t - 1), q)
        /\ Sign(UAVs[i]).sig \in 0 .. q - 1
        /\ Cong(Sign(UAVs[i]).sig,
                hashToPoint(sha, M) * (Prod(Powers(pp.beta, U), t - 1) * Prod(Factor(D, B, y), t - 1)), q)
    BY <1>1, <1>2, <1>3, <1>4, SignIs, Zenon
  <2> QED
    BY <1>5, <2>1, Zenon
<1>7. cj \in Int /\ s \in Int
  BY <1>1, <1>6
<1>8. /\ AggSigRows(h, x)[i].ID = sigmas[i].ID
      /\ AggSigRows(h, x)[i].aux \in 0 .. q - 1
      /\ AggSigRows(h, x)[i].sig \in 0 .. q - 1
      /\ \E be \in Int : /\ Cong(be, Pow(pp.beta, x), q)
                         /\ Cong(AggSigRows(h, x)[i].sig, sigmas[i].sig * be, q)
      /\ \E rk \in Nat, c \in Int : /\ Cong(rk * h, alpha, q - 1)
                                    /\ Cong(c, sigmas[i].cj * Pow(pp.g, x), q)
                                    /\ Cong(AggSigRows(h, x)[i].aux, Pow(c, rk), q)
  BY <1>4, <1>5, <1>7, RowIs, Zenon
<1>9. sig[i].ID = y /\ aux \in 0 .. q - 1 /\ row \in 0 .. q - 1
  BY <1>6, <1>8, Zenon
<1>10. PICK be \in Int : Cong(be, Pow(beta, x), q) /\ Cong(row, s * be, q)
  BY <1>8, Zenon
<1>11. PICK rk \in Nat, c \in Int :
           Cong(rk * h, alpha, q - 1) /\ Cong(c, cj * Pow(g, x), q) /\ Cong(aux, Pow(c, rk), q)
  BY <1>8, Zenon
<1>12. aux \in Int /\ row \in Int /\ H \in Int
  <2>1. \A k \in 0 .. q - 1 : k \in Int
    OBVIOUS
  <2> QED
    BY <1>1, <1>9, <2>1, PointIs, Zenon
<1>13. U \in [Nat -> Nat] /\ F \in Int /\ P \in Int
  <2>1. D \in [Nat -> Nat] /\ B \in [Nat -> Nat] /\ U \in [Nat -> Nat]
    BY <1>3, Zenon DEF Continues
  <2>2. D \in [Nat -> Int] /\ B \in [Nat -> Int] /\ y \in Int
    <3>1. \A k \in Nat : k \in Int
      BY SMT
    <3> QED
      BY <1>2, <3>1, ContinuesTypes, Zenon
  <2>3. F \in Int
    BY <1>1, <2>2, FactorStep, Zenon
  <2>4. P \in Int
    BY Zenon
  <2> QED
    BY <2>1, <2>3, <2>4, Zenon
<1>14. Unblind(h, ID, i) = ECP_mul(row, (P * invert_mpz(pow_mpz(aux, h, q), q)) % q)
  BY Zenon DEF Unblind
<1>15. Mod(g, q) # 0
  BY Zenon
<1> HIDE DEF g, beta, m, y, F, H, P, cj, s, row, aux
<1>16. /\ ECP_mul(row, (P * invert_mpz(pow_mpz(aux, h, q), q)) % q) \in 0 .. q - 1
       /\ Cong(ECP_mul(row, (P * invert_mpz(pow_mpz(aux, h, q), q)) % q), H * (P * F), q)
  <2>1. Blinded(cj, s, g, beta, U, m, H, F)
    BY <1>1, <1>6, <1>7, <1>12, <1>13, Zenon DEF Blinded
  <2>2. ReEncrypted(aux, row, cj, s, g, beta, alpha, h, x)
    BY <1>4, <1>10, <1>11, <1>12, <1>15, Zenon DEF ReEncrypted
  <2> QED
    BY <1>13, <2>1, <2>2, RowUnblinds, Zenon
<1> QED
  BY <1>9, <1>14, <1>16, Zenon DEF y, F, H, P, m

-----------------------------------------------------------------------------
(* A signature made from shares at good IDs verifies. *)

Scaled(H, P, x, d, b, m) == [i \in Nat |-> H * (P[i] * Prod(Factor(d, b, x[i]), m))]

(* The interpolated shares add up to hash times public key. *)
LEMMA ScaledSum ==
    ASSUME NEW m \in Nat, NEW x, Points(x, m + 1, q), NEW P, IsCoef(P, x, m + 1, q),
           NEW d \in [Nat -> Int], NEW b \in [Nat -> Int], NEW H \in Int
    PROVE  /\ Scaled(H, P, x, d, b, m) \in [Nat -> Int]
           /\ Prod(b, m) \in Int
           /\ Cong(Sum(Scaled(H, P, x, d, b, m), m + 1), H * Prod(b, m), q)
<1> DEFINE f == Term(P, x, d, b, m)
           g == Scaled(H, P, x, d, b, m)
<1>1. q \in Nat \ {0} /\ Prime(q) /\ m + 1 \in Nat /\ m \in 0 .. m
  BY QPrime
<1>2. x \in [Nat -> Int] /\ P \in [Nat -> Int]
  BY Zenon DEF Points, IsCoef
<1>3. f \in [Nat -> Int] /\ \A i \in Nat : f[i] = P[i] * Prod(Factor(d, b, x[i]), m)
  <2>1. f \in [Nat -> Int]
    BY <1>2, TermTypes, Zenon
  <2> QED
    BY <2>1, Zenon DEF Term
<1>4. \A i \in Nat : g[i] = H * f[i]
  BY <1>3, Zenon DEF Scaled
<1>5. g \in [Nat -> Int]
  <2>1. g = [i \in Nat |-> H * f[i]]
    BY <1>3, Zenon DEF Scaled
  <2> QED
    BY <1>3, <2>1
<1>6. Prod(b, m) \in Int
  BY ProdStep, Zenon
<1> HIDE DEF f, g
<1>7. Cong(Sum(f, m + 1), Prod(b, m), q)
  <2>1. Interpolates(x, m + 1, q, d, b, m)
    BY <1>1, Interpolation, Zenon
  <2> QED
    BY <2>1, Zenon DEF Interpolates, f
<1>8. Cong(Sum(g, m + 1), H * Sum(f, m + 1) + 0 * Sum(f, m + 1), q)
  <2>1. \A i \in 1 .. m + 1 : Cong(g[i], H * f[i] + 0 * f[i], q)
    <3> SUFFICES ASSUME NEW i \in 1 .. m + 1 PROVE Cong(g[i], H * f[i] + 0 * f[i], q)
      BY Zenon
    <3>1. i \in Nat
      BY <1>1
    <3>2. g[i] = H * f[i] + 0 * f[i]
      BY <1>3, <1>4, <3>1
    <3>3. g[i] \in Int
      BY <1>5, <3>1, Zenon
    <3> QED
      BY <1>1, <3>2, <3>3, CongRefl, Zenon
  <2>2. 0 \in Int
    OBVIOUS
  <2> QED
    BY <1>1, <1>3, <1>5, <2>1, <2>2, SumLinear, Zenon
<1>9. Sum(f, m + 1) \in Int /\ Sum(g, m + 1) \in Int
  BY <1>1, <1>3, <1>5, SumStep, Zenon
<1>10. H * Sum(f, m + 1) + 0 * Sum(f, m + 1) = H * Sum(f, m + 1)
  BY <1>9
<1>11. Cong(H * Sum(f, m + 1), H * Prod(b, m), q)
  <2>1. Cong(H, H, q)
    BY <1>1, CongRefl, Zenon
  <2> QED
    BY <1>1, <1>6, <1>7, <1>9, <2>1, CongMul, Zenon
<1>12. Cong(Sum(g, m + 1), H * Prod(b, m), q)
  BY <1>8, <1>10, <1>11, CongTrans, Zenon
<1> QED
  BY <1>5, <1>6, <1>12, Zenon DEF g

(* Verify accepts what AggSig made of t signatures of distinct nonzero     *)
(* IDs.                                                                    *)
LEMMA Correct ==
    ASSUME inst \in Insts, sha \in Shas, SetupInv, pc # "Setup", Mod(pp.g, q) # 0, GoodIDs,
           NEW b, NEW d, NEW id, NEW u, Drawn(b, d, id, u),
           sigmas = [i \in 1 .. t |-> Sign(UAVs[i])],
           NEW h \in Nat, isCoprime(h), NEW x \in Nat, sig = AggSigRows(h, x)
    PROVE  Verify(h) = 1
<1> DEFINE m == t - 1
           ID == [i \in 1 .. t |-> sig[i].ID]
           H == hashToPoint(sha, M)
<1>0. /\ t \in Nat \ {0} /\ t - 1 \in 1 .. tm - 1 /\ t <= n
      /\ tm \in Nat /\ n \in Nat /\ q \in Nat \ {0}
  BY Instance, QPrime, Zenon
<1>1. /\ t \in Nat /\ t \in Nat \ {0} /\ m \in Nat /\ m + 1 = t /\ t - 1 \in 1 .. tm - 1 /\ t <= n
      /\ tm \in Nat /\ n \in Nat /\ q \in Nat \ {0}
  BY <1>0
<1>2. PICK B : Continues(B, b, tm - 1)
  BY DrawnIs, Zenon
<1>3. PICK D : Continues(D, d, tm - 1)
  BY DrawnIs, Zenon
<1>4. B \in [Nat -> Int] /\ D \in [Nat -> Int] /\ \A i \in 1 .. tm - 1 : b[i] = B[i]
  BY <1>2, <1>3, ContinuesTypes, Zenon DEF Continues
<1>5. ASSUME NEW i \in 1 .. t PROVE id[i] \in Nat /\ SignerIDs[i] = id[i]
  <2>1. i \in 1 .. n
    BY <1>1
  <2>2. id[i] \in Nat
    BY <2>1, DrawnIs, Zenon
  <2>3. UAVs[i] = getUAV(d, b, id[i], u[i])
    BY <2>1, Zenon DEF Drawn
  <2>4. UAVs[i].ID = id[i]
    BY <2>3, UavID
  <2> QED
    BY <2>2, <2>4, Zenon DEF SignerIDs
<1>6. PICK X : Extends(X, SignerIDs, t)
  <2>1. \A i \in 1 .. t : SignerIDs[i] \in Int
    BY <1>5
  <2> QED
    BY <1>1, <2>1, GoodExtends, Zenon
<1>7. PICK P : IsCoef(P, X, t, q) /\ \A i \in 1 .. t : getPi_0(SignerIDs)[i] = P[i]
  BY <1>1, <1>6, PiCoefs, Zenon
<1>8. ASSUME NEW i \in 1 .. t PROVE getPi_0(SignerIDs)[i] \in Int
  <2>1. P \in [Nat -> Int] /\ i \in Nat
    BY <1>1, <1>7 DEF IsCoef
  <2>2. P[i] \in Int
    BY <2>1, Zenon
  <2> QED
    BY <1>7, <2>2, Zenon
<1>9. ASSUME NEW i \in 1 .. t
      PROVE  /\ sig[i].ID = id[i]
             /\ Unblind(h, SignerIDs, i) \in 0 .. q - 1
             /\ Cong(Unblind(h, SignerIDs, i),
                     H * (getPi_0(SignerIDs)[i] * Prod(Factor(D, B, id[i]), m)), q)
  BY <1>2, <1>3, <1>8, RowVerifies, Zenon
<1>10. SignerIDs = ID
  <2>1. \A i \in 1 .. t : sig[i].ID = SignerIDs[i]
    BY <1>5, <1>9, Zenon
  <2>2. SignerIDs = [i \in 1 .. t |-> SignerIDs[i]]
    BY Zenon DEF SignerIDs
  <2> QED
    BY <2>1, <2>2, Zenon
<1> DEFINE g == Scaled(H, P, X, D, B, m)
<1>11. H \in Int /\ Points(X, m + 1, q) /\ IsCoef(P, X, m + 1, q)
  BY <1>1, <1>6, <1>7, PointIs, Zenon DEF Extends
<1>12. /\ g \in [Nat -> Int] /\ Prod(B, m) \in Int
       /\ Cong(Sum(g, m + 1), H * Prod(B, m), q)
  BY <1>1, <1>4, <1>11, ScaledSum, Zenon
<1>13. ASSUME NEW i \in 1 .. t
       PROVE  g[i] = H * (getPi_0(SignerIDs)[i] * Prod(Factor(D, B, id[i]), m))
  <2>1. i \in Nat /\ X[i] = id[i] /\ P[i] = getPi_0(SignerIDs)[i]
    <3>1. i \in Nat
      BY <1>1
    <3> QED
      BY <1>5, <1>6, <1>7, <3>1, Zenon DEF Extends
  <2>2. g[i] = H * (P[i] * Prod(Factor(D, B, X[i]), m))
    BY <2>1, Zenon DEF Scaled
  <2> QED
    BY <2>1, <2>2, Zenon
<1>14. pp.PK[m] \in Int /\ Cong(pp.PK[m], Prod(B, m), q)
  <2>1. getPK(b)[m] \in 0 .. q - 1 /\ Cong(getPK(b)[m], Prod(B, m), q)
    BY <1>1, <1>4, PKIs, Zenon
  <2>2. pp.PK = getPK(b)
    BY Zenon DEF Drawn
  <2>3. \A k \in 0 .. q - 1 : k \in Int
    OBVIOUS
  <2> QED
    BY <2>1, <2>2, <2>3, Zenon
<1>15. Cong(H * Prod(B, m), H * pp.PK[m], q)
  <2>1. Cong(H, H, q) /\ Cong(Prod(B, m), pp.PK[m], q)
    BY <1>1, <1>11, <1>12, <1>14, CongRefl, CongSym, Zenon
  <2> QED
    BY <1>1, <1>11, <1>12, <1>14, <2>1, CongMul, Zenon
<1>16. Cong(Sum(g, t), H * pp.PK[t - 1], q)
  BY <1>1, <1>12, <1>15, CongTrans, Zenon
<1>17. \A i \in 1 .. t : /\ Unblind(h, SignerIDs, i) \in 0 .. q - 1
                        /\ Cong(Unblind(h, SignerIDs, i), g[i], q)
  BY <1>9, <1>13, Zenon
<1> HIDE DEF g
<1> QED
  BY <1>1, <1>10, <1>12, <1>16, <1>17, VerifySum, Zenon

-----------------------------------------------------------------------------
-----------------------------------------------------------------------------
(* The results. *)

(* A run of fussion() ends with a signature that verifies for every draw   *)
(* with g, the signers' IDs and their differences nonzero modulo q: every  *)
(* group size, every threshold, every hash function, every prime q.        *)
THEOREM SignaturesVerify == Spec => []CorrectSignatureVerifies
<1>1. RunInv => CorrectSignatureVerifies
  <2> SUFFICES ASSUME RunInv, pc = "done", Mod(pp.g, q) # 0, GoodIDs PROVE pass = 1
    BY Zenon DEF CorrectSignatureVerifies, Mod
  <2>1. /\ inst \in Insts /\ sha \in Shas /\ SetupInv /\ KeyGenInv /\ SigmaInv /\ RowInv /\ PassInv
        /\ pc # "Setup" /\ pc \notin {"Setup", "KeyGen", "collectSig"}
    BY Zenon DEF RunInv
  <2>2. PICK b, d, id, u : Drawn(b, d, id, u)
    BY <2>1, Zenon DEF KeyGenInv
  <2>3. sigmas = [i \in 1 .. t |-> Sign(UAVs[i])]
    BY <2>1, Zenon DEF SigmaInv
  <2>4. sk_v \in inst.Exps /\ Secret # 0
    BY <2>1, Zenon DEF RowInv
  <2>5. PICK x \in inst.Exps : sig = AggSigRows(Secret, x)
    BY <2>1, Zenon DEF RowInv
  <2>6. VerifierSecret = Secret /\ Secret \in Nat /\ isCoprime(Secret)
    BY <2>1, <2>4, SecretAgrees, Zenon
  <2>7. x \in Nat
    <3>1. inst.Exps \subseteq 1 .. q
      BY <2>1, Instance, Zenon
    <3> QED
      BY <3>1
  <2>8. Verify(Secret) = 1
    BY <2>1, <2>2, <2>3, <2>5, <2>6, <2>7, Correct, Zenon
  <2> QED
    BY <2>1, <2>6, <2>8, Zenon DEF PassInv
<1> QED
  BY <1>1, RunInvariant, PTL

(* The verifier's hashToCoprime ends whenever the head's did. *)
THEOREM VerifierEnds == Spec => []VerifierNeverLoops
<1>1. RunInv => VerifierNeverLoops
  <2> SUFFICES ASSUME RunInv, pc = "VerifyLoops" PROVE FALSE
    BY Zenon DEF VerifierNeverLoops
  <2>1. inst \in Insts /\ sha \in Shas /\ SetupInv /\ RowInv /\ PassInv /\ pc # "Setup"
    BY Zenon DEF RunInv
  <2>2. sk_v \in inst.Exps /\ Secret # 0
    BY <2>1, Zenon DEF RowInv
  <2>3. VerifierSecret = Secret
    BY <2>1, <2>2, SecretAgrees, Zenon
  <2>4. VerifierSecret = 0
    BY <2>1, Zenon DEF PassInv
  <2> QED
    BY <2>2, <2>3, <2>4, Zenon
<1> QED
  BY <1>1, RunInvariant, PTL

(* After collectSig the IDs of the signers are points of interpolation. *)
LEMMA SignersExtend ==
    ASSUME RunInv, pc = "collectSig", GoodIDs
    PROVE  t \in Nat \ {0} /\ t \in Nat /\ \E x : Extends(x, SignerIDs, t)
<1>1. inst \in Insts /\ KeyGenInv
  BY Zenon DEF RunInv
<1>2. PICK b, d, id, u : Drawn(b, d, id, u)
  BY <1>1, Zenon DEF KeyGenInv
<1>3. t \in Nat \ {0} /\ t \in Nat /\ n \in Nat /\ t <= n
  BY <1>1, Instance, Zenon
<1>4. ASSUME NEW i \in 1 .. t PROVE SignerIDs[i] \in Int
  <2>1. i \in 1 .. n
    BY <1>3
  <2>2. id[i] \in Nat
    BY <1>1, <1>2, <2>1, DrawnIs, Zenon
  <2>3. UAVs[i] = getUAV(d, b, id[i], u[i])
    BY <1>2, <2>1, Zenon DEF Drawn
  <2>4. UAVs[i].ID = id[i]
    BY <2>3, UavID
  <2> QED
    BY <2>2, <2>4 DEF SignerIDs
<1> QED
  BY <1>3, <1>4, GoodExtends, Zenon

(* Both overloads of getPi_0 return the same coefficients. *)
THEOREM OverloadsAgree == Spec => []PiOverloadsAgree
<1>1. RunInv => PiOverloadsAgree
  <2> SUFFICES ASSUME RunInv, pc = "collectSig", GoodIDs PROVE getPi_0(SignerIDs) = getPi_0_Sigma(SignerIDs)
    BY Zenon DEF PiOverloadsAgree
  <2> QED
    BY SignersExtend, PisAgree, Zenon
<1> QED
  BY <1>1, RunInvariant, PTL

(* getPi_0's coefficients interpolate at 0 every polynomial of degree      *)
(* below t.                                                                *)
THEOREM CoefficientsInterpolate == Spec => []PiInterpolates
<1>1. RunInv => PiInterpolates
  <2> SUFFICES ASSUME RunInv, pc = "collectSig", GoodIDs, NEW k \in 0 .. t - 1
               PROVE  (LET sum[i \in 0 .. t] == IF i = 0 THEN 0
                              ELSE (sum[i - 1] + getPi_0(SignerIDs)[i] * pow_mpz(SignerIDs[i], k, q)) % q
                       IN  sum[t]) = IF k = 0 THEN 1 ELSE 0
    BY Zenon DEF PiInterpolates
  <2> QED
    BY SignersExtend, PiSumLoop, Zenon
<1> QED
  BY <1>1, RunInvariant, PTL

(* Public keys, UAV keys and signatures are residues modulo q. *)
LEMMA DrawnTyped ==
    ASSUME inst \in Insts, sha \in Shas, SetupInv, pc # "Setup",
           NEW b, NEW d, NEW id, NEW u, Drawn(b, d, id, u)
    PROVE  /\ \A i \in DOMAIN pp.PK : pp.PK[i] \in 0 .. q - 1
           /\ DOMAIN UAVs = 1 .. n
           /\ \A j \in 1 .. n :
                 /\ \A i \in 1 .. tm - 1 : UAVs[j].c1[i] \in 0 .. q - 1 /\ UAVs[j].c2[i] \in 0 .. q - 1
                 /\ Sign(UAVs[j]).cj \in 0 .. q - 1 /\ Sign(UAVs[j]).sig \in 0 .. q - 1
<1>1. /\ tm \in Nat /\ t - 1 \in 0 .. tm - 1 /\ pp.g \in Int /\ pp.beta \in Int
  BY Instance, SetupTypes
<1>2. PICK B : Continues(B, b, tm - 1)
  BY DrawnIs, Zenon
<1>3. PICK D : Continues(D, d, tm - 1)
  BY DrawnIs, Zenon
<1>4. \A i \in DOMAIN pp.PK : pp.PK[i] \in 0 .. q - 1
  <2>1. B \in [Nat -> Int] /\ \A i \in 1 .. tm - 1 : b[i] = B[i]
    BY <1>2, ContinuesTypes, Zenon DEF Continues
  <2>2. \A i \in 1 .. tm - 1 : getPK(b)[i] \in 0 .. q - 1
    BY <1>1, <2>1, PKIs, Zenon
  <2>3. DOMAIN getPK(b) = 1 .. tm - 1
    <3>1. t - 1 \in 1 .. tm - 1
      BY Instance, Zenon
    <3> QED
      BY <1>1, <2>1, <3>1, PKIs, Zenon
  <2>4. pp.PK = getPK(b)
    BY Zenon DEF Drawn
  <2> QED
    BY <2>2, <2>3, <2>4, Zenon
<1>5. UAVs = [j \in 1 .. n |-> getUAV(d, b, id[j], u[j])]
  BY Zenon DEF Drawn
<1>6. ASSUME NEW j \in 1 .. n
      PROVE  /\ \A i \in 1 .. tm - 1 : UAVs[j].c1[i] \in 0 .. q - 1 /\ UAVs[j].c2[i] \in 0 .. q - 1
             /\ Sign(UAVs[j]).cj \in 0 .. q - 1 /\ Sign(UAVs[j]).sig \in 0 .. q - 1
  <2>1. id[j] \in Nat
    BY DrawnIs, Zenon
  <2>2. PICK U : Continues(U, u[j], tm - 1)
    BY DrawnIs, Zenon
  <2>3. UAVs[j] = getUAV(d, b, id[j], u[j])
    BY <1>5, Zenon
  <2> DEFINE y == id[j]
             v == u[j]
             w == UAVs[j]
  <2>4. y \in Nat /\ Continues(U, v, tm - 1) /\ w = getUAV(d, b, y, v)
    BY <2>1, <2>2, <2>3, Zenon
  <2>5. sha \in Shas
    BY Zenon
  <2> HIDE DEF y, v, w
  <2>6. \A i \in 1 .. tm - 1 :
            getUAV(d, b, y, v).c1[i] \in 0 .. q - 1 /\ getUAV(d, b, y, v).c2[i] \in 0 .. q - 1
    BY <1>1, <1>2, <1>3, <2>4, UavIs, Zenon
  <2>7. Sign(w).cj \in 0 .. q - 1 /\ Sign(w).sig \in 0 .. q - 1
    <3>1. Sign(getUAV(d, b, y, v)).cj \in 0 .. q - 1 /\ Sign(getUAV(d, b, y, v)).sig \in 0 .. q - 1
      BY <1>1, <1>2, <1>3, <2>4, <2>5, SignTyped, Zenon
    <3> QED
      BY <2>4, <3>1, Zenon
  <2> QED
    BY <2>4, <2>6, <2>7, Zenon DEF w
<1>7. DOMAIN UAVs = 1 .. n
  BY <1>5, Zenon
<1> QED
  BY <1>4, <1>6, <1>7, Zenon

(* The rows of the aggregate signature are residues modulo q. *)
LEMMA RowsTyped ==
    ASSUME inst \in Insts, sha \in Shas, SetupInv, pc # "Setup",
           sigmas = [i \in 1 .. t |-> Sign(UAVs[i])],
           \A i \in 1 .. t : sigmas[i].cj \in 0 .. q - 1 /\ sigmas[i].sig \in 0 .. q - 1,
           NEW h \in Nat, isCoprime(h), NEW x \in Nat, sig = AggSigRows(h, x)
    PROVE  \A i \in DOMAIN sig : sig[i].aux \in 0 .. q - 1 /\ sig[i].sig \in 0 .. q - 1
<1>1. pp.g \in Int /\ pp.beta \in Int /\ alpha \in Nat /\ q \in Nat
  BY SetupTypes, QPrime, Zenon
<1>2. Len(sigmas) = t
  BY Instance
<1>3. DOMAIN sig = 1 .. t
  BY <1>2, Zenon DEF AggSigRows
<1>4. ASSUME NEW i \in 1 .. t PROVE sig[i].aux \in 0 .. q - 1 /\ sig[i].sig \in 0 .. q - 1
  <2>1. i \in 1 .. Len(sigmas)
    BY <1>2, Zenon
  <2>2. sigmas[i].cj \in Int /\ sigmas[i].sig \in Int
    <3>1. sigmas[i].cj \in 0 .. q - 1 /\ sigmas[i].sig \in 0 .. q - 1
      BY Zenon
    <3> QED
      BY <1>1, <3>1
  <2>3. AggSigRows(h, x)[i].aux \in 0 .. q - 1 /\ AggSigRows(h, x)[i].sig \in 0 .. q - 1
    BY <1>1, <2>1, <2>2, RowIs, Zenon
  <2> QED
    BY <2>3, Zenon
<1> QED
  BY <1>3, <1>4, Zenon

(* Everything the program stores is reduced modulo q, except what rand_mpz *)
(* returned.                                                               *)
THEOREM FussionTyped == Spec => []TypeOK
<1>1. RunInv => TypeOK
  <2> SUFFICES ASSUME RunInv PROVE TypeOK
    BY Zenon
  <2>1. /\ inst \in Insts /\ sha \in Shas /\ SetupInv /\ KeyGenInv /\ SigmaInv /\ RowInv /\ PassInv
        /\ q \in Nat /\ q > 2
    BY QPrime, Zenon DEF RunInv
  <2>2. inst.Exps \subseteq 1 .. q
    BY <2>1, Instance, Zenon
  <2>3. pp.g \in 0 .. q /\ pp.beta \in 0 .. q - 1 /\ alpha \in 0 .. q
    <3>1. CASE pc = "Setup"
      BY <2>1, <3>1 DEF SetupInv
    <3>2. CASE pc # "Setup"
      <4>1. pp.g \in 1 .. q /\ pp.beta \in 0 .. q - 1 /\ alpha \in 1 .. q
        BY <2>1, <3>2, SetupTypes, Zenon
      <4> QED
        BY <2>1, <4>1
    <3> QED
      BY <3>1, <3>2, Zenon
  <2>4. sk_v \in 0 .. q
    <3>1. sk_v \in inst.Exps \cup {0}
      BY <2>1, Zenon DEF RowInv
    <3>2. 0 \in 0 .. q /\ \A k \in 1 .. q : k \in 0 .. q
      BY QPrime
    <3> QED
      BY <2>2, <3>1, <3>2, Zenon
  <2>5. pass \in {0, 1}
    BY <2>1, Zenon DEF PassInv, Verify
  <2>6. /\ \A i \in DOMAIN pp.PK : pp.PK[i] \in 0 .. q - 1
        /\ \A j \in DOMAIN UAVs : \A i \in 1 .. tm - 1 :
              UAVs[j].c1[i] \in 0 .. q - 1 /\ UAVs[j].c2[i] \in 0 .. q - 1
    <3>1. CASE pc \in {"Setup", "KeyGen"}
      BY <2>1, <3>1 DEF KeyGenInv
    <3>2. CASE pc \notin {"Setup", "KeyGen"}
      <4>1. PICK b, d, id, u : Drawn(b, d, id, u)
        BY <2>1, <3>2, Zenon DEF KeyGenInv
      <4>2. pc # "Setup"
        BY <3>2, Zenon
      <4> QED
        BY <2>1, <4>1, <4>2, DrawnTyped, Zenon
    <3> QED
      BY <3>1, <3>2, Zenon
  <2>7. CASE pc \in {"Setup", "KeyGen", "collectSig"}
    <3>1. sigmas = <<>> /\ sig = <<>>
      BY <2>1, <2>7, Zenon DEF SigmaInv, RowInv
    <3>2. DOMAIN sigmas = {} /\ DOMAIN sig = {}
      BY <3>1
    <3> QED
      BY <2>1, <2>3, <2>4, <2>5, <2>6, <3>2, Zenon DEF TypeOK
  <2>8. CASE pc \notin {"Setup", "KeyGen", "collectSig"}
    <3>1. pc # "Setup" /\ sigmas = [i \in 1 .. t |-> Sign(UAVs[i])] /\ DOMAIN sigmas = 1 .. t
      <4>1. pc # "Setup"
        BY <2>8, Zenon
      <4>2. sigmas = [i \in 1 .. t |-> Sign(UAVs[i])]
        BY <2>1, <2>8, Zenon DEF SigmaInv
      <4> QED
        BY <4>1, <4>2, Zenon
    <3>2. PICK b, d, id, u : Drawn(b, d, id, u)
      BY <2>1, <2>8, Zenon DEF KeyGenInv
    <3>3. \A i \in 1 .. t : sigmas[i].cj \in 0 .. q - 1 /\ sigmas[i].sig \in 0 .. q - 1
      <4> SUFFICES ASSUME NEW i \in 1 .. t PROVE sigmas[i].cj \in 0 .. q - 1 /\ sigmas[i].sig \in 0 .. q - 1
        BY Zenon
      <4>1. i \in 1 .. n /\ sigmas[i] = Sign(UAVs[i])
        <5>1. t \in Nat /\ n \in Nat /\ t <= n
          BY <2>1, Instance, Zenon
        <5>2. i \in 1 .. n
          BY <5>1
        <5> QED
          BY <3>1, <5>2, Zenon
      <4>2. Sign(UAVs[i]).cj \in 0 .. q - 1 /\ Sign(UAVs[i]).sig \in 0 .. q - 1
        BY <2>1, <3>1, <3>2, <4>1, DrawnTyped, Zenon
      <4> QED
        BY <4>1, <4>2, Zenon
    <3>4. \A i \in DOMAIN sig : sig[i].aux \in 0 .. q - 1 /\ sig[i].sig \in 0 .. q - 1
      <4>1. CASE pc \in {"Verify", "VerifyLoops", "done"}
        <5>1. sk_v \in inst.Exps /\ Secret # 0
          BY <2>1, <4>1, Zenon DEF RowInv
        <5>2. PICK x \in inst.Exps : sig = AggSigRows(Secret, x)
          BY <2>1, <4>1, Zenon DEF RowInv
        <5>3. x \in Nat
          <6>1. x \in 1 .. q
            BY <2>2, <5>2, Zenon
          <6> QED
            BY <6>1
        <5>4. Secret \in Nat /\ isCoprime(Secret)
          BY <2>1, <3>1, <5>1, SecretAgrees, Zenon
        <5> QED
          BY <2>1, <3>1, <3>3, <5>2, <5>3, <5>4, RowsTyped, Zenon
      <4>2. CASE pc \notin {"Verify", "VerifyLoops", "done"}
        <5>1. sig = <<>>
          BY <2>1, <4>2, Zenon DEF RowInv
        <5> QED
          BY <5>1
      <4> QED
        BY <4>1, <4>2, Zenon
    <3> QED
      BY <2>1, <2>3, <2>4, <2>5, <2>6, <3>1, <3>3, <3>4, Zenon DEF TypeOK
  <2> QED
    BY <2>7, <2>8, Zenon
<1> QED
  BY <1>1, RunInvariant, PTL
=============================================================================
