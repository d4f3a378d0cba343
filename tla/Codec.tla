-------------------------------- MODULE Codec --------------------------------
(***************************************************************************)
(* Numbers, points and vectors as strings: src/Tools/brpcTools.cpp with    *)
(* the conversions of src/Tools/Tools.cpp it calls, and the responses of   *)
(* Register, sign and Tran, from the handler that fills them to the client *)
(* that reads them.                                                        *)
(*                                                                         *)
(* A string is a sequence of digits and separators.  The widths are        *)
(* parameters: 16 is Hex, a scalar has 64 digits (ScalarLen), a BIG 96     *)
(* (BigLen).  The curve is y^2 = x^3 + 4 over a small field F; G2 has the  *)
(* same form, with one number for each coordinate in FP2.                  *)
(***************************************************************************)
EXTENDS Integers, Sequences

CONSTANTS
    Hex, Dec, Oct,          \* 16, 10 and 8 in the code
    ScalarLen, BigLen,      \* 64 and 96 hexadecimal digits
    F,                      \* the field of the coordinates
    G,                      \* multiples 1 .. q-1 of the generator
    Draws,                  \* multiples explored, of those rand_mpz returns
    Nums,                   \* numbers explored in vectors
    Msgs,                   \* messages M explored, longer than a scalar included
    MaxLen                  \* bound on the length of a vector

q == Len(G) + 1

(* base to the power k. *)
Power(base, k) ==
    LET p[i \in 0 .. k] == IF i = 0 THEN 1 ELSE p[i - 1] * base
    IN  p[k]

ASSUME CodecAssumption ==
    /\ Hex \in Nat \ {0, 1} /\ Dec \in Nat \ {0, 1} /\ Oct \in Nat \ {0, 1}
    /\ ScalarLen \in Nat \ {0} /\ BigLen \in Nat \ {0, 1} /\ ScalarLen <= BigLen
    /\ F \in Nat \ {0} /\ F <= Power(Hex, BigLen) /\ q <= Power(Hex, ScalarLen)
    /\ Draws \subseteq 1 .. q /\ Nums \subseteq Nat /\ Msgs \subseteq Nat /\ MaxLen \in Nat

OnCurve(x, y) == (y * y) % F = (x * x * x + 4) % F

(* The coordinates are those of a field, with an odd number of elements,   *)
(* and the multiples of the generator are points of the curve.             *)
ASSUME CurveAssumption ==
    /\ F % 2 = 1
    /\ \A a, b \in 0 .. F - 1 : (a * b) % F = 0 => a = 0 \/ b = 0
    /\ G \in Seq((0 .. F - 1) \X (0 .. F - 1))
    /\ \A k \in DOMAIN G : OnCurve(G[k][1], G[k][2])

Comma == -1
Semicolon == -2

-----------------------------------------------------------------------------
(* Numbers.  get_str writes no leading zero, and one digit for 0. *)
Digits(n, base) ==
    LET len == CHOOSE k \in 1 .. n + 1 : n < Power(base, k) /\ (k = 1 \/ n >= Power(base, k - 1))
    IN  [i \in 1 .. len |-> (n \div Power(base, len - i)) % base]

Value(s, base) ==
    LET v[i \in 0 .. Len(s)] == IF i = 0 THEN 0 ELSE v[i - 1] * base + s[i]
    IN  v[Len(s)]

Pad(s, len) == IF Len(s) < len THEN [i \in 1 .. len - Len(s) |-> 0] \o s ELSE s

mpz_to_str(n) == Digits(n, Hex)
str_to_mpz(s) == Value(s, Hex)

(* A BIG is its value; charsToString writes all of its bytes. *)
BIG_to_mpz(big) == Value(Pad(Digits(big, Hex), BigLen), Hex)

mpz_to_BIG_Last(n) ==
    LET s == Pad(Digits(n, Hex), ScalarLen) IN Value(SubSeq(s, Len(s) - ScalarLen + 1, Len(s)), Hex)

(* The first digits are taken, however many there are. *)
mpz_to_BIG(n) == Value(SubSeq(Pad(Digits(n, Hex), ScalarLen), 1, ScalarLen), Hex)

str_to_BIG(s) == Value(SubSeq(Pad(s, BigLen), 1, BigLen), Hex)

-----------------------------------------------------------------------------
(* Vectors.  getline and the loops over find(';') cut a string at every    *)
(* separator: the pieces cut so far, and what follows the last separator.  *)
cut(s, sep) ==
    LET c[i \in 0 .. Len(s)] ==
            IF i = 0 THEN [done |-> <<>>, rest |-> <<>>]
            ELSE LET b == c[i - 1]
                 IN  IF s[i] = sep
                     THEN [done |-> Append(b.done, b.rest), rest |-> <<>>]
                     ELSE [done |-> b.done, rest |-> Append(b.rest, s[i])]
    IN  c[Len(s)]

PiecesAll(s, sep) == LET c == cut(s, sep) IN Append(c.done, c.rest)

(* The rest counts if it is not empty. *)
Pieces(s, sep) == LET c == cut(s, sep) IN IF c.rest = <<>> THEN c.done ELSE Append(c.done, c.rest)

(* The loops that append one string after the other. *)
concat(strs) ==
    LET f[i \in 0 .. Len(strs)] == IF i = 0 THEN <<>> ELSE f[i - 1] \o strs[i]
    IN  f[Len(strs)]

mpzArr_to_str(mpzs) == concat([i \in DOMAIN mpzs |-> Append(Digits(mpzs[i], Dec), Comma)])

(* mpz_class(item) chooses the base by the prefix: a leading 0 means octal. *)
parse(item) ==
    IF Len(item) > 1 /\ item[1] = 0 THEN Value(Tail(item), Oct) ELSE Value(item, Dec)

str_to_mpzArr(s) == [k \in DOMAIN Pieces(s, Comma) |-> parse(Pieces(s, Comma)[k])]

Join(strs) == concat([i \in DOMAIN strs |-> IF i = 1 THEN strs[1] ELSE <<Semicolon>> \o strs[i]])

-----------------------------------------------------------------------------
(* Points.  Infinity has no coordinates: ECP_get and ECP2_get then leave   *)
(* the caller's x and y as they were, uninitialised, and `junk' is what    *)
(* they happen to hold (MIRACL, external).                                 *)
Infinity == <<>>

coordinates(P, junk) == IF P = Infinity THEN junk ELSE P

(* ECP_set and ECP2_set refuse what is not on the curve; ECP2_setx finds y *)
(* from x and a sign.                                                      *)
set(x, y) == IF OnCurve(x, y) THEN <<x % F, y % F>> ELSE Infinity
setx(x, sign) ==
    IF \E y \in 0 .. F - 1 : OnCurve(x, y) /\ y % 2 = sign
    THEN <<x % F, CHOOSE y \in 0 .. F - 1 : OnCurve(x, y) /\ y % 2 = sign>>
    ELSE Infinity

ECP_to_str(P, junk) ==
    LET c == coordinates(P, junk)
    IN  mpz_to_str(BIG_to_mpz(c[1])) \o <<Comma>> \o mpz_to_str(BIG_to_mpz(c[2]))

str_to_ECP(s) ==
    LET pos == CHOOSE i \in DOMAIN s : s[i] = Comma /\ \A j \in 1 .. i - 1 : s[j] # Comma
    IN  set(str_to_BIG(SubSeq(s, 1, pos - 1)), str_to_BIG(SubSeq(s, pos + 1, Len(s))))

ECPArr_to_str(ecps, junk) == Join([i \in DOMAIN ecps |-> ECP_to_str(ecps[i], junk)])
str_to_ECPArr(s) == [k \in DOMAIN Pieces(s, Semicolon) |-> str_to_ECP(Pieces(s, Semicolon)[k])]

ECP2_to_strNoSign(P, compressed, junk) ==
    LET c == coordinates(P, junk)
    IN  IF compressed
        THEN Pad(Digits(2, Hex), 2) \o Pad(Digits(c[1], Hex), BigLen)
        ELSE Pad(Digits(4, Hex), 2) \o Pad(Digits(c[1], Hex), BigLen) \o Pad(Digits(c[2], Hex), BigLen)

(* The octet, two digits for each byte: compressed, a tag that holds the   *)
(* sign of y, and x; otherwise the tag 4, x and y.                         *)
ECP2_to_str(P, compressed, junk) ==
    LET c == coordinates(P, junk)
    IN  IF compressed
        THEN Pad(Digits(2 + (c[2] % 2), Hex), 2) \o Pad(Digits(c[1], Hex), BigLen)
        ELSE Pad(Digits(4, Hex), 2) \o Pad(Digits(c[1], Hex), BigLen) \o Pad(Digits(c[2], Hex), BigLen)

str_to_ECP2(s) ==
    LET tag == Value(SubSeq(s, 1, 2), Hex)
        x == Value(SubSeq(s, 3, BigLen + 2), Hex)
    IN  IF tag = 4 THEN set(x, Value(SubSeq(s, BigLen + 3, Len(s)), Hex)) ELSE setx(x, tag - 2)

ECP2Arr_to_strWhole(ecp2s, junk) == Join([i \in DOMAIN ecp2s |-> ECP2_to_str(ecp2s[i], FALSE, junk)])

(* Both callers take the default, compressed = true (brpcTools.h). *)
ECP2Arr_to_str(ecp2s, junk) == Join([i \in DOMAIN ecp2s |-> ECP2_to_str(ecp2s[i], TRUE, junk)])
str_to_ECP2Arr(s) == [k \in DOMAIN Pieces(s, Semicolon) |-> str_to_ECP2(Pieces(s, Semicolon)[k])]

-----------------------------------------------------------------------------
(* The responses that carry vectors and points, one per behaviour: what    *)
(* the handler holds, the fields on the wire, what the client reads.       *)
VARIABLES sent, wire, got

vars == <<sent, wire, got>>

None == [kind |-> "none"]

(* Draw r of rand_mpz as a multiple of the generator: r = q gives Infinity. *)
mul(r) == LET k == BIG_to_mpz(mpz_to_BIG(r)) % q IN IF k = 0 THEN Infinity ELSE G[k]

Points == {mul(r) : r \in Draws}

(* What x and y happen to hold is read for a point at infinity only. *)
Junk == (0 .. F - 1) \X (0 .. F - 1)
JunkFor(ecps) == IF \E i \in DOMAIN ecps : ecps[i] = Infinity THEN Junk ELSE {<<0, 0>>}
Vectors(S, lens) == UNION {[1 .. n -> S] : n \in lens}

Init == sent = None /\ wire = None /\ got = None

SendParams ==
    /\ sent = None
    /\ \E m \in Msgs, PK \in Vectors(Points, 1 .. MaxLen), c1 \in Vectors(Nums, 1 .. MaxLen) :
        /\ sent' = [kind |-> "Register", m |-> m, PK |-> PK, c1 |-> c1]
        /\ \E junk \in JunkFor(PK) :
            wire' = [kind |-> "Register", m |-> mpz_to_str(m),
                     pk |-> ECP2Arr_to_str(PK, junk), cj |-> mpzArr_to_str(c1)]
    /\ UNCHANGED got

SendSig ==
    /\ sent = None
    /\ \E cj \in Nums, sig \in Points, id \in Nums :
        /\ sent' = [kind |-> "Sign", cj |-> cj, sig |-> sig, id |-> id]
        /\ \E junk \in JunkFor(<<sig>>) :
            wire' = [kind |-> "Sign", cj |-> mpz_to_str(cj),
                     sig |-> ECP_to_str(sig, junk), id |-> mpz_to_str(id)]
    /\ UNCHANGED got

SendSigma ==
    /\ sent = None
    /\ \E n \in 0 .. MaxLen :
       \E aux \in [1 .. n -> Nums], sig \in [1 .. n -> Points], IDs \in [1 .. n -> Nums] :
        /\ sent' = [kind |-> "Tran", aux |-> aux, sig |-> sig, IDs |-> IDs]
        /\ \E junk \in JunkFor(sig) :
            wire' = [kind |-> "Tran", auxs |-> mpzArr_to_str(aux),
                     sigs |-> ECPArr_to_str(sig, junk), ids |-> mpzArr_to_str(IDs)]
    /\ UNCHANGED got

ReadParams ==
    /\ wire.kind = "Register" /\ got = None
    /\ got' = [kind |-> "Register", m |-> str_to_mpz(wire.m),
               PK |-> str_to_ECP2Arr(wire.pk), c1 |-> str_to_mpzArr(wire.cj)]
    /\ UNCHANGED <<sent, wire>>

ReadSig ==
    /\ wire.kind = "Sign" /\ got = None
    /\ got' = [kind |-> "Sign", cj |-> str_to_mpz(wire.cj),
               sig |-> str_to_ECP(wire.sig), id |-> str_to_mpz(wire.id)]
    /\ UNCHANGED <<sent, wire>>

ReadSigma ==
    /\ wire.kind = "Tran" /\ got = None
    /\ got' = [kind |-> "Tran", aux |-> str_to_mpzArr(wire.auxs),
               sig |-> str_to_ECPArr(wire.sigs), IDs |-> str_to_mpzArr(wire.ids)]
    /\ UNCHANGED <<sent, wire>>

Next == SendParams \/ SendSig \/ SendSigma \/ ReadParams \/ ReadSig \/ ReadSigma

Spec == Init /\ [][Next]_vars

-----------------------------------------------------------------------------
(* Every vector arrives with its length and every number with its value:   *)
(* the verifier, which decodes aux, sig and IDs by three loops and indexes *)
(* them together (brpcVerifier.cpp 131-133), finds the rows AggSig built,  *)
(* and a UAV finds its own c1 (brpcUAV.cpp 141).                           *)
NumbersArrive ==
    /\ got.kind = "Register" =>
        got.m = sent.m /\ got.c1 = sent.c1 /\ Len(got.PK) = Len(sent.PK)
    /\ got.kind = "Sign" => got.cj = sent.cj /\ got.id = sent.id
    /\ got.kind = "Tran" =>
        got.aux = sent.aux /\ got.IDs = sent.IDs /\ Len(got.sig) = Len(sent.sig)

(* A finite point arrives as itself, in its place, in both text forms: G1  *)
(* as two numbers, G2 as x and the sign of y; also beside an entry that is *)
(* the point at infinity, whatever that one is written as.                 *)
FinitePointsArrive ==
    /\ got.kind = "Register" =>
        \A i \in DOMAIN sent.PK : sent.PK[i] # Infinity => got.PK[i] = sent.PK[i]
    /\ got.kind = "Sign" => (sent.sig # Infinity => got.sig = sent.sig)
    /\ got.kind = "Tran" =>
        \A i \in DOMAIN sent.sig : sent.sig[i] # Infinity => got.sig[i] = sent.sig[i]

(* What a node signs or verifies is mpz_to_BIG of the message it read: the *)
(* message if that fits a scalar, else its leading digits, the same at     *)
(* every node (Tools.cpp 66-80).                                           *)
MessageByLeadingDigits ==
    got.kind = "Register" =>
        \E k \in 0 .. Len(wire.m) :
            /\ mpz_to_BIG(got.m) = sent.m \div Power(Hex, k)
            /\ k = 0 <=> sent.m < Power(Hex, ScalarLen)
            /\ k > 0 => mpz_to_BIG(got.m) >= Power(Hex, ScalarLen - 1)

(* The octet of every point sent fits the buffer ECP2_to_str gives to      *)
(* ECP2_toOctet, which has room for the coordinates and not for the tag    *)
(* beside all of them (brpcTools.cpp 32): the compressed form the programs *)
(* send does.                                                              *)
OctetFits ==
    wire.kind = "Register" =>
        \A k \in DOMAIN Pieces(wire.pk, Semicolon) : Len(Pieces(wire.pk, Semicolon)[k]) <= 2 * BigLen

(* What testStrAndECP2Arr asks of every vector of random multiples of the  *)
(* generator: what is decoded equals what was encoded.                     *)
PublicKeyArrives == got.kind = "Register" => got.PK = sent.PK
=============================================================================
