----------------------------- MODULE CodecProofs -----------------------------
(***************************************************************************)
(* What the text forms of numbers, vectors and points preserve, for all    *)
(* numbers, all lengths, all bases and all widths.                         *)
(***************************************************************************)
EXTENDS Codec, WellFoundedInduction, TLAPS

-----------------------------------------------------------------------------
(* Induction and recursion, with sets in place of predicates. *)

(* A set that holds 0 and is closed under successor holds every natural    *)
(* number: the least number it lacks has no predecessor.                   *)
LEMMA Induction ==
    ASSUME NEW S, 0 \in S, \A k \in Nat : k \in S => k + 1 \in S
    PROVE  Nat \subseteq S
<1> SUFFICES ASSUME Nat \ S # {} PROVE FALSE
  BY Zenon
<1> DEFINE R == {ss \in Nat \X Nat : ss[1] < ss[2]}
<1>1. IsWellFoundedOn(R, Nat)
  BY NatLessThanWellFounded, Zenon DEF OpToRel
<1> HIDE DEF R
<1>2. PICK x \in Nat \ S : \A y \in Nat \ S : ~ (<<y, x>> \in R)
  BY <1>1, WFMin, Zenon
<1>3. \A y \in Nat \ S : ~ (y < x)
  BY <1>2, Zenon DEF R
<1>4. x - 1 \in Nat /\ x - 1 \in S
  BY <1>2, <1>3
<1> QED
  BY <1>2, <1>4

(* p holds the values of a loop over s that starts with a and does op. *)
Loop(p, A, a, op, s) ==
    /\ p \in [0 .. Len(s) -> A] /\ p[0] = a
    /\ \A i \in 1 .. Len(s) : p[i] = op[p[i - 1]][s[i]]

(* A loop over a sequence has values. *)
LEMMA LoopExists ==
    ASSUME NEW A, NEW E, NEW a \in A, NEW op \in [A -> [E -> A]], NEW s \in Seq(E)
    PROVE  \E p : Loop(p, A, a, op, s)
<1> DEFINE upTo(n, p) == /\ p \in [0 .. n -> A] /\ p[0] = a
                         /\ \A i \in 1 .. n : p[i] = op[p[i - 1]][s[i]]
           S == {n \in Nat : n <= Len(s) => \E p : upTo(n, p)}
<1>1. 0 \in S
  <2>1. upTo(0, [i \in 0 .. 0 |-> a])
    OBVIOUS
  <2> QED
    BY <2>1, Zenon
<1>2. ASSUME NEW n \in Nat, n \in S PROVE n + 1 \in S
  <2> SUFFICES ASSUME n + 1 <= Len(s) PROVE \E p : upTo(n + 1, p)
    <3> HIDE DEF upTo
    <3> QED
      OBVIOUS
  <2>1. n <= Len(s)
    OBVIOUS
  <2>2. PICK p : upTo(n, p)
    BY <1>2, <2>1, Zenon
  <2>3. s[n + 1] \in E /\ p[n] \in A
    BY <2>2
  <2> DEFINE v == op[p[n]][s[n + 1]]
             r == [i \in 0 .. n + 1 |-> IF i = n + 1 THEN v ELSE p[i]]
  <2>4. v \in A
    BY <2>3, Zenon
  <2>5. r \in [0 .. n + 1 -> A] /\ r[0] = a
    <3> HIDE DEF v
    <3> QED
      BY <2>2, <2>4
  <2>6. ASSUME NEW i \in 1 .. n + 1 PROVE r[i] = op[r[i - 1]][s[i]]
    <3>1. CASE i = n + 1
      BY <3>1
    <3>2. CASE i # n + 1
      <4>1. i \in 1 .. n /\ r[i] = p[i] /\ r[i - 1] = p[i - 1]
        <5> HIDE DEF v
        <5> QED
          BY <3>2
      <4> QED
        BY <2>2, <4>1, Zenon
    <3> QED
      BY <3>1, <3>2, Zenon
  <2>7. upTo(n + 1, r)
    BY <2>5, <2>6, Zenon
  <2> QED
    BY <2>7, Zenon
<1>3. Nat \subseteq S
  <2> HIDE DEF S
  <2> QED
    BY <1>1, <1>2, Induction, Zenon
<1>4. Len(s) \in Nat /\ Len(s) <= Len(s)
  OBVIOUS
<1>5. \E p : upTo(Len(s), p)
  BY <1>3, <1>4, Zenon
<1> QED
  BY <1>5, Zenon DEF Loop

(* t is s and one more element, e. *)
Longer(t, s, e) ==
    /\ Len(s) \in Nat /\ Len(t) = Len(s) + 1 /\ t[Len(s) + 1] = e
    /\ \A i \in 1 .. Len(s) : t[i] = s[i]

LEMMA LongerAppend ==
    ASSUME NEW E, NEW s \in Seq(E), NEW e \in E
    PROVE  Longer(Append(s, e), s, e)
  BY DEF Longer

(* What the last pass of r, over t, does to the end of p, over s. *)
LastPass(r, t, p, s, A, op, e) == p[Len(s)] \in A /\ r[Len(t)] = op[p[Len(s)]][e]

(* One more element is one more pass. *)
LEMMA LoopAppend ==
    ASSUME NEW A, NEW a, NEW op, NEW s, NEW e, NEW t, Longer(t, s, e),
           NEW p, NEW r, Loop(p, A, a, op, s), Loop(r, A, a, op, t)
    PROVE  LastPass(r, t, p, s, A, op, e)
<1> DEFINE n == Len(s)
<1>1. n \in Nat /\ Len(t) = n + 1 /\ t[n + 1] = e /\ \A i \in 1 .. n : t[i] = s[i]
  BY Zenon DEF Longer
<1> HIDE DEF n
<1>2. /\ p[0] = a /\ p \in [0 .. n -> A] /\ \A i \in 1 .. n : p[i] = op[p[i - 1]][s[i]]
      /\ r[0] = a /\ \A i \in 1 .. n + 1 : r[i] = op[r[i - 1]][t[i]]
  BY <1>1, Zenon DEF Loop, n
<1> DEFINE S == {i \in Nat : i <= n => p[i] = r[i]}
<1>3. 0 \in S
  BY <1>2, Zenon
<1>4. ASSUME NEW i \in Nat, i \in S PROVE i + 1 \in S
  <2> SUFFICES ASSUME i + 1 <= n PROVE p[i + 1] = r[i + 1]
    OBVIOUS
  <2>1. p[i] = r[i] /\ i + 1 \in 1 .. n /\ i + 1 \in 1 .. n + 1 /\ (i + 1) - 1 = i
    BY <1>1, <1>4
  <2>2. p[i + 1] = op[p[(i + 1) - 1]][s[i + 1]] /\ r[i + 1] = op[r[(i + 1) - 1]][t[i + 1]]
    BY <1>2, <2>1, Zenon
  <2> QED
    BY <1>1, <2>1, <2>2, Zenon
<1>5. Nat \subseteq S
  <2> HIDE DEF S
  <2> QED
    BY <1>3, <1>4, Induction, Zenon
<1>6. p[n] = r[n] /\ n + 1 \in 1 .. n + 1 /\ (n + 1) - 1 = n /\ n \in 0 .. n
  BY <1>1, <1>5
<1>7. r[n + 1] = op[r[(n + 1) - 1]][t[n + 1]]
  BY <1>2, <1>6, Zenon
<1>8. r[n + 1] = op[p[n]][e] /\ p[n] \in A
  BY <1>1, <1>2, <1>6, <1>7, Zenon
<1> QED
  BY <1>1, <1>8, Zenon DEF n, LastPass

(* The equations of a loop, for a function whose values are not known to   *)
(* be in A.                                                                *)
LoopEqs(c, A, a, op, s) ==
    c[0] = a /\ \A i \in 1 .. Len(s) : c[i - 1] \in A => c[i] = op[c[i - 1]][s[i]]

SameEnd(c, p, s) == c[Len(s)] = p[Len(s)]

(* What satisfies the equations of a loop is the loop. *)
LEMMA LoopIs ==
    ASSUME NEW A, NEW a, NEW op, NEW s, NEW p, Loop(p, A, a, op, s), Len(s) \in Nat,
           NEW c, LoopEqs(c, A, a, op, s)
    PROVE  SameEnd(c, p, s)
<1> DEFINE n == Len(s)
<1>1. n \in Nat /\ p \in [0 .. n -> A] /\ p[0] = a /\ \A i \in 1 .. n : p[i] = op[p[i - 1]][s[i]]
  BY Zenon DEF Loop
<1>2. c[0] = a /\ \A i \in 1 .. n : c[i - 1] \in A => c[i] = op[c[i - 1]][s[i]]
  BY Zenon DEF LoopEqs
<1> HIDE DEF n
<1> DEFINE S == {i \in Nat : i <= n => c[i] = p[i]}
<1>3. 0 \in S
  BY <1>1, <1>2, Zenon
<1>4. ASSUME NEW i \in Nat, i \in S PROVE i + 1 \in S
  <2> SUFFICES ASSUME i + 1 <= n PROVE c[i + 1] = p[i + 1]
    OBVIOUS
  <2>1. i + 1 \in 1 .. n /\ (i + 1) - 1 = i /\ c[i] = p[i] /\ i \in 0 .. n
    BY <1>1, <1>4
  <2>2. c[i] \in A
    BY <1>1, <2>1, Zenon
  <2>3. c[(i + 1) - 1] \in A => c[i + 1] = op[c[(i + 1) - 1]][s[i + 1]]
    BY <1>2, <2>1, Zenon
  <2>4. p[i + 1] = op[p[(i + 1) - 1]][s[i + 1]]
    BY <1>1, <2>1, Zenon
  <2> QED
    BY <2>1, <2>2, <2>3, <2>4, Zenon
<1>5. Nat \subseteq S
  <2> HIDE DEF S
  <2> QED
    BY <1>3, <1>4, Induction, Zenon
<1>6. n <= n
  BY <1>1
<1> QED
  BY <1>1, <1>5, <1>6, Zenon DEF n, SameEnd

-----------------------------------------------------------------------------
(* Powers. *)

(* The first power, and each from the one before. *)
LEMMA PowerStep ==
    ASSUME NEW b \in Nat
    PROVE  /\ Power(b, 0) = 1
           /\ \A k \in Nat : Power(b, k) \in Nat /\ Power(b, k + 1) = Power(b, k) * b
<1> DEFINE op == [x \in Nat |-> [e \in Nat |-> x * e]]
           bs(k) == [i \in 1 .. k |-> b]
<1>1. op \in [Nat -> [Nat -> Nat]] /\ 1 \in Nat
  OBVIOUS
<1>2. \A k \in Nat : bs(k) \in Seq(Nat) /\ Len(bs(k)) = k /\ bs(k + 1) = Append(bs(k), b)
  OBVIOUS
<1>3. ASSUME NEW k \in Nat PROVE \E p : Loop(p, Nat, 1, op, bs(k)) /\ Power(b, k) = p[k]
  <2> DEFINE eq(p) == p = [i \in 0 .. k |-> IF i = 0 THEN 1 ELSE p[i - 1] * b]
             c == CHOOSE p : eq(p)
  <2>1. PICK p : Loop(p, Nat, 1, op, bs(k))
    <3> HIDE DEF op, bs
    <3> QED
      BY <1>1, <1>2, LoopExists, Zenon
  <2>2. p \in [0 .. k -> Nat] /\ p[0] = 1 /\ \A i \in 1 .. k : p[i] = p[i - 1] * b
    <3>1. p \in [0 .. k -> Nat] /\ p[0] = 1 /\ \A i \in 1 .. k : p[i] = op[p[i - 1]][bs(k)[i]]
      <4> HIDE DEF op, bs
      <4> QED
        BY <1>2, <2>1, Zenon DEF Loop
    <3>2. ASSUME NEW i \in 1 .. k PROVE p[i] = p[i - 1] * b
      <4>1. p[i - 1] \in Nat /\ bs(k)[i] = b
        BY <3>1
      <4> QED
        BY <3>1, <4>1, Zenon
    <3> QED
      BY <3>1, <3>2, Zenon
  <2>3. eq(p)
    BY <2>2
  <2>4. eq(c)
    BY <2>3, Zenon
  <2> HIDE DEF c
  <2>5. c[0] = 1 /\ \A i \in 1 .. k : c[i] = c[i - 1] * b
    BY <2>4
  <2>6. LoopEqs(c, Nat, 1, op, bs(k))
    <3>1. ASSUME NEW i \in 1 .. k PROVE bs(k)[i] = b
      BY <3>1, Zenon
    <3>2. Len(bs(k)) = k
      BY <1>2, Zenon
    <3> QED
      BY <2>5, <3>1, <3>2, Zenon DEF LoopEqs
  <2>7. c[k] = p[k]
    <3> HIDE DEF op, bs
    <3>1. Len(bs(k)) = k
      BY <1>2, Zenon
    <3>2. SameEnd(c, p, bs(k))
      BY <2>1, <2>6, <3>1, LoopIs, Zenon
    <3> QED
      BY <3>1, <3>2, Zenon DEF SameEnd
  <2>8. Power(b, k) = c[k]
    BY Zenon DEF Power, c
  <2> QED
    BY <2>1, <2>7, <2>8, Zenon
<1>4. ASSUME NEW k \in Nat PROVE Power(b, k) \in Nat /\ Power(b, k + 1) = Power(b, k) * b
  <2> HIDE DEF op, bs
  <2>1. k + 1 \in Nat
    OBVIOUS
  <2>2. PICK p : Loop(p, Nat, 1, op, bs(k)) /\ Power(b, k) = p[k]
    BY <1>3, Zenon
  <2>3. PICK r : Loop(r, Nat, 1, op, bs(k + 1)) /\ Power(b, k + 1) = r[k + 1]
    BY <1>3, <2>1, Zenon
  <2>4. p[k] \in Nat /\ r[k + 1] = op[p[k]][b]
    <3>1. Longer(bs(k + 1), bs(k), b)
      BY <1>2, <2>1, LongerAppend, Zenon
    <3>2. Loop(p, Nat, 1, op, bs(k)) /\ Loop(r, Nat, 1, op, bs(k + 1))
      BY <2>2, <2>3, Zenon
    <3>3. LastPass(r, bs(k + 1), p, bs(k), Nat, op, b)
      BY <3>1, <3>2, LoopAppend, Zenon
    <3>4. Len(bs(k)) = k /\ Len(bs(k + 1)) = k + 1
      BY <1>2, <2>1, Zenon
    <3> QED
      BY <3>3, <3>4, Zenon DEF LastPass
  <2>5. op[p[k]][b] = p[k] * b
    BY <2>4, Zenon DEF op
  <2> QED
    BY <2>2, <2>3, <2>4, <2>5, Zenon
<1>5. Power(b, 0) = 1
  <2> HIDE DEF op, bs
  <2>1. PICK p : Loop(p, Nat, 1, op, bs(0)) /\ Power(b, 0) = p[0]
    BY <1>3, Zenon
  <2> QED
    BY <2>1, Zenon DEF Loop
<1> QED
  BY <1>4, <1>5, Zenon

(* Powers of a base are positive, and grow. *)
LEMMA PowerGrows ==
    ASSUME NEW b \in Nat \ {0, 1}, NEW k \in Nat
    PROVE  Power(b, k) \in Nat \ {0} /\ k < Power(b, k)
<1> DEFINE S == {i \in Nat : i < Power(b, i)}
<1>1. b \in Nat
  OBVIOUS
<1>2. 0 \in S
  BY <1>1, PowerStep
<1>3. ASSUME NEW i \in Nat, i \in S PROVE i + 1 \in S
  <2>1. Power(b, i) \in Nat /\ Power(b, i + 1) = Power(b, i) * b /\ i < Power(b, i)
    BY <1>1, <1>3, PowerStep, Zenon
  <2> DEFINE x == Power(b, i)
  <2>2. x * b >= x + x
    <3> HIDE DEF x
    <3>1. \A y \in Nat, c \in Nat : y * (c + 2) = y * c + (y + y)
      BY SMT
    <3>2. b - 2 \in Nat /\ x \in Nat /\ (b - 2) + 2 = b
      BY <2>1 DEF x
    <3>3. x * ((b - 2) + 2) = x * (b - 2) + (x + x) /\ x * (b - 2) \in Nat
      BY <3>1, <3>2
    <3> QED
      BY <3>2, <3>3
  <2> QED
    BY <2>1, <2>2
<1>4. Nat \subseteq S
  <2> HIDE DEF S
  <2> QED
    BY <1>2, <1>3, Induction, Zenon
<1>5. Power(b, k) \in Nat /\ k < Power(b, k)
  BY <1>1, <1>4, PowerStep, Zenon
<1> QED
  BY <1>5

-----------------------------------------------------------------------------
(* Digits and values. *)

(* The value of a string, digit by digit. *)
LEMMA ValueStep ==
    ASSUME NEW b \in Nat
    PROVE  /\ Value(<<>>, b) = 0
           /\ \A s \in Seq(Nat) : /\ Value(s, b) \in Nat
                                  /\ \A d \in Nat : Value(Append(s, d), b) = Value(s, b) * b + d
<1> DEFINE op == [x \in Nat |-> [d \in Nat |-> x * b + d]]
<1>1. op \in [Nat -> [Nat -> Nat]] /\ 0 \in Nat
  OBVIOUS
<1>2. ASSUME NEW s \in Seq(Nat) PROVE \E p : Loop(p, Nat, 0, op, s) /\ Value(s, b) = p[Len(s)]
  <2> DEFINE eq(p) == p = [i \in 0 .. Len(s) |-> IF i = 0 THEN 0 ELSE p[i - 1] * b + s[i]]
             c == CHOOSE p : eq(p)
  <2>1. PICK p : Loop(p, Nat, 0, op, s)
    <3> HIDE DEF op
    <3> QED
      BY <1>1, LoopExists, Zenon
  <2>2. Len(s) \in Nat /\ \A i \in 1 .. Len(s) : s[i] \in Nat
    OBVIOUS
  <2>3. p \in [0 .. Len(s) -> Nat] /\ p[0] = 0 /\ \A i \in 1 .. Len(s) : p[i] = op[p[i - 1]][s[i]]
    BY <2>1, Zenon DEF Loop
  <2>4. ASSUME NEW i \in 1 .. Len(s) PROVE p[i] = p[i - 1] * b + s[i]
    <3>1. i - 1 \in 0 .. Len(s)
      BY <2>2
    <3>2. p[i - 1] \in Nat
      BY <2>3, <3>1, Zenon
    <3> QED
      BY <2>2, <2>3, <3>2, Zenon
  <2>5. eq(p)
    <3> HIDE DEF op
    <3> QED
      BY <2>2, <2>3, <2>4
  <2>6. eq(c)
    BY <2>5, Zenon
  <2> HIDE DEF c
  <2>7. c[0] = 0 /\ \A i \in 1 .. Len(s) : c[i] = c[i - 1] * b + s[i]
    <3>1. 0 \in 0 .. Len(s) /\ \A i \in 1 .. Len(s) : i \in 0 .. Len(s) /\ i # 0
      BY <2>2
    <3> QED
      BY <2>6, <3>1, Zenon
  <2>8. LoopEqs(c, Nat, 0, op, s)
    BY <2>2, <2>7, Zenon DEF LoopEqs
  <2>9. SameEnd(c, p, s)
    <3> HIDE DEF op
    <3> QED
      BY <2>1, <2>2, <2>8, LoopIs, Zenon
  <2>10. Value(s, b) = c[Len(s)]
    BY Zenon DEF Value, c
  <2> QED
    BY <2>1, <2>9, <2>10, Zenon DEF SameEnd
<1>3. ASSUME NEW s \in Seq(Nat), NEW d \in Nat
      PROVE  Value(s, b) \in Nat /\ Value(Append(s, d), b) = Value(s, b) * b + d
  <2> DEFINE t == Append(s, d)
  <2>1. t \in Seq(Nat)
    OBVIOUS
  <2>2. Longer(t, s, d)
    BY LongerAppend, Zenon
  <2> HIDE DEF op, t
  <2>3. PICK p : Loop(p, Nat, 0, op, s) /\ Value(s, b) = p[Len(s)]
    BY <1>2, Zenon
  <2>4. PICK r : Loop(r, Nat, 0, op, t) /\ Value(t, b) = r[Len(t)]
    BY <1>2, <2>1, Zenon
  <2>5. LastPass(r, t, p, s, Nat, op, d)
    BY <2>2, <2>3, <2>4, LoopAppend, Zenon
  <2>6. p[Len(s)] \in Nat /\ r[Len(t)] = op[p[Len(s)]][d]
    BY <2>5, Zenon DEF LastPass
  <2>7. op[p[Len(s)]][d] = p[Len(s)] * b + d
    BY <2>6, Zenon DEF op
  <2> QED
    BY <2>3, <2>4, <2>6, <2>7, Zenon DEF t
<1>4. Value(<<>>, b) = 0
  <2> HIDE DEF op
  <2>1. <<>> \in Seq(Nat) /\ Len(<<>>) = 0
    OBVIOUS
  <2>2. PICK p : Loop(p, Nat, 0, op, <<>>) /\ Value(<<>>, b) = p[Len(<<>>)]
    BY <1>2, <2>1, Zenon
  <2> QED
    BY <2>1, <2>2, Zenon DEF Loop
<1>5. \A s \in Seq(Nat) : Value(s, b) \in Nat
  <2>1. 0 \in Nat
    OBVIOUS
  <2> QED
    BY <1>3, <2>1, Zenon
<1> QED
  BY <1>3, <1>4, <1>5, Zenon

-----------------------------------------------------------------------------
(* Strings with separators. *)

Str == Seq(Int)
CutState == [done : Seq(Str), rest : Str]

(* What cut does at one character. *)
cutAt(x, sep, d) ==
    IF d = sep THEN [done |-> Append(x.done, x.rest), rest |-> <<>>]
               ELSE [done |-> x.done, rest |-> Append(x.rest, d)]

(* One pass of the loop keeps the type of its state. *)
LEMMA CutAtType ==
    ASSUME NEW x \in CutState, NEW sep, NEW d \in Int
    PROVE  cutAt(x, sep, d) \in CutState
<1>1. x.done \in Seq(Str) /\ x.rest \in Str
  BY Zenon DEF CutState
<1>2. Append(x.done, x.rest) \in Seq(Str)
  BY <1>1
<1>3. Append(x.rest, d) \in Str /\ <<>> \in Str
  BY <1>1 DEF Str
<1> QED
  BY <1>1, <1>2, <1>3, Zenon DEF CutState, cutAt

(* The pieces of a string, character by character. *)
LEMMA CutStep ==
    ASSUME NEW sep
    PROVE  /\ cut(<<>>, sep) = [done |-> <<>>, rest |-> <<>>]
           /\ \A s \in Str : /\ cut(s, sep) \in CutState
                            /\ \A d \in Int : cut(Append(s, d), sep) = cutAt(cut(s, sep), sep, d)
<1> DEFINE op == [x \in CutState |-> [d \in Int |-> cutAt(x, sep, d)]]
           a == [done |-> <<>>, rest |-> <<>>]
<1>1. op \in [CutState -> [Int -> CutState]] /\ a \in CutState
  <2>1. <<>> \in Str /\ <<>> \in Seq(Str)
    BY DEF Str
  <2> QED
    BY <2>1, CutAtType, Zenon DEF CutState
<1> HIDE DEF a
<1>2. ASSUME NEW s \in Str PROVE \E p : Loop(p, CutState, a, op, s) /\ cut(s, sep) = p[Len(s)]
  <2> DEFINE eq(p) == p = [i \in 0 .. Len(s) |-> IF i = 0 THEN a ELSE cutAt(p[i - 1], sep, s[i])]
             c == CHOOSE p : eq(p)
  <2>1. PICK p : Loop(p, CutState, a, op, s)
    <3> HIDE DEF op
    <3> QED
      BY <1>1, LoopExists, Zenon DEF Str
  <2>2. Len(s) \in Nat /\ \A i \in 1 .. Len(s) : s[i] \in Int
    BY DEF Str
  <2>3. p \in [0 .. Len(s) -> CutState] /\ p[0] = a /\ \A i \in 1 .. Len(s) : p[i] = op[p[i - 1]][s[i]]
    BY <2>1, Zenon DEF Loop
  <2>4. ASSUME NEW i \in 1 .. Len(s) PROVE p[i] = cutAt(p[i - 1], sep, s[i])
    <3>1. i - 1 \in 0 .. Len(s)
      BY <2>2
    <3>2. p[i - 1] \in CutState
      BY <2>3, <3>1, Zenon
    <3> QED
      BY <2>2, <2>3, <3>2, Zenon
  <2>5. eq(p)
    <3> HIDE DEF op
    <3> QED
      BY <2>2, <2>3, <2>4
  <2>6. eq(c)
    BY <2>5, Zenon
  <2>7. cut(s, sep) = c[Len(s)]
    BY Zenon DEF cut, c, a, cutAt
  <2> HIDE DEF c
  <2>8. c[0] = a /\ \A i \in 1 .. Len(s) : c[i] = cutAt(c[i - 1], sep, s[i])
    BY <2>2, <2>6
  <2>9. LoopEqs(c, CutState, a, op, s)
    BY <2>2, <2>8, Zenon DEF LoopEqs
  <2>10. SameEnd(c, p, s)
    <3> HIDE DEF op
    <3> QED
      BY <2>1, <2>2, <2>9, LoopIs, Zenon
  <2> QED
    BY <2>1, <2>10, <2>7, Zenon DEF SameEnd
<1>3. ASSUME NEW s \in Str, NEW d \in Int
      PROVE  cut(s, sep) \in CutState /\ cut(Append(s, d), sep) = cutAt(cut(s, sep), sep, d)
  <2> DEFINE t == Append(s, d)
  <2>1. t \in Str
    BY DEF Str
  <2>2. Longer(t, s, d)
    BY LongerAppend, Zenon DEF Str
  <2> HIDE DEF op, t
  <2>3. PICK p : Loop(p, CutState, a, op, s) /\ cut(s, sep) = p[Len(s)]
    BY <1>2, Zenon
  <2>4. PICK r : Loop(r, CutState, a, op, t) /\ cut(t, sep) = r[Len(t)]
    BY <1>2, <2>1, Zenon
  <2>5. LastPass(r, t, p, s, CutState, op, d)
    BY <2>2, <2>3, <2>4, LoopAppend, Zenon
  <2>6. p[Len(s)] \in CutState /\ r[Len(t)] = op[p[Len(s)]][d]
    BY <2>5, Zenon DEF LastPass
  <2>7. op[p[Len(s)]][d] = cutAt(p[Len(s)], sep, d)
    BY <2>6, Zenon DEF op
  <2> QED
    BY <2>3, <2>4, <2>6, <2>7, Zenon DEF t
<1>4. cut(<<>>, sep) = a
  <2> HIDE DEF op
  <2>1. <<>> \in Str /\ Len(<<>>) = 0
    BY DEF Str
  <2>2. PICK p : Loop(p, CutState, a, op, <<>>) /\ cut(<<>>, sep) = p[Len(<<>>)]
    BY <1>2, <2>1, Zenon
  <2> QED
    BY <2>1, <2>2, Zenon DEF Loop
<1>5. \A s \in Str : cut(s, sep) \in CutState
  <2>1. 0 \in Int
    OBVIOUS
  <2> QED
    BY <1>3, <2>1, Zenon
<1> QED
  BY <1>3, <1>4, <1>5, Zenon DEF a

(* The strings of a vector, one after the other. *)
LEMMA ConcatStep ==
    /\ concat(<<>>) = <<>>
    /\ \A ss \in Seq(Str) : concat(ss) \in Str
    /\ \A ss, tt \in Seq(Str), x \in Str : Longer(tt, ss, x) => concat(tt) = concat(ss) \o x
<1> DEFINE op == [x \in Str |-> [y \in Str |-> x \o y]]
<1>1. op \in [Str -> [Str -> Str]] /\ <<>> \in Str
  BY DEF Str
<1>2. ASSUME NEW s \in Seq(Str) PROVE \E p : Loop(p, Str, <<>>, op, s) /\ concat(s) = p[Len(s)]
  <2> DEFINE eq(p) == p = [i \in 0 .. Len(s) |-> IF i = 0 THEN <<>> ELSE p[i - 1] \o s[i]]
             c == CHOOSE p : eq(p)
  <2>1. PICK p : Loop(p, Str, <<>>, op, s)
    <3> HIDE DEF op
    <3> QED
      BY <1>1, LoopExists, Zenon
  <2>2. Len(s) \in Nat /\ \A i \in 1 .. Len(s) : s[i] \in Str
    OBVIOUS
  <2>3. p \in [0 .. Len(s) -> Str] /\ p[0] = <<>> /\ \A i \in 1 .. Len(s) : p[i] = op[p[i - 1]][s[i]]
    BY <2>1, Zenon DEF Loop
  <2>4. ASSUME NEW i \in 1 .. Len(s) PROVE p[i] = p[i - 1] \o s[i]
    <3>1. i - 1 \in 0 .. Len(s)
      BY <2>2
    <3>2. p[i - 1] \in Str
      BY <2>3, <3>1, Zenon
    <3> QED
      BY <2>2, <2>3, <3>2, Zenon
  <2>5. eq(p)
    <3>1. \A i \in 0 .. Len(s) : i # 0 => i \in 1 .. Len(s)
      BY <2>2
    <3>2. \A i \in 0 .. Len(s) : p[i] = IF i = 0 THEN <<>> ELSE p[i - 1] \o s[i]
      <4> HIDE DEF op
      <4> QED
        BY <2>3, <2>4, <3>1, Zenon
    <3> QED
      BY <2>3, <3>2, Zenon
  <2>6. eq(c)
    BY <2>5, Zenon
  <2>7. concat(s) = c[Len(s)]
    BY Zenon DEF concat, c
  <2> HIDE DEF c
  <2>8. c[0] = <<>> /\ \A i \in 1 .. Len(s) : c[i] = c[i - 1] \o s[i]
    BY <2>2, <2>6
  <2>9. LoopEqs(c, Str, <<>>, op, s)
    BY <2>2, <2>8, Zenon DEF LoopEqs
  <2>10. SameEnd(c, p, s)
    <3> HIDE DEF op
    <3> QED
      BY <2>1, <2>2, <2>9, LoopIs, Zenon
  <2> QED
    BY <2>1, <2>7, <2>10, Zenon DEF SameEnd
<1>3. ASSUME NEW s \in Seq(Str), NEW t \in Seq(Str), NEW x \in Str, Longer(t, s, x)
      PROVE  concat(s) \in Str /\ concat(t) = concat(s) \o x
  <2> HIDE DEF op
  <2>1. PICK p : Loop(p, Str, <<>>, op, s) /\ concat(s) = p[Len(s)]
    BY <1>2, Zenon
  <2>2. PICK r : Loop(r, Str, <<>>, op, t) /\ concat(t) = r[Len(t)]
    BY <1>2, Zenon
  <2>3. LastPass(r, t, p, s, Str, op, x)
    BY <1>3, <2>1, <2>2, LoopAppend, Zenon
  <2>4. p[Len(s)] \in Str /\ r[Len(t)] = op[p[Len(s)]][x]
    BY <2>3, Zenon DEF LastPass
  <2>5. op[p[Len(s)]][x] = p[Len(s)] \o x
    BY <2>4, Zenon DEF op
  <2> QED
    BY <2>1, <2>2, <2>4, <2>5, Zenon
<1>4. concat(<<>>) = <<>>
  <2> HIDE DEF op
  <2>1. <<>> \in Seq(Str) /\ Len(<<>>) = 0
    OBVIOUS
  <2>2. PICK p : Loop(p, Str, <<>>, op, <<>>) /\ concat(<<>>) = p[Len(<<>>)]
    BY <1>2, <2>1, Zenon
  <2> QED
    BY <2>1, <2>2, Zenon DEF Loop
<1>5. ASSUME NEW s \in Seq(Str) PROVE concat(s) \in Str
  <2>1. Append(s, <<>>) \in Seq(Str)
    BY <1>1
  <2> QED
    BY <1>1, <1>3, <2>1, LongerAppend, Zenon
<1> QED
  BY <1>3, <1>4, <1>5, Zenon

(* Appending to a concatenation appends to its second part. *)
LEMMA ConcatAppend ==
    ASSUME NEW s \in Str, NEW y \in Str, NEW d \in Int
    PROVE  s \o y \in Str /\ s \o Append(y, d) = Append(s \o y, d)
  BY DEF Str

(* A string of digits is a string. *)
LEMMA NatStr ==
    (\A s \in Seq(Nat) : s \in Str) /\ \A d \in Nat : d \in Int
  BY DEF Str

(* The next element ends the prefix that reaches it. *)
PrefixGrows(s, i, T) ==
    SubSeq(s, 1, i) \in Seq(T) /\ s[i + 1] \in T /\ SubSeq(s, 1, i + 1) = Append(SubSeq(s, 1, i), s[i + 1])

LEMMA PrefixAppend ==
    ASSUME NEW T, NEW s \in Seq(T), NEW i \in Nat, i + 1 <= Len(s)
    PROVE  PrefixGrows(s, i, T)
  BY DEF PrefixGrows

(* u is s followed by t. *)
Followed(u, s, t) ==
    /\ u \in Seq(Int) /\ Len(u) = Len(s) + Len(t)
    /\ \A i \in 1 .. Len(s) : u[i] = s[i]
    /\ \A i \in 1 .. Len(t) : u[Len(s) + i] = t[i]

LEMMA ConcatElements ==
    ASSUME NEW s \in Seq(Int), NEW t \in Seq(Int)
    PROVE  Followed(s \o t, s, t)
<1>1. s \o t \in Seq(Int) /\ Len(s \o t) = Len(s) + Len(t)
  OBVIOUS
<1>2. \A i \in 1 .. Len(s) : (s \o t)[i] = s[i]
  OBVIOUS
<1>3. ASSUME NEW i \in 1 .. Len(t) PROVE (s \o t)[Len(s) + i] = t[i]
  OBVIOUS
<1> QED
  BY <1>1, <1>2, <1>3, Zenon DEF Followed

(* A separator that a string begins with may as well end the one before. *)
LEMMA ConcatSeparator ==
    ASSUME NEW s \in Str, NEW sep \in Int, NEW y \in Str
    PROVE  Append(s, sep) \in Str /\ s \o (<<sep>> \o y) = Append(s, sep) \o y /\ <<>> \o y = y
<1> DEFINE t == <<sep>> \o y  a == Append(s, sep)  u == s \o t  v == a \o y  l == Len(s)  n == Len(y)
<1>1. l \in Nat /\ n \in Nat /\ s \in Seq(Int) /\ y \in Seq(Int) /\ <<>> \o y = y
  BY DEF Str
<1>2. t \in Seq(Int) /\ Len(t) = 1 + n /\ t[1] = sep /\ \A i \in 1 .. n : t[1 + i] = y[i]
  BY <1>1
<1>3. a \in Seq(Int) /\ Len(a) = l + 1 /\ a[l + 1] = sep /\ \A i \in 1 .. l : a[i] = s[i]
  BY <1>1
<1> HIDE DEF t, a
<1>4. /\ u \in Seq(Int) /\ Len(u) = l + (1 + n)
      /\ \A i \in 1 .. l : u[i] = s[i]
      /\ \A i \in 1 .. 1 + n : u[l + i] = t[i]
  <2>1. Followed(u, s, t)
    BY <1>1, <1>2, ConcatElements, Zenon
  <2> QED
    BY <1>2, <2>1, Zenon DEF Followed
<1>5. /\ v \in Seq(Int) /\ Len(v) = (l + 1) + n
      /\ \A i \in 1 .. l + 1 : v[i] = a[i]
      /\ \A i \in 1 .. n : v[(l + 1) + i] = y[i]
  <2>1. Followed(v, a, y)
    BY <1>1, <1>3, ConcatElements, Zenon
  <2> QED
    BY <1>3, <2>1, Zenon DEF Followed
<1> HIDE DEF u, v, l, n
<1>6. ASSUME NEW i \in 1 .. l + 1 + n PROVE u[i] = v[i]
  <2>1. CASE i <= l
    <3>1. i \in 1 .. l /\ i \in 1 .. l + 1
      BY <1>1, <2>1
    <3> QED
      BY <1>3, <1>4, <1>5, <3>1, Zenon
  <2>2. CASE i = l + 1
    <3>1. i \in 1 .. l + 1 /\ 1 \in 1 .. 1 + n
      BY <1>1, <2>2
    <3> QED
      BY <1>2, <1>3, <1>4, <1>5, <2>2, <3>1, Zenon
  <2>3. CASE i > l + 1
    <3>1. PICK j \in 1 .. n : i = (l + 1) + j /\ i = l + (1 + j) /\ 1 + j \in 1 .. 1 + n
      <4>1. i - (l + 1) \in 1 .. n
        BY <1>1, <2>3
      <4> QED
        BY <1>1, <4>1
    <3>2. u[l + (1 + j)] = t[1 + j] /\ t[1 + j] = y[j]
      BY <1>2, <1>4, <3>1, Zenon
    <3>3. v[(l + 1) + j] = y[j]
      BY <1>5, Zenon
    <3> QED
      BY <3>1, <3>2, <3>3, Zenon
  <2> QED
    BY <1>1, <2>1, <2>2, <2>3
<1>7. u = v
  BY <1>1, <1>4, <1>5, <1>6
<1>8. a \in Str
  BY <1>3, Zenon DEF Str
<1> QED
  BY <1>1, <1>7, <1>8, Zenon DEF u, v, t, a

(* A string without the separator. *)
Free(sep) == {x \in Str : \A i \in 1 .. Len(x) : x[i] # sep}

(* A string without the separator goes to the rest. *)
LEMMA CutFree ==
    ASSUME NEW sep, NEW s \in Str, NEW x \in Free(sep)
    PROVE  cut(s \o x, sep) = [done |-> cut(s, sep).done, rest |-> cut(s, sep).rest \o x]
<1> DEFINE c == cut(s, sep)
           P(j) == cut(s \o SubSeq(x, 1, j), sep) = [done |-> c.done, rest |-> c.rest \o SubSeq(x, 1, j)]
           S == {j \in Nat : j <= Len(x) => P(j)}
<1>1. c \in CutState /\ c.done \in Seq(Str) /\ c.rest \in Str
  BY CutStep, Zenon DEF CutState
<1> HIDE DEF c
<1>2. x \in Str /\ Len(x) \in Nat /\ \A i \in 1 .. Len(x) : x[i] \in Int /\ x[i] # sep
  BY DEF Free, Str
<1>3. 0 \in S
  <2>1. SubSeq(x, 1, 0) = <<>>
    BY <1>2 DEF Str
  <2>2. s \o <<>> = s /\ c.rest \o <<>> = c.rest
    BY <1>1 DEF Str
  <2>3. c = [done |-> c.done, rest |-> c.rest]
    BY <1>1, Zenon DEF CutState
  <2>4. P(0)
    BY <2>1, <2>2, <2>3, Zenon DEF c
  <2> QED
    BY <2>4, Zenon
<1>4. ASSUME NEW j \in Nat, j \in S PROVE j + 1 \in S
  <2> SUFFICES ASSUME j + 1 <= Len(x) PROVE P(j + 1)
    <3> HIDE DEF P
    <3> QED
      OBVIOUS
  <2> DEFINE y == SubSeq(x, 1, j)  d == x[j + 1]
  <2>1. y \in Str /\ SubSeq(x, 1, j + 1) = Append(y, d)
    BY <1>2, PrefixAppend, Zenon DEF Str, PrefixGrows
  <2>2. d \in Int /\ d # sep
    BY <1>2
  <2>3. cut(s \o y, sep) = [done |-> c.done, rest |-> c.rest \o y]
    <3>1. j <= Len(x)
      BY <1>2
    <3> QED
      BY <1>4, <3>1, Zenon
  <2> HIDE DEF y, d
  <2>4. /\ s \o y \in Str
        /\ s \o Append(y, d) = Append(s \o y, d)
        /\ c.rest \o Append(y, d) = Append(c.rest \o y, d)
    BY <1>1, <2>1, <2>2, ConcatAppend, Zenon
  <2>5. cut(Append(s \o y, d), sep) = cutAt(cut(s \o y, sep), sep, d)
    BY <2>2, <2>4, CutStep, Zenon
  <2>6. cutAt([done |-> c.done, rest |-> c.rest \o y], sep, d)
           = [done |-> c.done, rest |-> Append(c.rest \o y, d)]
    BY <2>2, Zenon DEF cutAt
  <2> QED
    BY <2>1, <2>3, <2>4, <2>5, <2>6, Zenon
<1>5. Nat \subseteq S
  <2> HIDE DEF S
  <2> QED
    BY <1>3, <1>4, Induction, Zenon
<1>6. SubSeq(x, 1, Len(x)) = x /\ Len(x) <= Len(x)
  BY <1>2 DEF Str
<1>7. P(Len(x))
  <2> HIDE DEF P
  <2> QED
    BY <1>2, <1>5, <1>6, Zenon
<1> QED
  BY <1>6, <1>7, Zenon DEF c

(* The first n strings of a vector, each as f writes it. *)
LEMMA FirstLonger ==
    ASSUME NEW n \in Nat, NEW f \in [1 .. n + 1 -> Str]
    PROVE  /\ [i \in 1 .. n |-> f[i]] \in Seq(Str) /\ f \in Seq(Str)
           /\ Longer(f, [i \in 1 .. n |-> f[i]], f[n + 1])
  BY DEF Longer

(* A vector written with a separator after each string is cut into its     *)
(* strings.                                                                *)
LEMMA CutTerminated ==
    ASSUME NEW sep \in Int, NEW strs \in Seq(Free(sep))
    PROVE  cut(concat([i \in DOMAIN strs |-> Append(strs[i], sep)]), sep) = [done |-> strs, rest |-> <<>>]
<1> DEFINE T(n) == [i \in 1 .. n |-> Append(strs[i], sep)]
           P(n) == cut(concat(T(n)), sep) = [done |-> SubSeq(strs, 1, n), rest |-> <<>>]
           S == {n \in Nat : n <= Len(strs) => P(n)}
<1>1. /\ Len(strs) \in Nat /\ DOMAIN strs = 1 .. Len(strs)
      /\ \A i \in 1 .. Len(strs) : strs[i] \in Free(sep) /\ strs[i] \in Str
  BY DEF Free
<1>2. 0 \in S
  <2>1. T(0) = <<>> /\ SubSeq(strs, 1, 0) = <<>>
    OBVIOUS
  <2>2. P(0)
    BY <2>1, ConcatStep, CutStep, Zenon
  <2> QED
    BY <2>2, Zenon
<1>3. ASSUME NEW n \in Nat, n \in S PROVE n + 1 \in S
  <2> SUFFICES ASSUME n + 1 <= Len(strs) PROVE P(n + 1)
    <3> HIDE DEF P
    <3> QED
      OBVIOUS
  <2> DEFINE c == concat(T(n))  x == strs[n + 1]  done == SubSeq(strs, 1, n)
  <2>1. n <= Len(strs) /\ n + 1 \in 1 .. Len(strs) /\ n + 1 \in 1 .. n + 1
    BY <1>1
  <2>2. x \in Free(sep) /\ x \in Str
    BY <1>1, <2>1, Zenon
  <2>3. SubSeq(strs, 1, n + 1) = Append(done, x)
    BY <2>1
  <2>4. T(n + 1) \in [1 .. n + 1 -> Str] /\ T(n + 1)[n + 1] = Append(x, sep)
    <3>1. ASSUME NEW i \in 1 .. n + 1 PROVE Append(strs[i], sep) \in Str
      <4>1. strs[i] \in Str
        BY <1>1
      <4> QED
        BY <4>1 DEF Str
    <3> QED
      BY <2>1, <3>1, Zenon
  <2>5. T(n) = [i \in 1 .. n |-> T(n + 1)[i]]
    OBVIOUS
  <2>6. c \in Str /\ concat(T(n + 1)) = c \o Append(x, sep)
    <3> DEFINE U == T(n + 1)  V == T(n)
    <3>1. V = [i \in 1 .. n |-> U[i]] /\ U \in [1 .. n + 1 -> Str] /\ U[n + 1] = Append(x, sep)
      BY <2>4, <2>5, Zenon
    <3>2. Append(x, sep) \in Str
      BY <2>2 DEF Str
    <3> HIDE DEF U, V, x
    <3>3. V \in Seq(Str) /\ U \in Seq(Str) /\ Longer(U, V, Append(x, sep))
      BY <3>1, FirstLonger, Zenon
    <3>4. concat(V) \in Str /\ concat(U) = concat(V) \o Append(x, sep)
      BY <3>2, <3>3, ConcatStep, Zenon
    <3> QED
      BY <3>4, Zenon DEF U, V
  <2>7. cut(c, sep) = [done |-> done, rest |-> <<>>]
    BY <1>3, <2>1, Zenon
  <2> HIDE DEF c, x, done, T
  <2>8. c \o x \in Str /\ c \o Append(x, sep) = Append(c \o x, sep) /\ <<>> \o x = x
    BY <2>2, <2>6, ConcatAppend, ConcatSeparator
  <2>9. cut(c \o x, sep) = [done |-> done, rest |-> x]
    <3>1. cut(c \o x, sep) = [done |-> cut(c, sep).done, rest |-> cut(c, sep).rest \o x]
      BY <2>2, <2>6, CutFree, Zenon
    <3>2. cut(c, sep).done = done /\ cut(c, sep).rest = <<>>
      BY <2>7
    <3> QED
      BY <2>8, <3>1, <3>2, Zenon
  <2>10. cut(Append(c \o x, sep), sep) = cutAt(cut(c \o x, sep), sep, sep)
    BY <2>8, CutStep, Zenon
  <2>11. cut(Append(c \o x, sep), sep) = [done |-> Append(done, x), rest |-> <<>>]
    <3>1. cutAt([done |-> done, rest |-> x], sep, sep) = [done |-> Append(done, x), rest |-> <<>>]
      BY Zenon DEF cutAt
    <3> QED
      BY <2>9, <2>10, <3>1, Zenon
  <2> QED
    BY <2>3, <2>6, <2>8, <2>11, Zenon
<1>4. Nat \subseteq S
  <2> HIDE DEF S
  <2> QED
    BY <1>2, <1>3, Induction, Zenon
<1>5. SubSeq(strs, 1, Len(strs)) = strs /\ Len(strs) <= Len(strs)
  BY <1>1
<1>6. P(Len(strs))
  <2> HIDE DEF P
  <2> QED
    BY <1>1, <1>4, <1>5, Zenon
<1> QED
  BY <1>1, <1>5, <1>6, Zenon

(* A vector written with a separator between its strings is cut into its   *)
(* strings, as long as none is empty.                                      *)
LEMMA PiecesOfJoin ==
    ASSUME NEW strs \in Seq(Free(Semicolon)), \A i \in DOMAIN strs : strs[i] # <<>>
    PROVE  Pieces(Join(strs), Semicolon) = strs
<1> DEFINE sep == Semicolon
           T(n) == [i \in 1 .. n |-> IF i = 1 THEN strs[1] ELSE <<sep>> \o strs[i]]
           P(n) == cut(concat(T(n)), sep) =
                       IF n = 0 THEN [done |-> <<>>, rest |-> <<>>]
                       ELSE [done |-> SubSeq(strs, 1, n - 1), rest |-> strs[n]]
           S == {n \in Nat : n <= Len(strs) => P(n)}
<1>1. sep \in Int
  BY DEF Semicolon
<1> HIDE DEF sep
<1>2. /\ Len(strs) \in Nat /\ DOMAIN strs = 1 .. Len(strs)
      /\ \A i \in 1 .. Len(strs) : strs[i] \in Free(sep) /\ strs[i] \in Str
  BY DEF Free, sep
<1>3. 0 \in S
  <2>1. T(0) = <<>>
    OBVIOUS
  <2>2. P(0)
    BY <2>1, ConcatStep, CutStep, Zenon
  <2> QED
    BY <2>2, Zenon
<1>4. ASSUME NEW n \in Nat, n \in S PROVE n + 1 \in S
  <2> SUFFICES ASSUME n + 1 <= Len(strs) PROVE P(n + 1)
    <3> HIDE DEF P
    <3> QED
      OBVIOUS
  <2> DEFINE c == concat(T(n))  x == strs[n + 1]  y == T(n + 1)[n + 1]
  <2>1. /\ n <= Len(strs) /\ n + 1 \in 1 .. Len(strs) /\ n + 1 \in 1 .. n + 1
        /\ n + 1 # 0 /\ (n + 1) - 1 = n /\ (n + 1 = 1 <=> n = 0)
    BY <1>2
  <2>2. x \in Free(sep) /\ x \in Str /\ <<sep>> \o x \in Str
    <3>1. x \in Free(sep) /\ x \in Str
      BY <1>2, <2>1, Zenon
    <3> QED
      BY <1>1, <3>1 DEF Str
  <2>3. T(n + 1) \in [1 .. n + 1 -> Str] /\ y = IF n = 0 THEN x ELSE <<sep>> \o x
    <3>1. ASSUME NEW i \in 1 .. n + 1
          PROVE  (IF i = 1 THEN strs[1] ELSE <<sep>> \o strs[i]) \in Str
      <4>1. strs[i] \in Str /\ strs[1] \in Str
        BY <1>2
      <4> QED
        BY <1>1, <4>1 DEF Str
    <3> QED
      BY <2>1, <3>1, Zenon
  <2>4. T(n) = [i \in 1 .. n |-> T(n + 1)[i]]
    OBVIOUS
  <2>5. c \in Str /\ concat(T(n + 1)) = c \o y
    <3> DEFINE U == T(n + 1)  V == T(n)
    <3>1. V = [i \in 1 .. n |-> U[i]] /\ U \in [1 .. n + 1 -> Str] /\ U[n + 1] = y
      BY <2>3, <2>4, Zenon
    <3> HIDE DEF U, V, y, x
    <3>2. y \in Str
      BY <2>2, <2>3
    <3>3. V \in Seq(Str) /\ U \in Seq(Str) /\ Longer(U, V, y)
      BY <3>1, FirstLonger, Zenon
    <3>4. concat(V) \in Str /\ concat(U) = concat(V) \o y
      BY <3>2, <3>3, ConcatStep, Zenon
    <3> QED
      BY <3>4, Zenon DEF U, V
  <2>6. cut(c, sep) = IF n = 0 THEN [done |-> <<>>, rest |-> <<>>]
                      ELSE [done |-> SubSeq(strs, 1, n - 1), rest |-> strs[n]]
    BY <1>4, <2>1, Zenon
  <2> SUFFICES cut(c \o y, sep) = [done |-> SubSeq(strs, 1, n), rest |-> x]
    BY <2>1, <2>5, Zenon
  <2> HIDE DEF c, T, y
  <2>7. CASE n = 0
    <3>1. cut(c, sep).done = <<>> /\ cut(c, sep).rest = <<>> /\ y = x
      BY <2>3, <2>6, <2>7
    <3> HIDE DEF x
    <3>2. cut(c \o x, sep) = [done |-> cut(c, sep).done, rest |-> cut(c, sep).rest \o x]
      BY <2>2, <2>5, CutFree, Zenon
    <3>3. <<>> \o x = x
      BY <2>2 DEF Str
    <3>4. SubSeq(strs, 1, n) = <<>>
      BY <2>7
    <3> QED
      BY <3>1, <3>2, <3>3, <3>4, Zenon
  <2>8. CASE n # 0
    <3> DEFINE d == SubSeq(strs, 1, n - 1)  z == strs[n]  e == Append(c, sep)
    <3>1. y = <<sep>> \o x /\ cut(c, sep) = [done |-> d, rest |-> z]
      BY <2>3, <2>6, <2>8, Zenon
    <3>2. SubSeq(strs, 1, n) = Append(d, z)
      BY <2>1, <2>8
    <3>3. e \in Str /\ c \o (<<sep>> \o x) = e \o x /\ <<>> \o x = x
      BY <1>1, <2>2, <2>5, ConcatSeparator, Zenon
    <3> HIDE DEF d, z, x
    <3>4. cut(e, sep) = cutAt(cut(c, sep), sep, sep)
      BY <1>1, <2>5, CutStep, Zenon
    <3>5. cutAt([done |-> d, rest |-> z], sep, sep) = [done |-> Append(d, z), rest |-> <<>>]
      BY Zenon DEF cutAt
    <3>6. cut(e, sep) = [done |-> Append(d, z), rest |-> <<>>]
      BY <3>1, <3>4, <3>5, Zenon
    <3>7. cut(e, sep).done = Append(d, z) /\ cut(e, sep).rest = <<>>
      BY <3>6
    <3> HIDE DEF e
    <3>8. cut(e \o x, sep) = [done |-> cut(e, sep).done, rest |-> cut(e, sep).rest \o x]
      BY <2>2, <3>3, CutFree, Zenon
    <3> QED
      BY <3>1, <3>2, <3>3, <3>7, <3>8, Zenon
  <2> QED
    BY <2>7, <2>8, Zenon
<1>5. Nat \subseteq S
  <2> HIDE DEF S
  <2> QED
    BY <1>3, <1>4, Induction, Zenon
<1> DEFINE n == Len(strs)
<1>6. P(n) /\ Join(strs) = concat(T(n))
  <2>1. n <= n
    BY <1>2
  <2>2. P(n)
    <3> HIDE DEF P
    <3> QED
      BY <1>2, <1>5, <2>1, Zenon
  <2> QED
    BY <1>2, <2>2, Zenon DEF Join, sep
<1> HIDE DEF T
<1>7. CASE n = 0
  <2>1. strs = <<>> /\ cut(Join(strs), sep).done = <<>> /\ cut(Join(strs), sep).rest = <<>>
    BY <1>6, <1>7
  <2> QED
    BY <2>1, Zenon DEF Pieces, sep
<1>8. CASE n # 0
  <2>1. cut(Join(strs), sep) = [done |-> SubSeq(strs, 1, n - 1), rest |-> strs[n]]
    BY <1>6, <1>8, Zenon
  <2>2. cut(Join(strs), sep).done = SubSeq(strs, 1, n - 1) /\ cut(Join(strs), sep).rest = strs[n]
    BY <2>1
  <2>3. strs[n] # <<>> /\ Append(SubSeq(strs, 1, n - 1), strs[n]) = strs
    BY <1>2, <1>8
  <2> QED
    BY <2>2, <2>3, Zenon DEF Pieces, sep
<1> QED
  BY <1>7, <1>8, Zenon

-----------------------------------------------------------------------------
(* The digits of a number. *)

(* A quotient and a remainder below the divisor are the quotient and the   *)
(* remainder.                                                              *)
Divided(n, d, z, u) == n \div d = z /\ n % d = u

LEMMA DivisionIs ==
    ASSUME NEW d \in Nat \ {0}, NEW z \in Nat, NEW u \in 0 .. d - 1, NEW n \in Nat, n = z * d + u
    PROVE  Divided(n, d, z, u)
<1> DEFINE y == n \div d  w == n % d
<1>1. y \in Int /\ w \in 0 .. d - 1 /\ n = y * d + w
  BY SMT
<1> HIDE DEF y, w
<1>2. (y - z) * d = u - w
  <2>1. (y - z) * d = y * d - z * d
    BY <1>1, SMT
  <2> QED
    BY <1>1, <2>1, SMT
<1>3. y - z = 0
  <2> DEFINE e == y - z
  <2>1. e \in Int /\ e * d = u - w /\ u - w < d /\ u - w > -d
    BY <1>1, <1>2, SMT
  <2> HIDE DEF e
  <2>2. e >= 1 => e * d >= d
    BY <2>1, SMT
  <2>3. e <= -1 => e * d <= -d
    BY <2>1, SMT
  <2>4. e = 0
    BY <2>1, <2>2, <2>3, SMT
  <2> QED
    BY <2>4, Zenon DEF e
<1>4. y = z
  BY <1>1, <1>3, SMT
<1>5. w = u
  BY <1>1, <1>4, SMT
<1> QED
  BY <1>4, <1>5, Zenon DEF y, w, Divided

(* Division with a remainder. *)
LEMMA Division ==
    ASSUME NEW n \in Nat, NEW d \in Nat \ {0}
    PROVE  n \div d \in Nat /\ n % d \in 0 .. d - 1 /\ n = (n \div d) * d + (n % d)
<1>1. n \div d \in Int /\ n % d \in 0 .. d - 1 /\ n = (n \div d) * d + (n % d)
  BY SMT
<1> DEFINE y == n \div d  w == n % d
<1>2. y >= 0
  <2> HIDE DEF y, w
  <2>1. y \in Int /\ w \in 0 .. d - 1 /\ n = y * d + w
    BY <1>1, Zenon DEF y, w
  <2>2. y <= -1 => y * d <= -d
    BY <2>1, SMT
  <2> QED
    BY <2>1, <2>2, SMT
<1> QED
  BY <1>1, <1>2

(* Dividing twice is dividing by the product. *)
LEMMA DivideTwice ==
    ASSUME NEW n \in Nat, NEW p \in Nat \ {0}, NEW b \in Nat \ {0}
    PROVE  n \div (p * b) = (n \div p) \div b
<1> DEFINE y == n \div p  r == n % p  z == y \div b  w == y % b  u == w * p + r
<1>1. y \in Nat /\ r \in 0 .. p - 1 /\ n = y * p + r
  BY Division, Zenon
<1> HIDE DEF y, r
<1>2. z \in Nat /\ w \in 0 .. b - 1 /\ y = z * b + w
  BY <1>1, Division, Zenon
<1> HIDE DEF z, w
<1>3. p * b \in Nat \ {0}
  BY SMT
<1>4. w * p >= 0 /\ w * p <= (b - 1) * p
  BY <1>2, SMT
<1>5. (b - 1) * p = p * b - p
  BY SMT
<1>6. u \in 0 .. p * b - 1
  <2>1. u \in Int /\ p * b \in Int /\ w * p \in Int
    BY <1>1, <1>2, SMT
  <2> QED
    BY <1>1, <1>4, <1>5, <2>1, SMT
<1>7. n = z * (p * b) + u
  <2>1. (z * b + w) * p = z * (p * b) + w * p
    BY <1>2, SMT
  <2>2. z * (p * b) \in Int /\ w * p \in Int /\ r \in Int
    BY <1>1, <1>2, SMT
  <2> QED
    BY <1>1, <1>2, <2>1, <2>2, SMT
<1> HIDE DEF u
<1>8. Divided(n, p * b, z, u)
  BY <1>2, <1>3, <1>6, <1>7, DivisionIs, Zenon
<1> QED
  BY <1>8, Zenon DEF Divided, y, z

(* s is n in base b, with len digits: as many as n needs, and at least one. *)
Spells(s, n, b, len) ==
    /\ len \in Nat \ {0} /\ s \in [1 .. len -> 0 .. b - 1]
    /\ n < Power(b, len) /\ (len = 1 \/ n >= Power(b, len - 1))
    /\ \A i \in 1 .. len : s[i] = (n \div Power(b, len - i)) % b

(* Digits spells its argument. *)
LEMMA DigitsSpell ==
    ASSUME NEW n \in Nat, NEW b \in Nat \ {0, 1}
    PROVE  \E len : Spells(Digits(n, b), n, b, len)
<1> DEFINE fits(k) == n < Power(b, k) /\ (k = 1 \/ n >= Power(b, k - 1))
           S == {k \in Nat : n < Power(b, k + 1) => \E l \in 1 .. k + 1 : fits(l)}
<1>1. \A k \in Nat : Power(b, k) \in Nat \ {0} /\ k < Power(b, k)
  BY PowerGrows, Zenon
<1>2. 0 \in S
  OBVIOUS
<1>3. ASSUME NEW k \in Nat, k \in S PROVE k + 1 \in S
  <2> SUFFICES ASSUME n < Power(b, k + 2) PROVE \E l \in 1 .. k + 2 : fits(l)
    <3> HIDE DEF fits
    <3>1. (k + 1) + 1 = k + 2
      OBVIOUS
    <3> QED
      BY <3>1
  <2>1. CASE n < Power(b, k + 1)
    <3>1. PICK l \in 1 .. k + 1 : fits(l)
      BY <1>3, <2>1, Zenon
    <3>2. l \in 1 .. k + 2
      BY <3>1
    <3> QED
      BY <3>1, <3>2, Zenon
  <2>2. CASE ~ (n < Power(b, k + 1))
    <3>1. k + 2 \in 1 .. k + 2 /\ (k + 2) - 1 = k + 1 /\ Power(b, k + 1) \in Nat
      BY <1>1
    <3>2. n >= Power(b, (k + 2) - 1)
      BY <2>2, <3>1
    <3> QED
      BY <3>1, <3>2, Zenon
  <2> QED
    BY <2>1, <2>2, Zenon
<1>4. Nat \subseteq S
  <2> HIDE DEF S
  <2> QED
    BY <1>2, <1>3, Induction, Zenon
<1>5. n < Power(b, n + 1)
  BY <1>1
<1>6. \E l \in 1 .. n + 1 : fits(l)
  BY <1>4, <1>5, Zenon
<1> DEFINE len == CHOOSE k \in 1 .. n + 1 : fits(k)
<1>7. len \in 1 .. n + 1 /\ fits(len)
  BY <1>6, Zenon
<1>8. Digits(n, b) = [i \in 1 .. len |-> (n \div Power(b, len - i)) % b]
  BY Zenon DEF Digits
<1> HIDE DEF len
<1>9. ASSUME NEW i \in 1 .. len PROVE (n \div Power(b, len - i)) % b \in 0 .. b - 1
  <2>1. len - i \in Nat
    BY <1>7
  <2>2. n \div Power(b, len - i) \in Nat
    BY <1>1, <2>1, Division, Zenon
  <2>3. b \in Nat \ {0}
    OBVIOUS
  <2> QED
    BY <2>2, <2>3, Division, Zenon
<1>10. len \in Nat \ {0}
  BY <1>7
<1>11. Spells(Digits(n, b), n, b, len)
  BY <1>7, <1>8, <1>9, <1>10, Zenon DEF Spells
<1> QED
  BY <1>11, Zenon

(* The first j digits of n are worth n without its other digits. *)
PrefixWorth(s, j, n, b, len) ==
    SubSeq(s, 1, j) \in Seq(Nat) /\ Value(SubSeq(s, 1, j), b) = n \div Power(b, len - j)

LEMMA PrefixValue ==
    ASSUME NEW n \in Nat, NEW b \in Nat \ {0, 1}, NEW s, NEW len, Spells(s, n, b, len), NEW j \in 0 .. len
    PROVE  PrefixWorth(s, j, n, b, len)
<1> DEFINE v(i) == Value(SubSeq(s, 1, i), b)
           P(i) == v(i) = n \div Power(b, len - i)
           S == {i \in Nat : i <= len => P(i)}
<1>1. \A k \in Nat : Power(b, k) \in Nat \ {0} /\ Power(b, k + 1) = Power(b, k) * b
  BY PowerGrows, PowerStep, Zenon
<1>2. len \in Nat \ {0} /\ s \in Seq(Nat) /\ Len(s) = len /\ n < Power(b, len)
  <2>1. len \in Nat \ {0} /\ s \in [1 .. len -> 0 .. b - 1] /\ n < Power(b, len)
    BY Zenon DEF Spells
  <2>2. 0 .. b - 1 \subseteq Nat
    OBVIOUS
  <2>3. s \in [1 .. len -> Nat]
    BY <2>1, <2>2, Zenon
  <2> QED
    BY <2>1, <2>3
<1>3. \A i \in 0 .. len : SubSeq(s, 1, i) \in Seq(Nat)
  BY <1>2
<1>4. 0 \in S
  <2>1. SubSeq(s, 1, 0) = <<>> /\ len - 0 = len
    BY <1>2
  <2>2. n \div Power(b, len) = 0
    <3> DEFINE d == Power(b, len)
    <3>1. len \in Nat /\ d \in Nat \ {0} /\ n < d
      BY <1>1, <1>2, Zenon
    <3> HIDE DEF d
    <3>2. n = 0 * d + n
      BY <3>1
    <3>3. Divided(n, d, 0, n)
      <4>1. 0 \in Nat /\ n \in 0 .. d - 1
        BY <3>1
      <4> QED
        BY <3>1, <3>2, <4>1, DivisionIs, Zenon
    <3> QED
      BY <3>3, Zenon DEF Divided, d
  <2>3. b \in Nat
    OBVIOUS
  <2>4. Value(<<>>, b) = 0
    BY <2>3, ValueStep, Zenon
  <2>5. P(0)
    BY <2>1, <2>2, <2>4, Zenon
  <2> QED
    BY <2>5, Zenon
<1>5. ASSUME NEW i \in Nat, i \in S PROVE i + 1 \in S
  <2> SUFFICES ASSUME i + 1 <= len PROVE P(i + 1)
    <3> HIDE DEF P
    <3> QED
      OBVIOUS
  <2> DEFINE k == len - (i + 1)  p == Power(b, k)  y == n \div p
  <2>1. k \in Nat /\ len - i = k + 1 /\ i <= len /\ i + 1 \in 1 .. len /\ i \in 0 .. len
    BY <1>2
  <2>2. SubSeq(s, 1, i + 1) = Append(SubSeq(s, 1, i), s[i + 1]) /\ s[i + 1] \in Nat
    BY <1>2, <2>1
  <2>3. s[i + 1] = y % b
    BY <2>1, Zenon DEF Spells
  <2> HIDE DEF k
  <2>4. p \in Nat \ {0} /\ Power(b, len - i) = p * b
    BY <1>1, <2>1, Zenon
  <2>5. v(i) = n \div (p * b)
    BY <1>5, <2>1, <2>4, Zenon
  <2> HIDE DEF p
  <2>6. y \in Nat /\ v(i) = y \div b /\ b \in Nat \ {0} /\ b \in Nat
    <3>1. b \in Nat \ {0} /\ b \in Nat
      OBVIOUS
    <3> QED
      BY <2>4, <2>5, <3>1, Division, DivideTwice, Zenon
  <2>7. v(i + 1) = v(i) * b + s[i + 1]
    <3> DEFINE t == SubSeq(s, 1, i)  d == s[i + 1]
    <3>1. t \in Seq(Nat) /\ b \in Nat /\ d \in Nat
      BY <1>3, <2>1, <2>2, <2>6, Zenon
    <3>2. SubSeq(s, 1, i + 1) = Append(t, d)
      BY <2>2, Zenon
    <3> HIDE DEF t, d
    <3>3. Value(Append(t, d), b) = Value(t, b) * b + d
      BY <3>1, ValueStep, Zenon
    <3> QED
      BY <3>2, <3>3, Zenon DEF t, d
  <2>8. y = (y \div b) * b + (y % b)
    BY <2>6, Division, Zenon
  <2>9. v(i + 1) = y
    <3> HIDE DEF v, y
    <3> QED
      BY <2>3, <2>6, <2>7, <2>8, Zenon
  <2> QED
    BY <2>9, Zenon DEF p, k
<1>6. Nat \subseteq S
  <2> HIDE DEF S
  <2> QED
    BY <1>4, <1>5, Induction, Zenon
<1>7. j \in Nat /\ j <= len
  BY <1>2
<1> QED
  BY <1>3, <1>6, <1>7, Zenon DEF PrefixWorth

(* The product of two powers. *)
LEMMA PowerSum ==
    ASSUME NEW b \in Nat \ {0, 1}, NEW k \in Nat, NEW l \in Nat
    PROVE  Power(b, k + l) = Power(b, k) * Power(b, l)
<1> DEFINE S == {i \in Nat : Power(b, k + i) = Power(b, k) * Power(b, i)}
<1>1. \A i \in Nat : Power(b, i) \in Nat /\ Power(b, i + 1) = Power(b, i) * b /\ Power(b, 0) = 1
  BY PowerStep
<1>2. 0 \in S
  <2>1. Power(b, k) \in Nat /\ Power(b, 0) = 1 /\ k + 0 = k
    BY <1>1
  <2>2. Power(b, k) = Power(b, k) * 1
    BY <2>1
  <2> QED
    BY <2>1, <2>2
<1>3. ASSUME NEW i \in Nat, i \in S PROVE i + 1 \in S
  <2> DEFINE x == Power(b, k)  y == Power(b, i)
  <2>1. k + i \in Nat /\ k + (i + 1) = (k + i) + 1 /\ i + 1 \in Nat
    OBVIOUS
  <2>2. /\ x \in Nat /\ y \in Nat /\ Power(b, i + 1) = y * b
        /\ Power(b, k + (i + 1)) = (x * y) * b
    BY <1>1, <1>3, <2>1, Zenon
  <2> HIDE DEF x, y
  <2>3. (x * y) * b = x * (y * b)
    BY <2>2, SMT
  <2> QED
    BY <2>1, <2>2, <2>3, Zenon DEF x
<1>4. Nat \subseteq S
  <2> HIDE DEF S
  <2> QED
    BY <1>2, <1>3, Induction, Zenon
<1> QED
  BY <1>4, Zenon

(* Powers are ordered as their exponents. *)
LEMMA PowerMonotonic ==
    ASSUME NEW b \in Nat \ {0, 1}, NEW k \in Nat, NEW l \in Nat, k <= l
    PROVE  Power(b, k) <= Power(b, l)
<1> DEFINE S == {i \in Nat : Power(b, k) <= Power(b, k + i)}
<1>1. \A i \in Nat : Power(b, i) \in Nat \ {0} /\ Power(b, i + 1) = Power(b, i) * b
  BY PowerGrows, PowerStep, Zenon
<1>2. 0 \in S
  BY <1>1
<1>3. ASSUME NEW i \in Nat, i \in S PROVE i + 1 \in S
  <2> DEFINE x == Power(b, k + i)
  <2>1. k + i \in Nat /\ k + (i + 1) = (k + i) + 1 /\ k + (i + 1) \in Nat
    OBVIOUS
  <2>2. x \in Nat /\ Power(b, k + (i + 1)) = x * b /\ Power(b, k) \in Nat /\ Power(b, k) <= x
    BY <1>1, <1>3, <2>1, Zenon
  <2> HIDE DEF x
  <2>3. x * b >= x
    BY <2>2, SMT
  <2>4. Power(b, k) <= Power(b, k + (i + 1))
    BY <2>2, <2>3
  <2> QED
    BY <2>4
<1>4. Nat \subseteq S
  <2> HIDE DEF S
  <2> QED
    BY <1>2, <1>3, Induction, Zenon
<1>5. l - k \in Nat /\ k + (l - k) = l
  OBVIOUS
<1> QED
  BY <1>4, <1>5, Zenon

(* What the digits of n are worth, how many they are, and the first. *)
LEMMA DigitsAre ==
    ASSUME NEW n \in Nat, NEW b \in Nat \ {0, 1}
    PROVE  /\ Digits(n, b) \in Seq(0 .. b - 1) /\ Len(Digits(n, b)) \in Nat \ {0}
           /\ Value(Digits(n, b), b) = n
           /\ Len(Digits(n, b)) > 1 => Digits(n, b)[1] # 0
           /\ \A k \in Nat \ {0} : n < Power(b, k) => Len(Digits(n, b)) <= k
<1> DEFINE s == Digits(n, b)
<1>1. PICK len : Spells(s, n, b, len)
  BY DigitsSpell, Zenon
<1>2. /\ len \in Nat \ {0} /\ s \in [1 .. len -> 0 .. b - 1]
      /\ len = 1 \/ n >= Power(b, len - 1)
  BY <1>1, Zenon DEF Spells
<1> HIDE DEF s
<1>3. s \in Seq(0 .. b - 1) /\ Len(s) = len /\ s[1] \in Nat
  BY <1>2
<1>4. Value(s, b) = n
  <2>1. SubSeq(s, 1, len) = s /\ len - len = 0 /\ len \in 0 .. len
    BY <1>2, <1>3
  <2>2. PrefixWorth(s, len, n, b, len)
    BY <1>1, <2>1, PrefixValue, Zenon
  <2>3. Power(b, 0) = 1 /\ n \div 1 = n
    <3>1. Power(b, 0) = 1
      BY PowerStep
    <3> QED
      BY <3>1
  <2> QED
    BY <2>1, <2>2, <2>3, Zenon DEF PrefixWorth
<1>5. ASSUME len > 1 PROVE s[1] # 0
  <2> DEFINE p == Power(b, len - 1)
  <2>1. SubSeq(s, 1, 1) = Append(<<>>, s[1])
    <3>1. SubSeq(s, 1, 1) = Append(SubSeq(s, 1, 0), s[1])
      BY <1>2, <1>3, <1>5
    <3>2. SubSeq(s, 1, 0) = <<>>
      BY <1>3
    <3> QED
      BY <3>1, <3>2, Zenon
  <2>2. 1 \in 0 .. len /\ len - 1 \in Nat /\ b \in Nat /\ <<>> \in Seq(Nat) /\ 0 * b + s[1] = s[1]
    BY <1>2, <1>3, <1>5
  <2>3. PrefixWorth(s, 1, n, b, len)
    BY <1>1, <2>2, PrefixValue, Zenon
  <2>4. Value(Append(<<>>, s[1]), b) = Value(<<>>, b) * b + s[1] /\ Value(<<>>, b) = 0
    BY <1>3, <2>2, ValueStep, Zenon
  <2>5. s[1] = n \div p
    BY <2>1, <2>2, <2>3, <2>4, Zenon DEF PrefixWorth
  <2>6. p \in Nat \ {0} /\ n >= p
    <3>1. p \in Nat \ {0}
      BY <2>2, PowerGrows, Zenon
    <3> QED
      BY <1>2, <1>5, <3>1
  <2> HIDE DEF p
  <2>7. n % p \in 0 .. p - 1 /\ n = (n \div p) * p + (n % p)
    BY <2>6, Division, Zenon
  <2> DEFINE y == n \div p  w == n % p
  <2>8. y = 0 => n = w
    <3> HIDE DEF y, w
    <3>1. w \in 0 .. p - 1 /\ n = y * p + w
      BY <2>7, Zenon DEF y, w
    <3> QED
      BY <2>6, <3>1
  <2> QED
    BY <2>5, <2>6, <2>7, <2>8
<1>6. ASSUME NEW k \in Nat \ {0}, n < Power(b, k), ~ (len <= k) PROVE FALSE
  <2>1. len - 1 \in Nat /\ k \in Nat /\ k <= len - 1 /\ n >= Power(b, len - 1)
    BY <1>2, <1>6
  <2>2. Power(b, k) <= Power(b, len - 1) /\ Power(b, k) \in Nat \ {0} /\ Power(b, len - 1) \in Nat \ {0}
    BY <2>1, PowerMonotonic, PowerGrows, Zenon
  <2> QED
    BY <1>6, <2>1, <2>2
<1> QED
  BY <1>2, <1>3, <1>4, <1>5, <1>6, Zenon DEF s

(* Leading zeros are worth nothing. *)
LEMMA PadIs ==
    ASSUME NEW b \in Nat \ {0, 1}, NEW s \in Seq(0 .. b - 1), NEW len \in Nat
    PROVE  /\ Pad(s, len) \in Seq(0 .. b - 1) /\ Value(Pad(s, len), b) = Value(s, b)
           /\ Len(s) <= len => Len(Pad(s, len)) = len
           /\ Len(s) > len => Pad(s, len) = s
<1>1. CASE ~ (Len(s) < len)
  BY <1>1 DEF Pad
<1>2. CASE Len(s) < len
  <2> DEFINE k == len - Len(s)
             z(i) == [h \in 1 .. i |-> 0]
             S == {i \in Nat : Value(z(i), b) = 0}
             Q == {i \in Nat : i <= Len(s) => Value(z(k) \o SubSeq(s, 1, i), b) = Value(SubSeq(s, 1, i), b)}
  <2>1. k \in Nat /\ Len(s) \in Nat /\ b \in Nat /\ s \in Seq(Nat)
    BY <1>2
  <2>2. \A i \in Nat : z(i) \in Seq(Nat) /\ z(i + 1) = Append(z(i), 0) /\ z(0) = <<>>
    OBVIOUS
  <2>3. 0 \in S
    BY <2>1, <2>2, ValueStep, Zenon
  <2>4. ASSUME NEW i \in Nat, i \in S PROVE i + 1 \in S
    <3> HIDE DEF z
    <3>1. Value(Append(z(i), 0), b) = Value(z(i), b) * b + 0 /\ Value(z(i), b) = 0
      <4>1. 0 \in Nat
        OBVIOUS
      <4> QED
        BY <2>1, <2>2, <2>4, <4>1, ValueStep, Zenon
    <3>2. 0 * b + 0 = 0 /\ i + 1 \in Nat
      BY <2>1
    <3> QED
      BY <2>2, <3>1, <3>2, Zenon
  <2>5. Value(z(k), b) = 0 /\ z(k) \in Seq(Nat)
    <3>1. Nat \subseteq S
      <4> HIDE DEF S
      <4> QED
        BY <2>3, <2>4, Induction, Zenon
    <3> QED
      BY <2>1, <2>2, <3>1, Zenon
  <2>6. Pad(s, len) = z(k) \o s
    BY <1>2, Zenon DEF Pad
  <2>7. z(k) \o s \in Seq(0 .. b - 1) /\ Len(z(k) \o s) = len
    BY <2>1
  <2> HIDE DEF z, k
  <2>8. 0 \in Q
    <3>1. SubSeq(s, 1, 0) = <<>> /\ z(k) \o <<>> = z(k)
      BY <2>1, <2>5
    <3> QED
      BY <2>1, <2>5, <3>1, ValueStep, Zenon
  <2>9. ASSUME NEW i \in Nat, i \in Q PROVE i + 1 \in Q
    <3> SUFFICES ASSUME i + 1 <= Len(s)
                 PROVE  Value(z(k) \o SubSeq(s, 1, i + 1), b) = Value(SubSeq(s, 1, i + 1), b)
      OBVIOUS
    <3> DEFINE t == SubSeq(s, 1, i)  d == s[i + 1]
    <3>1. t \in Seq(Nat) /\ d \in Nat /\ SubSeq(s, 1, i + 1) = Append(t, d) /\ i <= Len(s)
      <4>1. PrefixGrows(s, i, Nat)
        BY <2>1, PrefixAppend, Zenon
      <4>2. i <= Len(s)
        BY <2>1
      <4> QED
        BY <4>1, <4>2, Zenon DEF PrefixGrows
    <3>2. Value(z(k) \o t, b) = Value(t, b)
      BY <2>9, <3>1, Zenon
    <3> HIDE DEF t, d
    <3>3. z(k) \o t \in Seq(Nat) /\ z(k) \o Append(t, d) = Append(z(k) \o t, d)
      <4>1. z(k) \in Str /\ t \in Str /\ d \in Int
        BY <2>5, <3>1, NatStr, Zenon
      <4>2. z(k) \o t \in Seq(Nat)
        BY <2>5, <3>1
      <4> QED
        BY <4>1, <4>2, ConcatAppend, Zenon
    <3>4. /\ Value(Append(z(k) \o t, d), b) = Value(z(k) \o t, b) * b + d
          /\ Value(Append(t, d), b) = Value(t, b) * b + d
      BY <2>1, <3>1, <3>3, ValueStep, Zenon
    <3> QED
      BY <3>1, <3>2, <3>3, <3>4, Zenon
  <2>10. Nat \subseteq Q
    <3> HIDE DEF Q
    <3> QED
      BY <2>8, <2>9, Induction, Zenon
  <2>11. SubSeq(s, 1, Len(s)) = s /\ Len(s) <= Len(s)
    BY <2>1
  <2>12. Value(z(k) \o s, b) = Value(s, b)
    BY <2>1, <2>10, <2>11, Zenon
  <2> QED
    BY <1>2, <2>6, <2>7, <2>12
<1> QED
  BY <1>1, <1>2, Zenon

-----------------------------------------------------------------------------
(* The conversions of numbers. *)

(* mpz_to_str and back. *)
LEMMA NumberArrives ==
    ASSUME NEW n \in Nat
    PROVE  str_to_mpz(mpz_to_str(n)) = n
  BY CodecAssumption, DigitsAre, Zenon DEF str_to_mpz, mpz_to_str

(* A BIG keeps its value as an mpz_class. *)
LEMMA BIGArrives ==
    ASSUME NEW n \in Nat
    PROVE  BIG_to_mpz(n) = n
<1>1. Hex \in Nat \ {0, 1} /\ BigLen \in Nat
  BY CodecAssumption
<1> DEFINE s == Digits(n, Hex)
<1>2. s \in Seq(0 .. Hex - 1) /\ Value(s, Hex) = n
  BY <1>1, DigitsAre, Zenon
<1> HIDE DEF s
<1>3. Value(Pad(s, BigLen), Hex) = Value(s, Hex)
  BY <1>1, <1>2, PadIs, Zenon
<1> QED
  BY <1>2, <1>3, Zenon DEF BIG_to_mpz, s

(* A number of at most BigLen digits is read back as a BIG. *)
LEMMA CoordinateArrives ==
    ASSUME NEW n \in Nat, n < Power(Hex, BigLen)
    PROVE  str_to_BIG(mpz_to_str(n)) = n
<1>1. Hex \in Nat \ {0, 1} /\ BigLen \in Nat /\ BigLen \in Nat \ {0}
  BY CodecAssumption
<1> DEFINE s == Digits(n, Hex)  t == Pad(s, BigLen)
<1>2. s \in Seq(0 .. Hex - 1) /\ Value(s, Hex) = n /\ Len(s) <= BigLen
  BY <1>1, DigitsAre, Zenon
<1> HIDE DEF s
<1>3. t \in Seq(0 .. Hex - 1) /\ Value(t, Hex) = Value(s, Hex) /\ Len(t) = BigLen
  BY <1>1, <1>2, PadIs, Zenon
<1> HIDE DEF t
<1>4. SubSeq(t, 1, BigLen) = t
  BY <1>1, <1>3
<1> QED
  BY <1>2, <1>3, <1>4, Zenon DEF str_to_BIG, mpz_to_str, s, t

(* What mpz_to_BIG makes of a number: the number, or its leading digits. *)
LeadingDigits(n, len) ==
    \E k \in 0 .. len :
        /\ mpz_to_BIG(n) = n \div Power(Hex, k)
        /\ k = 0 <=> n < Power(Hex, ScalarLen)
        /\ k > 0 => mpz_to_BIG(n) >= Power(Hex, ScalarLen - 1)

LEMMA MpzToBIG ==
    ASSUME NEW n \in Nat
    PROVE  LeadingDigits(n, Len(Digits(n, Hex))) /\ mpz_to_BIG(n) \in Nat
<1> DEFINE b == Hex  l == ScalarLen  s == Digits(n, b)  big == mpz_to_BIG(n)
<1>1. b \in Nat \ {0, 1} /\ b \in Nat /\ l \in Nat \ {0} /\ l \in Nat /\ l - 1 \in Nat
  BY CodecAssumption
<1>2. PICK len : Spells(s, n, b, len)
  BY <1>1, DigitsSpell, Zenon
<1>3. len \in Nat \ {0} /\ s \in [1 .. len -> 0 .. b - 1] /\ n < Power(b, len) /\ (len = 1 \/ n >= Power(b, len - 1))
  BY <1>2, Zenon DEF Spells
<1>4. Value(s, b) = n /\ (n < Power(b, l) => Len(s) <= l)
  BY <1>1, DigitsAre, Zenon
<1>5. big = Value(SubSeq(Pad(s, l), 1, l), b)
  BY Zenon DEF mpz_to_BIG
<1> HIDE DEF s, b, l, big
<1>6. s \in Seq(0 .. b - 1) /\ s \in Seq(Nat) /\ Len(s) = len
  BY <1>1, <1>3
<1>7. \A k \in Nat : Power(b, k) \in Nat \ {0}
  BY <1>1, PowerGrows, Zenon
<1>8. CASE len <= l
  <2>1. Pad(s, l) \in Seq(0 .. b - 1) /\ Value(Pad(s, l), b) = Value(s, b) /\ Len(Pad(s, l)) = l
    BY <1>1, <1>6, <1>8, PadIs, Zenon
  <2>2. SubSeq(Pad(s, l), 1, l) = Pad(s, l)
    BY <1>1, <2>1
  <2>3. big = n
    BY <1>4, <1>5, <2>1, <2>2, Zenon
  <2>4. Power(b, 0) = 1 /\ n \div 1 = n
    <3>1. Power(b, 0) = 1
      BY <1>1, PowerStep, Zenon
    <3> QED
      BY <3>1
  <2>5. n < Power(b, l)
    <3>1. Power(b, len) <= Power(b, l)
      BY <1>1, <1>3, <1>8, PowerMonotonic
    <3> QED
      BY <1>1, <1>3, <1>7, <3>1
  <2>6. 0 \in 0 .. len /\ ~ (0 > 0)
    BY <1>3
  <2>7. \E k \in 0 .. len : big = n \div Power(b, k) /\ (k = 0 <=> n < Power(b, l)) /\ (k > 0 => big >= Power(b, l - 1))
    BY <2>3, <2>4, <2>5, <2>6, Zenon
  <2> QED
    BY <1>6, <2>3, <2>7, Zenon DEF LeadingDigits, s, b, l, big
<1>9. CASE ~ (len <= l)
  <2> DEFINE k == len - l  p == Power(b, k)
  <2>1. k \in 0 .. len /\ k \in Nat /\ k # 0 /\ l \in 0 .. len /\ len - l = k /\ Len(s) > l /\ len - 1 = k + (l - 1)
    BY <1>1, <1>3, <1>6, <1>9
  <2>2. Pad(s, l) = s
    BY <1>1, <1>6, <2>1, PadIs, Zenon
  <2>3. PrefixWorth(s, l, n, b, len)
    BY <1>1, <1>2, <2>1, PrefixValue, Zenon
  <2>4. big = n \div p
    BY <1>5, <2>2, <2>3, Zenon DEF PrefixWorth
  <2>5. ~ (n < Power(b, l))
    BY <1>4, <1>6, <1>9, Zenon
  <2>6. p \in Nat \ {0} /\ Power(b, l - 1) \in Nat \ {0}
    BY <1>1, <1>7, <2>1, Zenon
  <2>7. n >= p * Power(b, l - 1)
    <3>1. Power(b, k + (l - 1)) = Power(b, k) * Power(b, l - 1)
      BY <1>1, <2>1, PowerSum, Zenon
    <3>2. len # 1
      BY <1>1, <1>3, <1>9
    <3> QED
      BY <1>3, <2>1, <3>1, <3>2, Zenon
  <2> HIDE DEF p
  <2>8. big \in Nat /\ n % p \in 0 .. p - 1 /\ n = big * p + (n % p)
    BY <2>4, <2>6, Division, Zenon
  <2>9. big >= Power(b, l - 1)
    <3> DEFINE y == Power(b, l - 1)  w == n % p
    <3>1. big \in Nat /\ y \in Nat /\ p \in Nat \ {0} /\ w \in 0 .. p - 1 /\ n = big * p + w /\ n >= p * y
      BY <2>6, <2>7, <2>8, Zenon
    <3> HIDE DEF y, w
    <3>2. y - big >= 1 => (y - big) * p >= p
      BY <3>1, SMT
    <3>3. (y - big) * p = p * y - big * p
      BY <3>1, SMT
    <3>4. p * y \in Int /\ big * p \in Int
      BY <3>1, SMT
    <3>5. big >= y
      BY <3>1, <3>2, <3>3, <3>4, SMT
    <3> QED
      BY <3>5, Zenon DEF y
  <2>10. \E i \in 0 .. len : big = n \div Power(b, i) /\ (i = 0 <=> n < Power(b, l)) /\ (i > 0 => big >= Power(b, l - 1))
    BY <2>1, <2>4, <2>5, <2>9, Zenon DEF p
  <2> QED
    BY <1>6, <2>8, <2>10, Zenon DEF LeadingDigits, s, b, l, big
<1> QED
  BY <1>8, <1>9, Zenon

-----------------------------------------------------------------------------
(* Vectors of numbers. *)

(* mpz_class reads the decimal digits of a number as that number: none of  *)
(* more than one digit starts with 0.                                      *)
LEMMA ItemArrives ==
    ASSUME NEW n \in Nat
    PROVE  Digits(n, Dec) \in Free(Comma) /\ parse(Digits(n, Dec)) = n
<1> DEFINE s == Digits(n, Dec)
<1>1. /\ s \in Seq(0 .. Dec - 1) /\ Value(s, Dec) = n /\ (Len(s) > 1 => s[1] # 0)
      /\ Dec \in Nat \ {0, 1}
  BY CodecAssumption, DigitsAre, Zenon
<1> HIDE DEF s
<1>2. s \in Free(Comma)
  BY <1>1 DEF Free, Str, Comma
<1>3. parse(s) = n
  BY <1>1, Zenon DEF parse
<1> QED
  BY <1>2, <1>3, Zenon DEF s

(* A vector of numbers of any length and any size is read back as it was   *)
(* written (mpzArr_to_str, str_to_mpzArr).                                 *)
THEOREM NumberVectorArrives ==
    \A mpzs \in Seq(Nat) : str_to_mpzArr(mpzArr_to_str(mpzs)) = mpzs
<1> SUFFICES ASSUME NEW mpzs \in Seq(Nat) PROVE str_to_mpzArr(mpzArr_to_str(mpzs)) = mpzs
  BY Zenon
<1> DEFINE n == Len(mpzs)
           strs == [i \in 1 .. n |-> Digits(mpzs[i], Dec)]
           str == mpzArr_to_str(mpzs)
<1>1. n \in Nat /\ DOMAIN mpzs = 1 .. n /\ mpzs \in [1 .. n -> Nat]
  OBVIOUS
<1>2. \A i \in 1 .. n : strs[i] \in Free(Comma) /\ parse(strs[i]) = mpzs[i]
  BY <1>1, ItemArrives, Zenon
<1>3. str = concat([i \in 1 .. n |-> Append(strs[i], Comma)])
  <2>1. [i \in 1 .. n |-> Append(strs[i], Comma)] = [i \in 1 .. n |-> Append(Digits(mpzs[i], Dec), Comma)]
    BY Zenon
  <2> QED
    BY <1>1, <2>1, Zenon DEF mpzArr_to_str
<1>4. DOMAIN strs = 1 .. n
  OBVIOUS
<1> HIDE DEF strs, str, n
<1>5. strs \in Seq(Free(Comma))
  <2>1. strs \in [1 .. n -> Free(Comma)]
    BY <1>2, <1>4, Zenon DEF strs
  <2> QED
    BY <1>1, <2>1
<1>6. cut(str, Comma) = [done |-> strs, rest |-> <<>>]
  <2>1. Comma \in Int
    BY DEF Comma
  <2>2. cut(concat([i \in DOMAIN strs |-> Append(strs[i], Comma)]), Comma) = [done |-> strs, rest |-> <<>>]
    BY <1>5, <2>1, CutTerminated, Zenon
  <2> QED
    BY <1>3, <1>4, <2>2, Zenon
<1>7. Pieces(str, Comma) = strs
  <2>1. cut(str, Comma).done = strs /\ cut(str, Comma).rest = <<>>
    BY <1>6
  <2> QED
    BY <2>1, Zenon DEF Pieces
<1>8. str_to_mpzArr(str) = [k \in 1 .. n |-> parse(strs[k])]
  BY <1>4, <1>7, Zenon DEF str_to_mpzArr
<1>9. [k \in 1 .. n |-> parse(strs[k])] = mpzs
  BY <1>1, <1>2, Zenon
<1> QED
  BY <1>8, <1>9, Zenon DEF str

-----------------------------------------------------------------------------
(* Points. *)

(* The finite points of the curve, by their coordinates. *)
Finite == {P \in Junk : OnCurve(P[1], P[2])}

(* A multiple of F leaves no remainder. *)
LEMMA Multiple ==
    ASSUME NEW a \in Nat, NEW t \in Int, a = t * F
    PROVE  a % F = 0
<1>1. F \in Nat \ {0}
  BY CodecAssumption
<1>2. t >= 0
  <2>1. t <= -1 => t * F <= -F
    BY <1>1, SMT
  <2> QED
    BY <1>1, <2>1, SMT
<1>3. t \in Nat /\ 0 \in 0 .. F - 1 /\ a = t * F + 0
  BY <1>1, <1>2, SMT
<1>4. Divided(a, F, t, 0)
  BY <1>1, <1>3, DivisionIs, Zenon
<1> QED
  BY <1>4, Zenon DEF Divided

(* The two square roots of a number have different parity, unless they are *)
(* the same: the larger is F minus the smaller, and F is odd.              *)
LEMMA RootsDiffer ==
    ASSUME NEW y \in 0 .. F - 1, NEW z \in 0 .. F - 1, (y * y) % F = (z * z) % F, y % 2 = z % 2, z <= y
    PROVE  y = z
<1>1. F \in Nat \ {0} /\ F % 2 = 1 /\ \A a, b \in 0 .. F - 1 : (a * b) % F = 0 => a = 0 \/ b = 0
  BY CodecAssumption, CurveAssumption, Zenon
<1> DEFINE r == (y * y) % F  i == (y * y) \div F  j == (z * z) \div F
<1>2. i \in Nat /\ j \in Nat /\ r \in Nat /\ y * y = i * F + r /\ z * z = j * F + r
  <2>1. y * y \in Nat /\ z * z \in Nat
    BY SMT
  <2>2. i \in Nat /\ (y * y) % F \in 0 .. F - 1 /\ y * y = i * F + ((y * y) % F)
    BY <1>1, <2>1, Division, Zenon
  <2>3. j \in Nat /\ (z * z) % F \in 0 .. F - 1 /\ z * z = j * F + ((z * z) % F)
    BY <1>1, <2>1, Division, Zenon
  <2>4. r \in Nat
    BY <1>1, <2>2
  <2> QED
    BY <2>2, <2>3, <2>4, Zenon
<1> HIDE DEF r, i, j
<1> DEFINE a == y - z  b == IF y + z < F THEN y + z ELSE y + z - F
           t == IF y + z < F THEN i - j ELSE i - j - a
<1>3. a \in 0 .. F - 1 /\ b \in 0 .. F - 1 /\ t \in Int
  BY <1>1, <1>2
<1>4. (y - z) * (y + z) = (i - j) * F
  <2>1. (y - z) * (y + z) = y * y - z * z
    BY SMT
  <2>2. (i - j) * F = i * F - j * F
    BY <1>1, <1>2, SMT
  <2>3. i * F \in Int /\ j * F \in Int
    BY <1>1, <1>2, SMT
  <2> QED
    BY <1>2, <2>1, <2>2, <2>3, SMT
<1>5. a * b = t * F
  <2>1. CASE y + z < F
    BY <1>4, <2>1
  <2>2. CASE ~ (y + z < F)
    <3>1. (y - z) * (y + z - F) = (y - z) * (y + z) - (y - z) * F
      BY <1>1, SMT
    <3>2. (i - j - (y - z)) * F = (i - j) * F - (y - z) * F
      BY <1>1, <1>2, SMT
    <3> QED
      BY <1>4, <2>2, <3>1, <3>2, Zenon
  <2> QED
    BY <2>1, <2>2, Zenon
<1>6. a * b \in Nat
  <2> HIDE DEF a, b
  <2> QED
    BY <1>1, <1>3, SMT
<1>7. a = 0 \/ b = 0
  <2> HIDE DEF a, b, t
  <2>1. (a * b) % F = 0
    BY <1>3, <1>5, <1>6, Multiple, Zenon
  <2> QED
    BY <1>1, <1>3, <2>1, Zenon
<1>8. CASE a = 0
  BY <1>8
<1>9. CASE b = 0
  <2>1. y + z = F \/ (y = 0 /\ z = 0)
    BY <1>1, <1>9
  <2>2. y + z # F
    <3>1. /\ y \div 2 \in Int /\ y = 2 * (y \div 2) + (y % 2)
          /\ z \div 2 \in Int /\ z = 2 * (z \div 2) + (z % 2)
          /\ F \div 2 \in Int /\ F = 2 * (F \div 2) + (F % 2) /\ y % 2 \in 0 .. 1
      BY <1>1
    <3> DEFINE u == y \div 2  v == z \div 2  w == F \div 2  c == y % 2
    <3>2. u \in Int /\ v \in Int /\ w \in Int /\ c \in Int /\ y = 2 * u + c /\ z = 2 * v + c /\ F = 2 * w + 1
      BY <1>1, <3>1
    <3> HIDE DEF u, v, w, c
    <3> QED
      BY <3>2, SMT
  <2> QED
    BY <2>1, <2>2
<1> QED
  BY <1>7, <1>8, <1>9, Zenon

(* A coordinate is its own residue, and short enough for a BIG. *)
LEMMA CoordinateType ==
    ASSUME NEW x \in 0 .. F - 1
    PROVE  x \in Nat /\ x % F = x /\ x < Power(Hex, BigLen)
<1>1. F \in Nat \ {0} /\ F <= Power(Hex, BigLen) /\ Hex \in Nat \ {0, 1} /\ BigLen \in Nat
  BY CodecAssumption
<1>2. Power(Hex, BigLen) \in Nat \ {0}
  BY <1>1, PowerGrows, Zenon
<1>3. 0 \in Nat /\ x \in Nat /\ x = 0 * F + x /\ x < Power(Hex, BigLen)
  BY <1>1, <1>2
<1>4. Divided(x, F, 0, x)
  BY <1>1, <1>3, DivisionIs, Zenon
<1> QED
  BY <1>3, <1>4, Zenon DEF Divided

(* A finite point is a pair of coordinates. *)
LEMMA FiniteType ==
    ASSUME NEW P \in Finite
    PROVE  P[1] \in 0 .. F - 1 /\ P[2] \in 0 .. F - 1 /\ P = <<P[1], P[2]>> /\ OnCurve(P[1], P[2])
<1>1. P \in Junk /\ OnCurve(P[1], P[2])
  BY Zenon DEF Finite
<1>2. P[1] \in 0 .. F - 1 /\ P[2] \in 0 .. F - 1 /\ P = <<P[1], P[2]>>
  BY <1>1 DEF Junk
<1> QED
  BY <1>1, <1>2, Zenon

(* ECP_set and ECP2_set give a finite point back from its coordinates. *)
LEMMA SetArrives ==
    ASSUME NEW P \in Finite
    PROVE  set(P[1], P[2]) = P
<1>1. P[1] % F = P[1] /\ P[2] % F = P[2]
  BY FiniteType, CoordinateType, Zenon
<1>2. P = <<P[1], P[2]>> /\ OnCurve(P[1], P[2])
  BY FiniteType, Zenon
<1> QED
  BY <1>1, <1>2, Zenon DEF set

(* ECP2_setx gives it back from x and the sign of y. *)
LEMMA SetxArrives ==
    ASSUME NEW P \in Finite
    PROVE  setx(P[1], P[2] % 2) = P
<1> DEFINE x == P[1]  y == P[2]
<1>1. x \in 0 .. F - 1 /\ y \in 0 .. F - 1 /\ P = <<x, y>> /\ OnCurve(x, y) /\ x % F = x
  BY FiniteType, CoordinateType, Zenon
<1> HIDE DEF x, y
<1> DEFINE fits(z) == OnCurve(x, z) /\ z % 2 = y % 2
           c == CHOOSE z \in 0 .. F - 1 : fits(z)
<1>2. c \in 0 .. F - 1 /\ fits(c)
  BY <1>1, Zenon
<1>3. setx(x, y % 2) = <<x % F, c>>
  BY <1>1, Zenon DEF setx
<1> HIDE DEF c
<1>4. (y * y) % F = (c * c) % F /\ y % 2 = c % 2
  BY <1>1, <1>2, Zenon DEF OnCurve
<1>5. c <= y \/ y <= c
  BY <1>1, <1>2
<1>6. c = y
  BY <1>1, <1>2, <1>4, <1>5, RootsDiffer, Zenon
<1> QED
  BY <1>1, <1>3, <1>6, Zenon DEF x, y

(* What ECP_get hands out are coordinates in any case. *)
LEMMA CoordinatesType ==
    ASSUME NEW P \in Finite \cup {Infinity}, NEW junk \in Junk
    PROVE  /\ coordinates(P, junk)[1] \in 0 .. F - 1 /\ coordinates(P, junk)[2] \in 0 .. F - 1
           /\ P # Infinity => P \in Finite /\ coordinates(P, junk) = P
<1>1. coordinates(P, junk) \in Junk
  BY Zenon DEF coordinates, Finite
<1>2. P # Infinity => P \in Finite /\ coordinates(P, junk) = P
  BY Zenon DEF coordinates
<1> DEFINE c == coordinates(P, junk)
<1> HIDE DEF c
<1>3. c \in Junk
  BY <1>1, Zenon DEF c
<1>4. c[1] \in 0 .. F - 1 /\ c[2] \in 0 .. F - 1
  BY <1>3, Zenon DEF Junk
<1> QED
  BY <1>2, <1>4, Zenon DEF c

(* Two strings of digits with a comma between them. *)
AroundComma(s, a, b) ==
    /\ s \in Free(Semicolon) /\ s # <<>>
    /\ Len(a) + 1 \in DOMAIN s /\ s[Len(a) + 1] = Comma
    /\ \A i \in 1 .. Len(a) : s[i] # Comma
    /\ SubSeq(s, 1, Len(a)) = a /\ SubSeq(s, Len(a) + 2, Len(s)) = b

LEMMA AtComma ==
    ASSUME NEW a \in Seq(Nat), NEW b \in Seq(Nat), NEW s, s = a \o <<Comma>> \o b
    PROVE  AroundComma(s, a, b)
<1> DEFINE l == Len(a)  m == Len(b)
<1>1. /\ l \in Nat /\ m \in Nat /\ \A i \in 1 .. l : a[i] \in Nat
      /\ \A i \in 1 .. m : b[i] \in Nat
  OBVIOUS
<1>2. a \o <<Comma>> \in Str /\ Len(a \o <<Comma>>) = l + 1 /\ (a \o <<Comma>>)[l + 1] = Comma
      /\ \A i \in 1 .. l : (a \o <<Comma>>)[i] = a[i]
  BY DEF Comma, Str
<1> DEFINE t == a \o <<Comma>>
<1> HIDE DEF t
<1>3. s = t \o b /\ t \in Str /\ Len(t) = l + 1 /\ t[l + 1] = Comma /\ \A i \in 1 .. l : t[i] = a[i]
  BY <1>2, Zenon DEF t
<1>4. s \in Str /\ Len(s) = l + 1 + m /\ (\A i \in 1 .. l + 1 : s[i] = t[i])
      /\ \A i \in 1 .. m : s[l + 1 + i] = b[i]
  <2>1. t \in Seq(Int) /\ b \in Seq(Int)
    BY <1>3, NatStr, Zenon DEF Str
  <2>2. Followed(s, t, b)
    BY <1>3, <2>1, ConcatElements, Zenon
  <2> QED
    BY <1>3, <2>2, Zenon DEF Followed, Str
<1>5. \A i \in 1 .. l : s[i] = a[i] /\ a[i] \in Nat
  BY <1>1, <1>3, <1>4
<1>6. s[l + 1] = Comma
  BY <1>1, <1>3, <1>4
<1>7. ASSUME NEW i \in 1 .. l + 1 + m PROVE s[i] # Semicolon
  <2>1. CASE i <= l
    BY <1>1, <1>5, <2>1 DEF Semicolon
  <2>2. CASE i = l + 1
    BY <1>6, <2>2 DEF Comma, Semicolon
  <2>3. CASE i > l + 1
    <3>1. i - (l + 1) \in 1 .. m /\ l + 1 + (i - (l + 1)) = i
      BY <1>1, <2>3
    <3>2. s[l + 1 + (i - (l + 1))] \in Nat
      BY <1>1, <1>4, <3>1, Zenon
    <3> QED
      BY <3>1, <3>2 DEF Semicolon
  <2> QED
    BY <1>1, <2>1, <2>2, <2>3
<1>8. s \in Free(Semicolon)
  BY <1>4, <1>7, Zenon DEF Free
<1>9. SubSeq(s, 1, l) = a
  BY <1>1, <1>4, <1>5 DEF Str
<1>10. SubSeq(s, l + 2, Len(s)) = b
  BY <1>1, <1>4 DEF Str
<1>11. l + 1 \in DOMAIN s /\ s # <<>> /\ \A i \in 1 .. l : s[i] # Comma
  BY <1>1, <1>4, <1>5 DEF Str, Comma
<1> QED
  BY <1>6, <1>8, <1>9, <1>10, <1>11, Zenon DEF AroundComma

(* A point of G1 as a string: ECP_to_str and str_to_ECP. *)
LEMMA ECPArrives ==
    ASSUME NEW P \in Finite \cup {Infinity}, NEW junk \in Junk
    PROVE  /\ ECP_to_str(P, junk) \in Free(Semicolon) /\ ECP_to_str(P, junk) # <<>>
           /\ P # Infinity => str_to_ECP(ECP_to_str(P, junk)) = P
<1> DEFINE c == coordinates(P, junk)  x == c[1]  y == c[2]
           a == mpz_to_str(x)  b == mpz_to_str(y)  s == ECP_to_str(P, junk)
<1>1. x \in Nat /\ y \in Nat /\ x < Power(Hex, BigLen) /\ y < Power(Hex, BigLen)
  BY CoordinatesType, CoordinateType, Zenon
<1>2. P # Infinity => P \in Finite /\ c = P
  BY CoordinatesType, Zenon
<1>3. s = a \o <<Comma>> \o b
  <2>1. BIG_to_mpz(x) = x /\ BIG_to_mpz(y) = y
    BY <1>1, BIGArrives, Zenon
  <2> QED
    BY <2>1, Zenon DEF ECP_to_str
<1> HIDE DEF c, x, y, s
<1>4. a \in Seq(Nat) /\ b \in Seq(Nat)
  <2>1. Hex \in Nat \ {0, 1}
    BY CodecAssumption, Zenon
  <2>2. a \in Seq(0 .. Hex - 1) /\ b \in Seq(0 .. Hex - 1)
    BY <1>1, <2>1, DigitsAre, Zenon DEF mpz_to_str
  <2> QED
    BY <2>1, <2>2
<1>5. str_to_BIG(a) = x /\ str_to_BIG(b) = y
  BY <1>1, CoordinateArrives, Zenon
<1> HIDE DEF a, b
<1> DEFINE l == Len(a)
<1>6. /\ s \in Free(Semicolon) /\ s # <<>>
      /\ l + 1 \in DOMAIN s /\ s[l + 1] = Comma /\ \A i \in 1 .. l : s[i] # Comma
      /\ SubSeq(s, 1, l) = a /\ SubSeq(s, l + 2, Len(s)) = b
  <2>1. AroundComma(s, a, b)
    BY <1>3, <1>4, AtComma, Zenon
  <2> QED
    BY <2>1, Zenon DEF AroundComma
<1> DEFINE first(i) == s[i] = Comma /\ \A j \in 1 .. i - 1 : s[j] # Comma
           pos == CHOOSE i \in DOMAIN s : first(i)
<1>7. pos = l + 1
  <2>1. l \in Nat /\ DOMAIN s = 1 .. Len(s) /\ Len(s) \in Nat
    BY <1>4, <1>6 DEF Free, Str
  <2>2. (l + 1) - 1 = l
    BY <2>1
  <2>3. first(l + 1)
    BY <1>6, <2>2, Zenon
  <2>4. pos \in DOMAIN s /\ first(pos)
    BY <1>6, <2>3, Zenon
  <2> HIDE DEF pos, l
  <2>5. pos \in 1 .. Len(s) /\ s[pos] = Comma /\ \A j \in 1 .. pos - 1 : s[j] # Comma
    BY <2>1, <2>4, Zenon
  <2>6. ~ (pos \in 1 .. l)
    BY <1>6, <2>5, Zenon
  <2>7. ~ (l + 1 \in 1 .. pos - 1)
    BY <1>6, <2>5, Zenon
  <2> QED
    BY <2>1, <2>5, <2>6, <2>7
<1>8. str_to_ECP(s) = set(str_to_BIG(SubSeq(s, 1, pos - 1)), str_to_BIG(SubSeq(s, pos + 1, Len(s))))
  BY Zenon DEF str_to_ECP
<1> HIDE DEF pos
<1>9. pos - 1 = l /\ pos + 1 = l + 2
  BY <1>4, <1>7
<1>10. str_to_ECP(s) = set(x, y)
  BY <1>5, <1>6, <1>8, <1>9, Zenon
<1>11. P # Infinity => str_to_ECP(s) = P
  BY <1>2, <1>10, SetArrives, Zenon DEF x, y
<1> QED
  BY <1>6, <1>11, Zenon DEF s

(* Two strings of digits, one after the other. *)
Halves(s, a, b) ==
    /\ s \in Free(Semicolon) /\ Len(s) = Len(a) + Len(b)
    /\ SubSeq(s, 1, Len(a)) = a /\ SubSeq(s, Len(a) + 1, Len(s)) = b

LEMMA TwoParts ==
    ASSUME NEW a \in Seq(Nat), NEW b \in Seq(Nat), NEW s, s = a \o b
    PROVE  Halves(s, a, b)
<1>1. s \in Seq(Nat) /\ Len(s) = Len(a) + Len(b)
  OBVIOUS
<1>2. s \in Free(Semicolon)
  <2>1. \A i \in 1 .. Len(s) : s[i] \in Nat
    BY <1>1
  <2>2. \A i \in 1 .. Len(s) : s[i] # Semicolon
    BY <2>1 DEF Semicolon
  <2>3. s \in Str
    BY <1>1 DEF Str
  <2> QED
    BY <2>2, <2>3, Zenon DEF Free
<1>3. /\ Len(a) \in Nat /\ Len(b) \in Nat
      /\ \A i \in 1 .. Len(a) : s[i] = a[i]
      /\ \A i \in 1 .. Len(b) : s[Len(a) + i] = b[i]
  OBVIOUS
<1>4. SubSeq(s, 1, Len(a)) = a
  BY <1>1, <1>3
<1>5. SubSeq(s, Len(a) + 1, Len(s)) = b
  BY <1>1, <1>3
<1> QED
  BY <1>1, <1>2, <1>4, <1>5, Zenon DEF Halves

(* A point of G2 as a string: ECP2_to_str, compressed, and str_to_ECP2. *)
LEMMA ECP2Arrives ==
    ASSUME NEW P \in Finite \cup {Infinity}, NEW junk \in Junk
    PROVE  /\ ECP2_to_str(P, TRUE, junk) \in Free(Semicolon)
           /\ Len(ECP2_to_str(P, TRUE, junk)) = BigLen + 2
           /\ P # Infinity => str_to_ECP2(ECP2_to_str(P, TRUE, junk)) = P
<1> DEFINE c == coordinates(P, junk)  x == c[1]  y == c[2]  sign == y % 2
           a == Pad(Digits(2 + sign, Hex), 2)  b == Pad(Digits(x, Hex), BigLen)  s == ECP2_to_str(P, TRUE, junk)
<1>1. x \in Nat /\ y \in Nat /\ x < Power(Hex, BigLen)
  BY CoordinatesType, CoordinateType, Zenon
<1>2. P # Infinity => P \in Finite /\ c = P
  BY CoordinatesType, Zenon
<1>3. s = a \o b
  BY Zenon DEF ECP2_to_str
<1>4. Hex \in Nat \ {0, 1} /\ BigLen \in Nat \ {0} /\ BigLen \in Nat
  BY CodecAssumption
<1> HIDE DEF c, x, y, s
<1>5. a \in Seq(0 .. Hex - 1) /\ Len(a) = 2 /\ Value(a, Hex) = 2 + sign
  <2>1. 2 + sign \in Nat /\ 2 + sign < 4 /\ 2 \in Nat \ {0} /\ 2 \in Nat
    BY <1>1
  <2> HIDE DEF sign
  <2>2. 2 + sign < Power(Hex, 2)
    <3>1. Power(Hex, 0) = 1 /\ Power(Hex, 0 + 1) = Power(Hex, 0) * Hex /\ Power(Hex, 1 + 1) = Power(Hex, 1) * Hex
      BY <1>4, PowerStep
    <3>2. Power(Hex, 2) = Hex * Hex
      BY <1>4, <3>1
    <3>3. Hex * Hex >= 4
      BY <1>4, SMT
    <3> QED
      BY <1>4, <2>1, <3>2, <3>3
  <2>3. /\ Digits(2 + sign, Hex) \in Seq(0 .. Hex - 1) /\ Value(Digits(2 + sign, Hex), Hex) = 2 + sign
        /\ Len(Digits(2 + sign, Hex)) <= 2
    BY <1>4, <2>1, <2>2, DigitsAre, Zenon
  <2> QED
    BY <1>4, <2>1, <2>3, PadIs, Zenon
<1>6. b \in Seq(0 .. Hex - 1) /\ Len(b) = BigLen /\ Value(b, Hex) = x
  <2>1. Digits(x, Hex) \in Seq(0 .. Hex - 1) /\ Value(Digits(x, Hex), Hex) = x /\ Len(Digits(x, Hex)) <= BigLen
    BY <1>1, <1>4, DigitsAre, Zenon
  <2> QED
    BY <1>4, <2>1, PadIs, Zenon
<1> HIDE DEF a, b
<1>7. Halves(s, a, b)
  <2>1. a \in Seq(Nat) /\ b \in Seq(Nat)
    BY <1>4, <1>5, <1>6
  <2> QED
    BY <1>3, <2>1, TwoParts, Zenon
<1>8. s \in Free(Semicolon) /\ Len(s) = BigLen + 2 /\ SubSeq(s, 1, 2) = a /\ SubSeq(s, 3, BigLen + 2) = b
  <2>1. Len(a) + 1 = 3 /\ Len(a) + Len(b) = BigLen + 2
    BY <1>4, <1>5, <1>6
  <2> QED
    BY <1>5, <1>7, <2>1, Zenon DEF Halves
<1>9. (2 + sign) - 2 = sign /\ 2 + sign # 4
  BY <1>1
<1>10. str_to_ECP2(s) = setx(x, sign)
  <2> HIDE DEF sign
  <2> QED
    BY <1>5, <1>6, <1>8, <1>9, Zenon DEF str_to_ECP2
<1>11. P # Infinity => str_to_ECP2(s) = P
  BY <1>2, <1>10, SetxArrives, Zenon DEF x, y
<1> QED
  BY <1>8, <1>11, Zenon DEF s

-----------------------------------------------------------------------------
(* Vectors of points. *)

Pts == Finite \cup {Infinity}

(* Every finite point in its place. *)
InPlace(read, ecps) ==
    Len(read) = Len(ecps) /\ \A i \in DOMAIN ecps : ecps[i] # Infinity => read[i] = ecps[i]

(* A vector of points of G1 is read back with its length, and every finite *)
(* point in its place, whatever a point at infinity beside it is written   *)
(* as (ECPArr_to_str, str_to_ECPArr).                                      *)
THEOREM G1VectorArrives ==
    \A ecps \in Seq(Pts), junk \in Junk : InPlace(str_to_ECPArr(ECPArr_to_str(ecps, junk)), ecps)
<1> SUFFICES ASSUME NEW ecps \in Seq(Pts), NEW junk \in Junk
             PROVE  InPlace(str_to_ECPArr(ECPArr_to_str(ecps, junk)), ecps)
  BY Zenon
<1> DEFINE n == Len(ecps)
           strs == [i \in 1 .. n |-> ECP_to_str(ecps[i], junk)]
           str == ECPArr_to_str(ecps, junk)
<1>1. n \in Nat /\ DOMAIN ecps = 1 .. n /\ \A i \in 1 .. n : ecps[i] \in Pts
  OBVIOUS
<1>2. \A i \in 1 .. n : /\ strs[i] \in Free(Semicolon) /\ strs[i] # <<>>
                        /\ ecps[i] # Infinity => str_to_ECP(strs[i]) = ecps[i]
  BY <1>1, ECPArrives, Zenon DEF Pts
<1>3. str = Join(strs) /\ DOMAIN strs = 1 .. n
  BY <1>1, Zenon DEF ECPArr_to_str
<1>4. strs \in Seq(Free(Semicolon))
  <2>1. strs \in [1 .. n -> Free(Semicolon)]
    BY <1>2, Zenon
  <2> HIDE DEF strs
  <2> QED
    BY <1>1, <2>1
<1> HIDE DEF strs, str, n
<1>5. Pieces(str, Semicolon) = strs
  <2>1. Pieces(Join(strs), Semicolon) = strs
    BY <1>2, <1>3, <1>4, PiecesOfJoin, Zenon
  <2> QED
    BY <1>3, <2>1, Zenon
<1>6. str_to_ECPArr(str) = [k \in 1 .. n |-> str_to_ECP(strs[k])]
  BY <1>3, <1>5, Zenon DEF str_to_ECPArr
<1> DEFINE read == [k \in 1 .. n |-> str_to_ECP(strs[k])]
<1>7. Len(read) = n
  BY <1>1
<1>8. \A i \in 1 .. n : read[i] = str_to_ECP(strs[i])
  BY Zenon
<1> HIDE DEF read
<1>9. InPlace(read, ecps)
  BY <1>1, <1>2, <1>7, <1>8, Zenon DEF InPlace, n
<1> QED
  BY <1>6, <1>9, Zenon DEF read, str

(* The same for G2, where a point is x and the sign of y; and the octet of *)
(* each point has a tag and one coordinate (ECP2Arr_to_str,                *)
(* str_to_ECP2Arr).                                                        *)
THEOREM G2VectorArrives ==
    \A ecp2s \in Seq(Pts), junk \in Junk :
        /\ InPlace(str_to_ECP2Arr(ECP2Arr_to_str(ecp2s, junk)), ecp2s)
        /\ \A k \in DOMAIN Pieces(ECP2Arr_to_str(ecp2s, junk), Semicolon) :
              Len(Pieces(ECP2Arr_to_str(ecp2s, junk), Semicolon)[k]) = BigLen + 2
<1> SUFFICES ASSUME NEW ecp2s \in Seq(Pts), NEW junk \in Junk
             PROVE  /\ InPlace(str_to_ECP2Arr(ECP2Arr_to_str(ecp2s, junk)), ecp2s)
                    /\ \A k \in DOMAIN Pieces(ECP2Arr_to_str(ecp2s, junk), Semicolon) :
                          Len(Pieces(ECP2Arr_to_str(ecp2s, junk), Semicolon)[k]) = BigLen + 2
  BY Zenon
<1> DEFINE n == Len(ecp2s)
           strs == [i \in 1 .. n |-> ECP2_to_str(ecp2s[i], TRUE, junk)]
           str == ECP2Arr_to_str(ecp2s, junk)
<1>1. n \in Nat /\ DOMAIN ecp2s = 1 .. n /\ \A i \in 1 .. n : ecp2s[i] \in Pts
  OBVIOUS
<1>2. \A i \in 1 .. n : /\ strs[i] \in Free(Semicolon) /\ Len(strs[i]) = BigLen + 2
                        /\ ecp2s[i] # Infinity => str_to_ECP2(strs[i]) = ecp2s[i]
  BY <1>1, ECP2Arrives, Zenon DEF Pts
<1>3. str = Join(strs) /\ DOMAIN strs = 1 .. n
  BY <1>1, Zenon DEF ECP2Arr_to_str
<1>4. strs \in Seq(Free(Semicolon))
  <2>1. strs \in [1 .. n -> Free(Semicolon)]
    BY <1>2, Zenon
  <2> HIDE DEF strs
  <2> QED
    BY <1>1, <2>1
<1> HIDE DEF strs, str, n
<1>5. Pieces(str, Semicolon) = strs
  <2>1. BigLen + 2 # 0 /\ Len(<<>>) = 0
    BY CodecAssumption
  <2>2. \A i \in DOMAIN strs : strs[i] # <<>>
    BY <1>2, <1>3, <2>1, Zenon
  <2>3. Pieces(Join(strs), Semicolon) = strs
    BY <1>4, <2>2, PiecesOfJoin, Zenon
  <2> QED
    BY <1>3, <2>3, Zenon
<1>6. str_to_ECP2Arr(str) = [k \in 1 .. n |-> str_to_ECP2(strs[k])]
  BY <1>3, <1>5, Zenon DEF str_to_ECP2Arr
<1> DEFINE read == [k \in 1 .. n |-> str_to_ECP2(strs[k])]
<1>7. Len(read) = n
  BY <1>1
<1>8. \A i \in 1 .. n : read[i] = str_to_ECP2(strs[i])
  BY Zenon
<1> HIDE DEF read
<1>9. InPlace(read, ecp2s)
  BY <1>1, <1>2, <1>7, <1>8, Zenon DEF InPlace, n
<1>10. \A k \in DOMAIN Pieces(str, Semicolon) : Len(Pieces(str, Semicolon)[k]) = BigLen + 2
  BY <1>2, <1>3, <1>5, Zenon
<1> QED
  BY <1>6, <1>9, <1>10, Zenon DEF read, str

-----------------------------------------------------------------------------
(* What the programs send. *)

(* Every multiple of the generator is a point of the curve or Infinity. *)
LEMMA PointsAre ==
    Points \subseteq Pts
<1> SUFFICES ASSUME NEW r \in Draws PROVE mul(r) \in Pts
  BY Zenon DEF Points
<1> DEFINE big == mpz_to_BIG(r)  num == BIG_to_mpz(big)  k == num % q
<1>1. r \in Nat /\ Len(G) \in Nat /\ q = Len(G) + 1 /\ DOMAIN G = 1 .. Len(G)
  BY CodecAssumption, CurveAssumption DEF q
<1>2. big \in Nat
  BY <1>1, MpzToBIG, Zenon
<1>3. num \in Nat
  BY <1>2, BIGArrives, Zenon
<1> HIDE DEF num
<1>4. k = 0 \/ k \in DOMAIN G
  BY <1>1, <1>3
<1> HIDE DEF k, big
<1>5. ASSUME k \in DOMAIN G PROVE G[k] \in Finite
  BY <1>5, CurveAssumption DEF Finite, Junk
<1>6. mul(r) = IF k = 0 THEN Infinity ELSE G[k]
  BY Zenon DEF mul, k, num, big
<1> QED
  BY <1>4, <1>5, <1>6, Zenon DEF Pts

(* What is written for a point at infinity is a pair of coordinates. *)
LEMMA JunkIs ==
    ASSUME NEW ecps PROVE JunkFor(ecps) \subseteq Junk
<1>1. <<0, 0>> \in Junk
  BY CodecAssumption DEF Junk
<1> QED
  BY <1>1, Zenon DEF JunkFor

(* The vectors explored are sequences. *)
LEMMA VectorsAre ==
    ASSUME NEW S, NEW lens \in SUBSET Nat, NEW v \in Vectors(S, lens)
    PROVE  v \in Seq(S)
<1>1. PICK n \in lens : v \in [1 .. n -> S]
  BY Zenon DEF Vectors
<1> QED
  BY <1>1

LEMMA WiderSeq ==
    ASSUME NEW S, NEW T, S \subseteq T, NEW v \in Seq(S)
    PROVE  v \in Seq(T)
  OBVIOUS

(* The three responses on their way: what was sent, the fields made of it, *)
(* and nothing read yet or what the client makes of those fields.          *)
Params ==
    \E m \in Nat, PK \in Seq(Pts), c1 \in Seq(Nat), junk \in Junk :
        /\ sent = [kind |-> "Register", m |-> m, PK |-> PK, c1 |-> c1]
        /\ wire = [kind |-> "Register", m |-> mpz_to_str(m),
                   pk |-> ECP2Arr_to_str(PK, junk), cj |-> mpzArr_to_str(c1)]
        /\ got \in {None, [kind |-> "Register", m |-> str_to_mpz(mpz_to_str(m)),
                           PK |-> str_to_ECP2Arr(ECP2Arr_to_str(PK, junk)),
                           c1 |-> str_to_mpzArr(mpzArr_to_str(c1))]}

Sig ==
    \E cj \in Nat, sig \in Pts, id \in Nat, junk \in Junk :
        /\ sent = [kind |-> "Sign", cj |-> cj, sig |-> sig, id |-> id]
        /\ wire = [kind |-> "Sign", cj |-> mpz_to_str(cj),
                   sig |-> ECP_to_str(sig, junk), id |-> mpz_to_str(id)]
        /\ got \in {None, [kind |-> "Sign", cj |-> str_to_mpz(mpz_to_str(cj)),
                           sig |-> str_to_ECP(ECP_to_str(sig, junk)),
                           id |-> str_to_mpz(mpz_to_str(id))]}

Sigma ==
    \E aux \in Seq(Nat), sig \in Seq(Pts), IDs \in Seq(Nat), junk \in Junk :
        /\ sent = [kind |-> "Tran", aux |-> aux, sig |-> sig, IDs |-> IDs]
        /\ wire = [kind |-> "Tran", auxs |-> mpzArr_to_str(aux),
                   sigs |-> ECPArr_to_str(sig, junk), ids |-> mpzArr_to_str(IDs)]
        /\ got \in {None, [kind |-> "Tran", aux |-> str_to_mpzArr(mpzArr_to_str(aux)),
                           sig |-> str_to_ECPArr(ECPArr_to_str(sig, junk)),
                           IDs |-> str_to_mpzArr(mpzArr_to_str(IDs))]}

CodecInv == Init \/ Params \/ Sig \/ Sigma

(* The kind of a response tells which of the three it is. *)
LEMMA KindOf ==
    ASSUME CodecInv
    PROVE  /\ sent = None => Init
           /\ wire.kind = "Register" => Params
           /\ wire.kind = "Sign" => Sig
           /\ wire.kind = "Tran" => Sigma
<1>1. None.kind = "none"
  BY DEF None
<1>2. Init => sent.kind = "none" /\ wire.kind = "none"
  BY <1>1, Zenon DEF Init
<1>3. Params => sent.kind = "Register" /\ wire.kind = "Register"
  BY DEF Params
<1>4. Sig => sent.kind = "Sign" /\ wire.kind = "Sign"
  BY DEF Sig
<1>5. Sigma => sent.kind = "Tran" /\ wire.kind = "Tran"
  BY DEF Sigma
<1> QED
  BY <1>1, <1>2, <1>3, <1>4, <1>5 DEF CodecInv

(* Every send and every read keeps the invariant. *)
LEMMA CodecStep ==
    ASSUME CodecInv, [Next]_vars
    PROVE  CodecInv'
<1>1. Points \subseteq Pts /\ Nums \subseteq Nat /\ Msgs \subseteq Nat /\ 1 .. MaxLen \in SUBSET Nat
  <2>1. Nums \subseteq Nat /\ Msgs \subseteq Nat /\ 1 .. MaxLen \in SUBSET Nat
    BY CodecAssumption
  <2> QED
    BY <2>1, PointsAre, Zenon
<1>2. CASE SendParams
  <2>1. got = None
    BY <1>2, KindOf, Zenon DEF SendParams, Init
  <2>2. PICK m \in Msgs, PK \in Vectors(Points, 1 .. MaxLen), c1 \in Vectors(Nums, 1 .. MaxLen) :
        \E junk \in JunkFor(PK) :
           /\ sent' = [kind |-> "Register", m |-> m, PK |-> PK, c1 |-> c1]
           /\ wire' = [kind |-> "Register", m |-> mpz_to_str(m),
                       pk |-> ECP2Arr_to_str(PK, junk), cj |-> mpzArr_to_str(c1)]
           /\ got' = got
    BY <1>2, Zenon DEF SendParams
  <2>3. PK \in Seq(Points) /\ c1 \in Seq(Nums)
    BY <1>1, VectorsAre, Zenon
  <2>4. m \in Nat /\ PK \in Seq(Pts) /\ c1 \in Seq(Nat) /\ JunkFor(PK) \subseteq Junk
    BY <1>1, <2>3, WiderSeq, JunkIs, Zenon
  <2>5. Params'
    BY <2>1, <2>2, <2>4, Zenon DEF Params, None
  <2> QED
    BY <2>5, Zenon DEF CodecInv
<1>3. CASE SendSig
  <2>1. got = None
    BY <1>3, KindOf, Zenon DEF SendSig, Init
  <2>2. PICK cj \in Nums, sig \in Points, id \in Nums :
        \E junk \in JunkFor(<<sig>>) :
           /\ sent' = [kind |-> "Sign", cj |-> cj, sig |-> sig, id |-> id]
           /\ wire' = [kind |-> "Sign", cj |-> mpz_to_str(cj),
                       sig |-> ECP_to_str(sig, junk), id |-> mpz_to_str(id)]
           /\ got' = got
    BY <1>3, Zenon DEF SendSig
  <2>3. cj \in Nat /\ sig \in Pts /\ id \in Nat /\ JunkFor(<<sig>>) \subseteq Junk
    BY <1>1, JunkIs, Zenon
  <2>4. Sig'
    BY <2>1, <2>2, <2>3, Zenon DEF Sig, None
  <2> QED
    BY <2>4, Zenon DEF CodecInv
<1>4. CASE SendSigma
  <2>1. got = None
    BY <1>4, KindOf, Zenon DEF SendSigma, Init
  <2>2. PICK n \in 0 .. MaxLen :
        \E aux \in [1 .. n -> Nums], sig \in [1 .. n -> Points], IDs \in [1 .. n -> Nums] :
        \E junk \in JunkFor(sig) :
           /\ sent' = [kind |-> "Tran", aux |-> aux, sig |-> sig, IDs |-> IDs]
           /\ wire' = [kind |-> "Tran", auxs |-> mpzArr_to_str(aux),
                       sigs |-> ECPArr_to_str(sig, junk), ids |-> mpzArr_to_str(IDs)]
           /\ got' = got
    BY <1>4, Zenon DEF SendSigma
  <2>3. PICK aux \in [1 .. n -> Nums], sig \in [1 .. n -> Points], IDs \in [1 .. n -> Nums] :
        \E junk \in JunkFor(sig) :
           /\ sent' = [kind |-> "Tran", aux |-> aux, sig |-> sig, IDs |-> IDs]
           /\ wire' = [kind |-> "Tran", auxs |-> mpzArr_to_str(aux),
                       sigs |-> ECPArr_to_str(sig, junk), ids |-> mpzArr_to_str(IDs)]
           /\ got' = got
    BY <2>2, Zenon
  <2>4. aux \in Seq(Nums) /\ sig \in Seq(Points) /\ IDs \in Seq(Nums)
    BY CodecAssumption
  <2>5. aux \in Seq(Nat) /\ sig \in Seq(Pts) /\ IDs \in Seq(Nat) /\ JunkFor(sig) \subseteq Junk
    BY <1>1, <2>4, WiderSeq, JunkIs, Zenon
  <2>6. Sigma'
    BY <2>1, <2>3, <2>5, Zenon DEF Sigma, None
  <2> QED
    BY <2>6, Zenon DEF CodecInv
<1>5. CASE ReadParams
  <2>1. Params
    BY <1>5, KindOf, Zenon DEF ReadParams
  <2>2. PICK m \in Nat, PK \in Seq(Pts), c1 \in Seq(Nat), junk \in Junk :
           /\ sent = [kind |-> "Register", m |-> m, PK |-> PK, c1 |-> c1]
           /\ wire = [kind |-> "Register", m |-> mpz_to_str(m),
                      pk |-> ECP2Arr_to_str(PK, junk), cj |-> mpzArr_to_str(c1)]
    BY <2>1, Zenon DEF Params
  <2>3. wire.m = mpz_to_str(m) /\ wire.pk = ECP2Arr_to_str(PK, junk) /\ wire.cj = mpzArr_to_str(c1)
    BY <2>2
  <2>4. got' = [kind |-> "Register", m |-> str_to_mpz(mpz_to_str(m)),
                PK |-> str_to_ECP2Arr(ECP2Arr_to_str(PK, junk)), c1 |-> str_to_mpzArr(mpzArr_to_str(c1))]
    BY <1>5, <2>3, Zenon DEF ReadParams
  <2>5. sent' = sent /\ wire' = wire
    BY <1>5, Zenon DEF ReadParams
  <2>6. Params'
    BY <2>2, <2>4, <2>5, Zenon DEF Params
  <2> QED
    BY <2>6, Zenon DEF CodecInv
<1>6. CASE ReadSig
  <2>1. Sig
    BY <1>6, KindOf, Zenon DEF ReadSig
  <2>2. PICK cj \in Nat, sig \in Pts, id \in Nat, junk \in Junk :
           /\ sent = [kind |-> "Sign", cj |-> cj, sig |-> sig, id |-> id]
           /\ wire = [kind |-> "Sign", cj |-> mpz_to_str(cj),
                      sig |-> ECP_to_str(sig, junk), id |-> mpz_to_str(id)]
    BY <2>1, Zenon DEF Sig
  <2>3. wire.cj = mpz_to_str(cj) /\ wire.sig = ECP_to_str(sig, junk) /\ wire.id = mpz_to_str(id)
    BY <2>2
  <2>4. got' = [kind |-> "Sign", cj |-> str_to_mpz(mpz_to_str(cj)),
                sig |-> str_to_ECP(ECP_to_str(sig, junk)), id |-> str_to_mpz(mpz_to_str(id))]
    BY <1>6, <2>3, Zenon DEF ReadSig
  <2>5. sent' = sent /\ wire' = wire
    BY <1>6, Zenon DEF ReadSig
  <2>6. Sig'
    BY <2>2, <2>4, <2>5, Zenon DEF Sig
  <2> QED
    BY <2>6, Zenon DEF CodecInv
<1>7. CASE ReadSigma
  <2>1. Sigma
    BY <1>7, KindOf, Zenon DEF ReadSigma
  <2>2. PICK aux \in Seq(Nat), sig \in Seq(Pts), IDs \in Seq(Nat), junk \in Junk :
           /\ sent = [kind |-> "Tran", aux |-> aux, sig |-> sig, IDs |-> IDs]
           /\ wire = [kind |-> "Tran", auxs |-> mpzArr_to_str(aux),
                      sigs |-> ECPArr_to_str(sig, junk), ids |-> mpzArr_to_str(IDs)]
    BY <2>1, Zenon DEF Sigma
  <2>3. wire.auxs = mpzArr_to_str(aux) /\ wire.sigs = ECPArr_to_str(sig, junk) /\ wire.ids = mpzArr_to_str(IDs)
    BY <2>2
  <2>4. got' = [kind |-> "Tran", aux |-> str_to_mpzArr(mpzArr_to_str(aux)),
                sig |-> str_to_ECPArr(ECPArr_to_str(sig, junk)), IDs |-> str_to_mpzArr(mpzArr_to_str(IDs))]
    BY <1>7, <2>3, Zenon DEF ReadSigma
  <2>5. sent' = sent /\ wire' = wire
    BY <1>7, Zenon DEF ReadSigma
  <2>6. Sigma'
    BY <2>2, <2>4, <2>5, Zenon DEF Sigma
  <2> QED
    BY <2>6, Zenon DEF CodecInv
<1>8. CASE UNCHANGED vars
  <2>1. sent' = sent /\ wire' = wire /\ got' = got
    BY <1>8 DEF vars
  <2>2. Init => Init'
    BY <2>1, Zenon DEF Init, None
  <2>3. Params => Params'
    BY <2>1, Zenon DEF Params, None
  <2>4. Sig => Sig'
    BY <2>1, Zenon DEF Sig, None
  <2>5. Sigma => Sigma'
    BY <2>1, Zenon DEF Sigma, None
  <2> QED
    BY <2>2, <2>3, <2>4, <2>5, Zenon DEF CodecInv
<1> QED
  BY <1>2, <1>3, <1>4, <1>5, <1>6, <1>7, <1>8, Zenon DEF Next

(* Every response is on its way as its handler wrote it, or was read by   *)
(* the client's decoders from those fields.                                *)
THEOREM CodecInvariant == Spec => []CodecInv
<1>1. Init => CodecInv
  BY Zenon DEF CodecInv
<1>2. CodecInv /\ [Next]_vars => CodecInv'
  BY CodecStep, Zenon
<1> QED
  BY <1>1, <1>2, PTL DEF Spec

(* What the client of a response has read. *)
LEMMA ReadKind ==
    ASSUME CodecInv
    PROVE  /\ got.kind = "Register" => Params /\ got # None
           /\ got.kind = "Sign" => Sig /\ got # None
           /\ got.kind = "Tran" => Sigma /\ got # None
<1>1. None.kind = "none"
  BY DEF None
<1>2. Init => got = None
  BY Zenon DEF Init
<1>3. Params => got = None \/ got.kind = "Register"
  BY DEF Params
<1>4. Sig => got = None \/ got.kind = "Sign"
  BY DEF Sig
<1>5. Sigma => got = None \/ got.kind = "Tran"
  BY DEF Sigma
<1> QED
  BY <1>1, <1>2, <1>3, <1>4, <1>5 DEF CodecInv

(* The fields of a response that was read, by the round trips above. *)
LEMMA ReadRegister ==
    ASSUME CodecInv, got.kind = "Register"
    PROVE  /\ got.m = sent.m /\ sent.m \in Nat /\ wire.m = Digits(sent.m, Hex)
           /\ got.c1 = sent.c1 /\ InPlace(got.PK, sent.PK)
<1>1. Params /\ got # None
  BY ReadKind, Zenon
<1>2. PICK m \in Nat, PK \in Seq(Pts), c1 \in Seq(Nat), junk \in Junk :
         /\ sent = [kind |-> "Register", m |-> m, PK |-> PK, c1 |-> c1]
         /\ wire = [kind |-> "Register", m |-> mpz_to_str(m),
                    pk |-> ECP2Arr_to_str(PK, junk), cj |-> mpzArr_to_str(c1)]
         /\ got = [kind |-> "Register", m |-> str_to_mpz(mpz_to_str(m)),
                   PK |-> str_to_ECP2Arr(ECP2Arr_to_str(PK, junk)),
                   c1 |-> str_to_mpzArr(mpzArr_to_str(c1))]
  BY <1>1, Zenon DEF Params
<1>3. sent.m = m /\ sent.PK = PK /\ sent.c1 = c1 /\ wire.m = mpz_to_str(m)
  BY <1>2
<1>4. /\ got.m = str_to_mpz(mpz_to_str(m)) /\ got.PK = str_to_ECP2Arr(ECP2Arr_to_str(PK, junk))
      /\ got.c1 = str_to_mpzArr(mpzArr_to_str(c1))
  BY <1>2
<1>5. InPlace(got.PK, sent.PK)
  BY <1>3, <1>4, G2VectorArrives, Zenon
<1> QED
  BY <1>3, <1>4, <1>5, NumberArrives, NumberVectorArrives, Zenon DEF mpz_to_str

LEMMA ReadSign ==
    ASSUME CodecInv, got.kind = "Sign"
    PROVE  got.cj = sent.cj /\ got.id = sent.id /\ (sent.sig # Infinity => got.sig = sent.sig)
<1>1. Sig /\ got # None
  BY ReadKind, Zenon
<1>2. PICK cj \in Nat, sig \in Pts, id \in Nat, junk \in Junk :
         /\ sent = [kind |-> "Sign", cj |-> cj, sig |-> sig, id |-> id]
         /\ got = [kind |-> "Sign", cj |-> str_to_mpz(mpz_to_str(cj)),
                   sig |-> str_to_ECP(ECP_to_str(sig, junk)), id |-> str_to_mpz(mpz_to_str(id))]
  BY <1>1, Zenon DEF Sig
<1>3. /\ sent.cj = cj /\ sent.sig = sig /\ sent.id = id
      /\ got.cj = str_to_mpz(mpz_to_str(cj)) /\ got.sig = str_to_ECP(ECP_to_str(sig, junk))
      /\ got.id = str_to_mpz(mpz_to_str(id))
  BY <1>2
<1>4. sig # Infinity => str_to_ECP(ECP_to_str(sig, junk)) = sig
  BY ECPArrives, Zenon DEF Pts
<1> QED
  BY <1>3, <1>4, NumberArrives, Zenon

LEMMA ReadTran ==
    ASSUME CodecInv, got.kind = "Tran"
    PROVE  got.aux = sent.aux /\ got.IDs = sent.IDs /\ InPlace(got.sig, sent.sig)
<1>1. Sigma /\ got # None
  BY ReadKind, Zenon
<1>2. PICK aux \in Seq(Nat), sig \in Seq(Pts), IDs \in Seq(Nat), junk \in Junk :
         /\ sent = [kind |-> "Tran", aux |-> aux, sig |-> sig, IDs |-> IDs]
         /\ got = [kind |-> "Tran", aux |-> str_to_mpzArr(mpzArr_to_str(aux)),
                   sig |-> str_to_ECPArr(ECPArr_to_str(sig, junk)), IDs |-> str_to_mpzArr(mpzArr_to_str(IDs))]
  BY <1>1, Zenon DEF Sigma
<1>3. /\ sent.aux = aux /\ sent.sig = sig /\ sent.IDs = IDs
      /\ got.aux = str_to_mpzArr(mpzArr_to_str(aux)) /\ got.sig = str_to_ECPArr(ECPArr_to_str(sig, junk))
      /\ got.IDs = str_to_mpzArr(mpzArr_to_str(IDs))
  BY <1>2
<1>4. InPlace(got.sig, sent.sig)
  BY <1>3, G1VectorArrives, Zenon
<1> QED
  BY <1>3, <1>4, NumberVectorArrives, Zenon

-----------------------------------------------------------------------------
(* Whatever the widths, the field, the group and the values sent: numbers  *)
(* arrive with their values and vectors with their lengths (NumbersArrive),*)
(* so that the verifier's three vectors have the rows AggSig built.        *)
THEOREM NumbersAlwaysArrive == Spec => []NumbersArrive
<1>1. CodecInv => NumbersArrive
  BY ReadRegister, ReadSign, ReadTran, Zenon DEF NumbersArrive, InPlace
<1> QED
  BY <1>1, CodecInvariant, PTL

(* A finite point arrives as itself and in its place, beside any encoding  *)
(* of a point at infinity (FinitePointsArrive): G1 as two numbers, G2 as x *)
(* and the sign of y, which determine the point because F is odd and has   *)
(* no divisors of zero.                                                    *)
THEOREM FinitePointsAlwaysArrive == Spec => []FinitePointsArrive
<1>1. CodecInv => FinitePointsArrive
  BY ReadRegister, ReadSign, ReadTran, Zenon DEF FinitePointsArrive, InPlace
<1> QED
  BY <1>1, CodecInvariant, PTL

(* mpz_to_BIG of the message a node reads is the message of the handler,   *)
(* or its leading digits if it has more than a scalar, whatever its length *)
(* (MessageByLeadingDigits).                                               *)
THEOREM MessageAlwaysByLeadingDigits == Spec => []MessageByLeadingDigits
<1>1. CodecInv => MessageByLeadingDigits
  <2> SUFFICES ASSUME CodecInv, got.kind = "Register"
               PROVE  LeadingDigits(sent.m, Len(wire.m)) /\ got.m = sent.m
    BY Zenon DEF MessageByLeadingDigits, LeadingDigits
  <2> QED
    BY ReadRegister, MpzToBIG, Zenon
<1> QED
  BY <1>1, CodecInvariant, PTL

(* The compressed octet of every point sent fits the buffer of two         *)
(* coordinates (OctetFits), from BigLen = 2 on.                            *)
THEOREM OctetAlwaysFits == Spec => []OctetFits
<1>1. CodecInv => OctetFits
  <2> SUFFICES ASSUME CodecInv, wire.kind = "Register"
               PROVE  \A k \in DOMAIN Pieces(wire.pk, Semicolon) : Len(Pieces(wire.pk, Semicolon)[k]) <= 2 * BigLen
    BY Zenon DEF OctetFits
  <2>1. Params
    BY KindOf, Zenon
  <2>2. PICK m \in Nat, PK \in Seq(Pts), c1 \in Seq(Nat), junk \in Junk :
           wire = [kind |-> "Register", m |-> mpz_to_str(m),
                   pk |-> ECP2Arr_to_str(PK, junk), cj |-> mpzArr_to_str(c1)]
    BY <2>1, Zenon DEF Params
  <2>3. wire.pk = ECP2Arr_to_str(PK, junk)
    BY <2>2
  <2>4. \A k \in DOMAIN Pieces(wire.pk, Semicolon) : Len(Pieces(wire.pk, Semicolon)[k]) = BigLen + 2
    BY <2>3, G2VectorArrives, Zenon
  <2>5. BigLen + 2 <= 2 * BigLen
    BY CodecAssumption
  <2> QED
    BY <2>4, <2>5, Zenon
<1> QED
  BY <1>1, CodecInvariant, PTL
=============================================================================
