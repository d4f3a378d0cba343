----------------------------- MODULE MCFussion -----------------------------
(* Small instances of Fussion for TLC. *)
EXTENDS Fussion

CONSTANT Shifts     \* hash functions x -> x + k, for k in Shifts

ShiftHashes == {[x \in 0 .. q + M |-> x + k] : k \in Shifts}

(* fussion() as it is: n = 2 and tm = 2, every pair of IDs. *)
Pair == [n |-> 2, tm |-> 2, Gs |-> {3, 4, 7}, Coefs |-> {4, 7}, IDs |-> rand_mpz,
         Exps |-> {5, 6, 7}]

(* t = 3 of n = 3 signers, three coefficients of which two are used. *)
Triple == [n |-> 3, tm |-> 4, Gs |-> {3}, Coefs |-> {3, 6}, IDs |-> {1, 3, 4, 6, 7},
           Exps |-> {5}]

PairAndTriple == {Pair, Triple}
=============================================================================
