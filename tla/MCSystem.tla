------------------------------ MODULE MCSystem ------------------------------
(* Small instances of System for TLC. *)
EXTENDS SystemInv

CONSTANTS idA, idB

(* The UAVs draw different IDs. *)
DistinctDraws == [c \in Client |-> IF c = uavProc(0) THEN {idA} ELSE {idB}]

(* One UAV may draw the ID of the other, or q; verifiers draw the reserved *)
(* ID.                                                                     *)
AnyDraws ==
    [c \in Client |-> IF c = uavProc(0) THEN {idA}
                      ELSE IF c = uavProc(1) THEN {idA, idB, ZeroId}
                      ELSE {HeadId}]

(* What initParams may draw: nothing that is 0 modulo q; the g; the first  *)
(* b_i, which also zeroes the share of the ID q; a d_i and a b_i that      *)
(* together zero the share of idA.                                         *)
Fine == [gZero |-> FALSE, PKInf |-> FALSE, zeros |-> {}]
ZeroG == [Fine EXCEPT !.gZero = TRUE]
InfinitePK == [Fine EXCEPT !.PKInf = TRUE, !.zeros = {ZeroId}]
ZeroShare == [Fine EXCEPT !.zeros = {idA}]

FineDraws == {Fine}
ZeroShareDraws == {Fine, ZeroShare}
DegenerateDraws == {Fine, ZeroG, InfinitePK, ZeroShare}

(* A UAV that is started again may draw another ID than before, one of     *)
(* them the reserved ID.                                                   *)
RestartDraws ==
    [c \in Client |-> IF c = uavProc(0) THEN {idA, idB} ELSE {idA, HeadId}]
=============================================================================
