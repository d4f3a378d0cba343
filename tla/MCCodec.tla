------------------------------- MODULE MCCodec -------------------------------
(* The group of order 7 of y^2 = x^3 + 4 over the field of 13 elements. *)
EXTENDS Codec

(* The multiples 1 .. 6 of (7, 3). *)
Multiples == << <<7, 3>>, <<11, 3>>, <<8, 10>>, <<8, 3>>, <<11, 10>>, <<7, 10>> >>
=============================================================================
