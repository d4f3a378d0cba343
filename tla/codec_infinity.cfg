CONSTANTS
    Hex = 4
    Dec = 3
    Oct = 2
    ScalarLen = 2
    BigLen = 4
    F = 13
    G <- Multiples
    Draws = {1, 3, 7}
    Nums = {0, 3, 8}
    Msgs = {0, 3, 15, 16, 27, 70}
    MaxLen = 2

SPECIFICATION Spec

INVARIANT
    PublicKeyArrives

CHECK_DEADLOCK FALSE
