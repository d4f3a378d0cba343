\* every a up to 24 modulo every m up to 16: a = 0, a < m, a = m, a > m, common factors
CONSTANTS
    A <- AllA
    M <- AllM
SPECIFICATION FairSpec
INVARIANTS TypeOK Bezout InverseFound
PROPERTY Terminates
CHECK_DEADLOCK FALSE
