\* q = 2311, q - 1 = 2 * 3 * 5 * 7 * 11; the loop passes at most 2 * 3 * 5 * 7 values
CONSTANTS
    module = 2310
    Factors = {2, 3, 5, 7, 11}
    inc = 11
    MaxHash = 4620
SPECIFICATION FairSpec
INVARIANTS TypeOK MultipleNeverReturns ResultInvertible
PROPERTY OthersReturn
CHECK_DEADLOCK FALSE
