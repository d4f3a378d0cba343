CONSTANTS
    Clients = {c1, c2, c3}
    max = 2
    MaxFds = 3
    Numbers = 2

SPECIFICATION FairSpec

INVARIANTS
    EchoIsOwn
    SlotIsExclusive

PROPERTIES
    ServedIsAnswered
    LastSlotAdmits

CHECK_DEADLOCK FALSE
