\* Three client threads, two users, two items, two starts, every failure.
SPECIFICATION MCSpec
CONSTANTS
    Users = 2
    NoComma = 2
    Goods = 2
    Nil = Nil
    MaxStarts = 2
    Faults <- FaultKinds
    Threads = {t1, t2, t3}
    Few = 2
    testType = 5
SYMMETRY Symmetry
INVARIANTS
    TypeOK
    CacheNeverAhead
    SuccessesAreOrders
    ChecksSeeFinalCount
    OversellIsReported
    SoldPerStart
    SomebodyChecks
PROPERTIES
    StartRepairs
    ServesTheSale
