\* Main, three threads and the limit of four MySQL connections, which die at any time.
SPECIFICATION MCSpec
CONSTANTS
    main = main
    Threads = {main, t1, t2, t3}
    Conns = {1, 2, 3, 4}
    Contexts = {1, 2, 3, 4, 5}
    NULL = NULL
    MAX_CONNECT = 4
    REDIS_MAX_CONNECTCOUNT = 5
SYMMETRY Symmetry
INVARIANTS
    TypeOK
    CountIsExact
    OneOwner
    NeverTooMany
    ContextOneOwner
    ContextsBounded
PROPERTY
    HandsOutLive
