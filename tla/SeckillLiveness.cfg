\* Everything fails that can fail, a COMMIT and the whole process included.
SPECIFICATION FairSpec
CONSTANTS
    Workers = {w1, w2}
    None = None
    Requests <- MCAnyone
    usr_info <- MCUsrInfo
    Goods = 1
    RETRYCOUNT = 2
    RedisNullSafe = FALSE
    Faults <- FaultKinds
INVARIANTS
    TypeOK
    NoWatchLeak
    StockMatchesOrders
PROPERTIES
    RequestsAreAnswered
    ImplementsSale
