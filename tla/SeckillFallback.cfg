\* Workers with and without Redis, on a client library that survives a NULL context.
SPECIFICATION Spec
CONSTANTS
    Workers = {w1, w2, w3}
    None = None
    Requests <- MCAnyone
    usr_info <- MCUsrInfo
    Goods = 2
    RETRYCOUNT = 1
    RedisNullSafe = TRUE
    Faults <- MCFallbackFaults
SYMMETRY Symmetry
INVARIANTS
    StockMatchesOrders
    RowLockProtects
    OrdersMatchAnswers
PROPERTY
    ImplementsSale
