\* Four workers compete for two goods; nothing fails.
SPECIFICATION Spec
CONSTANTS
    Workers = {w1, w2, w3, w4}
    None = None
    Requests <- MCBuyers
    usr_info <- MCUsrInfo
    Goods = 2
    RETRYCOUNT = 2
    RedisNullSafe = FALSE
    Faults = {}
SYMMETRY Symmetry
INVARIANTS
    ReservationBudget
    OrdersAreMarked
    SomebodyWins
