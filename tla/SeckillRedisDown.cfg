\* Redis cannot be reached: LPUSH on the NULL context.
SPECIFICATION Spec
CONSTANTS
    Workers = {w1, w2}
    None = None
    Requests <- MCBuyers
    usr_info <- MCUsrInfo
    Goods = 1
    RETRYCOUNT = 2
    RedisNullSafe = FALSE
    Faults = {"redis_down"}

INVARIANT
    RedisDownIsServed
