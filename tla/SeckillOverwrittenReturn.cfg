\* Nothing fails: two sold-out workers hand items back, the second overwrites the first.
SPECIFICATION Spec
CONSTANTS
    Workers = {w1, w2, w3, w4, w5}
    None = None
    Requests <- MCOneUser
    usr_info <- MCUsrInfo
    Goods = 3
    RETRYCOUNT = 1
    RedisNullSafe = FALSE
    Faults = {}
SYMMETRY Symmetry
INVARIANT
    NoItemLost
