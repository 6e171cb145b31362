\* Few enough requests for the gate: all are answered and all workers are deleted.
SPECIFICATION FairSpec
CONSTANTS
    Threads = {t1, t2}
    Workers = {w1, w2}
    None = None
    Requests <- MCMixed
    usr_info <- MCUsrInfo
    Goods = 6
    StaleEntries = 1
    Faults <- ServerFaults
INVARIANTS
    TypeOK
    OneListener
    OneOwner
PROPERTIES
    RequestsAreAnswered
    WorkersAreDeleted
