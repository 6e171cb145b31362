\* Every thread waits at the gate while the events that would open it are in the queue.
SPECIFICATION FairSpec
CONSTANTS
    Threads = {t1, t2}
    Workers = {w1, w2, w3}
    None = None
    Requests <- MCMixed
    usr_info <- MCUsrInfo
    Goods = 2
    StaleEntries = 0
    Faults = {}
PROPERTY
    RequestsAreAnswered
