\* Two threads, four requests, two goods: the gate closes and opens.
SPECIFICATION Spec
CONSTANTS
    Threads = {t1, t2}
    Workers = {w1, w2, w3, w4}
    None = None
    Requests <- MCBuyers
    usr_info <- MCUsrInfo
    Goods = 2
    StaleEntries = 0
    Faults = {}
SYMMETRY Symmetry
INVARIANTS
    WorkListCounts
    AdmissionBound
    OpenGateMeansSoldOut
