\* A first start without failures, of which the statement that registers the users is
\* not well-formed.
SPECIFICATION MCSpec
CONSTANTS
    Users = 4
    NoComma = 3
    Goods = 1
    Nil = Nil
    MaxStarts = 1
    Faults = {}
    Threads = {t1, t2}
    Few = 2
    testType = 1
INVARIANT
    UsersRegistered
