------------------------------- MODULE Seckill -------------------------------
(***************************************************************************)
(* The PROCESS branch of Worker::Proceed (Worker.cc): what one worker      *)
(* thread does with one request, against the Redis cache, the MySQL tables *)
(* and the two counters the threads share.  Many workers run it at once.   *)
(*                                                                         *)
(* A step is one command sent to Redis or MySQL, or one access to shared   *)
(* memory.  Each such call may go wrong in the ways listed in Faults.      *)
(* The life of a Worker before and after this branch (work_list, the       *)
(* completion queue, the admission gate) is in Server.tla.                 *)
(***************************************************************************)
EXTENDS Integers, FiniteSets

CONSTANTS
    Workers,       \* one Worker object per request
    None,          \* no lock holder
    Requests,      \* the requests a client may send: [usrname, usrkey] records
    usr_info,      \* the registered users: a function from name to key
    Goods,         \* g_totalcount of goods '10' at the start of the sale
    RETRYCOUNT,    \* attempts at the Redis transaction
    RedisNullSafe, \* does redisCommand survive a NULL context?  FALSE for the
                   \* bundled hiredis 0.14, which dereferences it
    Faults         \* the failures the environment may inject

(***************************************************************************)
(* redis_down   getOneConnect returns NULL: Redis cannot be reached        *)
(* redis_drop   the connection fails before the command is executed        *)
(* redis_lost   the command is executed but its reply never arrives        *)
(* mysql_down   getOneConnect returns NULL: MySQL cannot be reached        *)
(* mysql_error  a statement fails and its transaction stays open           *)
(* mysql_drop   the connection fails: the server rolls the transaction back*)
(* commit_drop  the connection fails before COMMIT is executed             *)
(***************************************************************************)
FaultKinds == {"redis_down", "redis_drop", "redis_lost",
               "mysql_down", "mysql_error", "mysql_drop", "commit_drop"}

ASSUME WorkersAssumption == IsFiniteSet(Workers) /\ None \notin Workers
ASSUME CountAssumption == Goods \in Nat /\ RETRYCOUNT \in Nat
ASSUME ModeAssumption == RedisNullSafe \in BOOLEAN /\ Faults \subseteq FaultKinds

VARIABLES
    alive,         \* the server process is running
    request,       \* request_ of each worker
    pc,            \* the call each worker makes next
    response,      \* response_.result of each worker, "none" until it is set
    \* Redis
    conn,          \* state of each worker's redisContext
    watch,         \* the WATCH of total_count on that connection
    total_count,   \* key total_count
    redis_orders,  \* fields of the hash order_info
    repeatCount,   \* attempts of each worker
    \* MySQL
    mconn,         \* state of each worker's MYSQL connection
    g_totalcount,  \* committed stock of goods '10'
    order_info,    \* committed rows: the names (PRIMARY KEY) with an order
    rowLock,       \* holder of the lock on the goods row
    seen,          \* local total_count of each worker
    tx,            \* uncommitted writes of each worker
    isSuc,         \* local isSuc of each worker
    \* memory shared by the threads
    failedCount, rwlock, successNum,
    num            \* the value of *successNum_ a worker is incrementing

redisVars == <<conn, watch, total_count, redis_orders, repeatCount>>
mysqlVars == <<mconn, g_totalcount, order_info, rowLock, seen, tx, isSuc>>
sharedVars == <<failedCount, rwlock, successNum, num>>
vars == <<alive, request, pc, response, redisVars, mysqlVars, sharedVars>>

Labels == {"new", "checkUserInfo", "checkUserHasGot", "WATCH", "GET", "MULTI",
           "EXEC", "retry", "soldOut", "SET", "setReply", "setFailed",
           "SELECT", "UPDATE", "INSERT", "end", "record", "incRead",
           "incWrite", "done"}

usr_name(w) == request[w].usrname

TypeOK ==
    /\ alive \in BOOLEAN
    /\ request \in [Workers -> Requests]
    /\ pc \in [Workers -> Labels]
    /\ response \in [Workers -> {"none", "0", "1"}]
    /\ conn \in [Workers -> {"none", "ok", "broken", "null"}]
    /\ watch \in [Workers -> {"none", "clean", "dirty"}]
    /\ total_count \in Int
    /\ redis_orders \subseteq {r.usrname : r \in Requests}
    /\ repeatCount \in [Workers -> Nat]
    /\ mconn \in [Workers -> {"none", "ok", "broken", "null"}]
    /\ g_totalcount \in Int
    /\ order_info \subseteq {r.usrname : r \in Requests}
    /\ rowLock \in Workers \union {None}
    /\ seen \in [Workers -> Int]
    /\ tx \in [Workers -> SUBSET {"update", "insert"}]
    /\ isSuc \in [Workers -> BOOLEAN]
    /\ failedCount \in Nat
    /\ rwlock \in Workers \union {None}
    /\ successNum \in Nat
    /\ num \in [Workers -> Nat]

\* prepareForSeckill has filled both stores and Run has zeroed the counters.
Init ==
    /\ alive = TRUE
    /\ request \in [Workers -> Requests]
    /\ pc = [w \in Workers |-> "new"]
    /\ response = [w \in Workers |-> "none"]
    /\ conn = [w \in Workers |-> "none"]
    /\ watch = [w \in Workers |-> "none"]
    /\ total_count = Goods
    /\ redis_orders = {}
    /\ repeatCount = [w \in Workers |-> 0]
    /\ mconn = [w \in Workers |-> "none"]
    /\ g_totalcount = Goods
    /\ order_info = {}
    /\ rowLock = None
    /\ seen = [w \in Workers |-> 0]
    /\ tx = [w \in Workers |-> {}]
    /\ isSuc = [w \in Workers |-> TRUE]
    /\ failedCount = 0
    /\ rwlock = None
    /\ successNum = 0
    /\ num = [w \in Workers |-> 0]

-----------------------------------------------------------------------------
(***************************************************************************)
(* Control and the two client libraries.  NoWatch, NoUnwatch, NoForUpdate, *)
(* ErrorIgnored and the like are seeded bugs: each has the shape of the    *)
(* definition that follows it, and no action uses it.                      *)
(***************************************************************************)
At(w, label) == alive /\ pc[w] = label

Goto(w, label) == pc' = [pc EXCEPT ![w] = label] /\ UNCHANGED <<alive, request>>

\* response_.set_result(r) on a path that ends the branch
Answer(w, r) ==
    /\ response' = [response EXCEPT ![w] = r]
    /\ Goto(w, "done")

\* redisCommand: the command is executed and its reply arrives.
Replies(w) == conn[w] = "ok" /\ UNCHANGED conn

\* redisCommand returns NULL and the command was not executed.  Once a context
\* has failed, hiredis refuses every later command on it.
Refused(w) ==
    /\ \/ conn[w] = "broken"
       \/ conn[w] = "ok" /\ "redis_drop" \in Faults
    /\ conn' = [conn EXCEPT ![w] = "broken"]

\* redisCommand returns NULL although Redis executed the command.
ReplyLost(w) ==
    /\ conn[w] = "ok" /\ "redis_lost" \in Faults
    /\ conn' = [conn EXCEPT ![w] = "broken"]

\* A write to total_count by w: every other connection watching it is spoilt,
\* the watch on w's own connection becomes own.
TouchTotal(w, own) ==
    watch' = [v \in Workers |-> IF v = w THEN own
                                ELSE IF watch[v] = "clean" THEN "dirty"
                                ELSE watch[v]]

\* WATCH total_count and UNWATCH, when the command reaches Redis.
NoWatch(w) == UNCHANGED watch
WATCH(w) == watch' = [watch EXCEPT ![w] = "clean"]

NoUnwatch(w) == UNCHANGED watch
UNWATCH(w) == watch' = [watch EXCEPT ![w] = "none"]

\* mysql_query fails.  A lost connection also ends the transaction.
QueryFails(w) ==
    \/ /\ \/ mconn[w] = "broken"
          \/ mconn[w] = "ok" /\ "mysql_drop" \in Faults
       /\ mconn' = [mconn EXCEPT ![w] = "broken"]
       /\ tx' = [tx EXCEPT ![w] = {}]
       /\ rowLock' = IF rowLock = w THEN None ELSE rowLock
    \/ /\ mconn[w] = "ok" /\ "mysql_error" \in Faults
       /\ UNCHANGED <<mconn, tx, rowLock>>

\* The lock InnoDB takes on the goods row, kept until the transaction ends:
\* for UPDATE always, for SELECT because of FOR UPDATE.
LockRow(w) == rowLock \in {None, w} /\ rowLock' = w

NoForUpdate(w) == UNCHANGED rowLock
ForUpdate(w) == LockRow(w)

\* No uncommitted row of the same user, which a locking statement waits for.
NoPendingOrder(w) ==
    \A v \in Workers : "insert" \in tx[v] => usr_name(v) # usr_name(w)

EndTx(w) ==
    /\ tx' = [tx EXCEPT ![w] = {}]
    /\ rowLock' = IF rowLock = w THEN None ELSE rowLock

\* COMMIT and ROLLBACK as the server executes them.
CommitTx(w) ==
    /\ g_totalcount' = IF "update" \in tx[w] THEN seen[w] - 1 ELSE g_totalcount
    /\ order_info' = IF "insert" \in tx[w] THEN order_info \union {usr_name(w)}
                     ELSE order_info
    /\ EndTx(w)

RollbackTx(w) == EndTx(w) /\ UNCHANGED <<g_totalcount, order_info>>

\* if (mysql_query(...)) isSuc = false;
ErrorIgnored(w) == UNCHANGED isSuc
Failed(w) == isSuc' = [isSuc EXCEPT ![w] = FALSE]

\* pthread_rwlock_unlock after the items are handed back
NoUnlock == UNCHANGED rwlock
Unlock == rwlock' = None

-----------------------------------------------------------------------------
(***************************************************************************)
(* Proceed: the connections, the user check and the duplicate check.       *)
(***************************************************************************)
\* RedisPool hands out a context without testing it, so it may be broken;
\* MysqlPool pings.  Either pool returns NULL when it cannot connect.
Start(w) ==
    /\ At(w, "new")
    /\ \/ conn' = [conn EXCEPT ![w] = "ok"]
       \/ "redis_drop" \in Faults /\ conn' = [conn EXCEPT ![w] = "broken"]
       \/ "redis_down" \in Faults /\ RedisNullSafe /\ conn' = [conn EXCEPT ![w] = "null"]
    /\ \/ mconn' = [mconn EXCEPT ![w] = "ok"]
       \/ "mysql_down" \in Faults /\ mconn' = [mconn EXCEPT ![w] = "null"]
    /\ Goto(w, "checkUserInfo")
    /\ UNCHANGED <<response, watch, total_count, redis_orders, repeatCount,
                   g_totalcount, order_info, rowLock, seen, tx, isSuc, sharedVars>>

\* LPUSH on the NULL context of an unreachable Redis kills the process.
StartCrash(w) ==
    /\ At(w, "new")
    /\ "redis_down" \in Faults /\ ~RedisNullSafe
    /\ alive' = FALSE
    /\ conn' = [conn EXCEPT ![w] = "null"]
    /\ UNCHANGED <<request, pc, response, watch, total_count, redis_orders,
                   repeatCount, mysqlVars, sharedVars>>

\* if (usr_key == key)
AnyKey(w) == usr_name(w) \in DOMAIN usr_info
KeyMatches(w) ==
    /\ usr_name(w) \in DOMAIN usr_info
    /\ usr_info[usr_name(w)] = request[w].usrkey

\* HGET usr_info; a command that fails counts as a wrong key.
checkUserInfo(w) ==
    /\ At(w, "checkUserInfo")
    /\ \/ Replies(w) /\ KeyMatches(w) /\ Goto(w, "checkUserHasGot") /\ UNCHANGED response
       \/ Replies(w) /\ ~KeyMatches(w) /\ Answer(w, "0")
       \/ Refused(w) /\ Answer(w, "0")
    /\ UNCHANGED <<watch, total_count, redis_orders, repeatCount,
                   mysqlVars, sharedVars>>

\* Without Redis: SELECT usr_key FROM usr_info.
checkUserInfo_mysql(w) ==
    /\ At(w, "checkUserInfo")
    /\ conn[w] = "null"
    /\ \/ /\ mconn[w] = "ok" /\ UNCHANGED <<mconn, tx, rowLock>>
          /\ \/ KeyMatches(w) /\ Goto(w, "checkUserHasGot") /\ UNCHANGED response
             \/ ~KeyMatches(w) /\ Answer(w, "0")
       \/ QueryFails(w) /\ Answer(w, "0")
    /\ UNCHANGED <<redisVars, g_totalcount, order_info, seen, isSuc, sharedVars>>

\* HGET order_info; a command that fails counts as "no order yet".
checkUserHasGot(w) ==
    /\ At(w, "checkUserHasGot")
    /\ \/ Replies(w) /\ usr_name(w) \in redis_orders /\ Answer(w, "0")
       \/ /\ \/ Replies(w) /\ usr_name(w) \notin redis_orders
             \/ Refused(w)
          /\ Goto(w, "WATCH") /\ UNCHANGED response
    /\ UNCHANGED <<watch, total_count, redis_orders, repeatCount,
                   mysqlVars, sharedVars>>

\* Without Redis: SELECT * FROM order_info ... FOR UPDATE, whose lock is gone
\* before the function returns (mysql_autocommit(ON) commits).
checkUserHasGot_mysql(w) ==
    /\ At(w, "checkUserHasGot")
    /\ conn[w] = "null"
    /\ \/ /\ mconn[w] = "ok" /\ NoPendingOrder(w) /\ UNCHANGED <<mconn, tx, rowLock>>
          /\ \/ usr_name(w) \in order_info /\ Answer(w, "0")
             \/ usr_name(w) \notin order_info /\ Goto(w, "SELECT") /\ UNCHANGED response
       \/ QueryFails(w) /\ Goto(w, "SELECT") /\ UNCHANGED response
    /\ UNCHANGED <<redisVars, g_totalcount, order_info, seen, isSuc, sharedVars>>

-----------------------------------------------------------------------------
(***************************************************************************)
(* seckillGoods: the optimistic transaction on total_count in Redis.       *)
(***************************************************************************)
WatchTotal(w) ==
    /\ At(w, "WATCH")
    /\ repeatCount' = [repeatCount EXCEPT ![w] = @ + 1]
    /\ \/ Replies(w) /\ WATCH(w)
       \/ Refused(w) /\ UNCHANGED watch
    /\ Goto(w, "GET")
    /\ UNCHANGED <<response, total_count, redis_orders, mysqlVars, sharedVars>>

\* if (currGoods_count > 0)
OnSale == total_count > 0

GetTotal(w) ==
    /\ At(w, "GET")
    /\ \/ Replies(w) /\ OnSale /\ Goto(w, "MULTI") /\ UNCHANGED response
       \/ Replies(w) /\ ~OnSale /\ Goto(w, "soldOut") /\ UNCHANGED response
       \/ Refused(w) /\ Answer(w, "0")
    /\ UNCHANGED <<watch, total_count, redis_orders, repeatCount,
                   mysqlVars, sharedVars>>

\* MULTI; on success DECR and HMSET are queued on the connection.
Multi(w) ==
    /\ At(w, "MULTI")
    /\ \/ Replies(w) /\ Goto(w, "EXEC")
       \/ Refused(w) /\ Goto(w, "retry")
    /\ UNCHANGED <<response, watch, total_count, redis_orders, repeatCount,
                   mysqlVars, sharedVars>>

\* The field HMSET order_info adds for the user.
NoMark(w) == UNCHANGED redis_orders
Mark(w) == redis_orders' = redis_orders \union {usr_name(w)}

\* if (... execReply->elements > 1): the reply to EXEC has two elements.
WantsThree(w) == Goto(w, "retry")
HasReplies(w) == Goto(w, "SELECT")

\* EXEC runs DECR total_count and HMSET order_info as one step.
ExecOk(w) ==
    /\ At(w, "EXEC")
    /\ watch[w] # "dirty"
    /\ \/ Replies(w) /\ HasReplies(w)
       \/ ReplyLost(w) /\ Goto(w, "retry")
    /\ total_count' = total_count - 1
    /\ Mark(w)
    /\ TouchTotal(w, "none")
    /\ UNCHANGED <<response, repeatCount, mysqlVars, sharedVars>>

\* EXEC answers nil because total_count was written after the WATCH, or fails.
ExecAbort(w) ==
    /\ At(w, "EXEC")
    /\ \/ watch[w] = "dirty" /\ Replies(w) /\ watch' = [watch EXCEPT ![w] = "none"]
       \/ Refused(w) /\ UNCHANGED watch
    /\ Goto(w, "retry")
    /\ UNCHANGED <<response, total_count, redis_orders, repeatCount,
                   mysqlVars, sharedVars>>

\* UNWATCH, whose reply is ignored, and the recursive call or the surrender.
Retry(w) ==
    /\ At(w, "retry")
    /\ \/ Replies(w) /\ UNWATCH(w)
       \/ Refused(w) /\ UNCHANGED watch
    /\ \/ repeatCount[w] < RETRYCOUNT /\ Goto(w, "WATCH") /\ UNCHANGED response
       \/ repeatCount[w] >= RETRYCOUNT /\ Answer(w, "0")
    /\ UNCHANGED <<total_count, redis_orders, repeatCount, mysqlVars, sharedVars>>

\* Nothing left in Redis: UNWATCH, then pthread_rwlock_wrlock.
SoldOut(w) ==
    /\ At(w, "soldOut")
    /\ rwlock = None
    /\ rwlock' = w
    /\ \/ Replies(w) /\ UNWATCH(w)
       \/ Refused(w) /\ UNCHANGED watch
    /\ Goto(w, "SET")
    /\ UNCHANGED <<response, total_count, redis_orders, repeatCount,
                   mysqlVars, failedCount, successNum, num>>

\* The items MySQL refused go back on sale: SET total_count failedCount.
SetTotal(w) ==
    /\ At(w, "SET")
    /\ failedCount > 0
    /\ \/ /\ \/ Replies(w) /\ Goto(w, "setReply")
             \/ ReplyLost(w) /\ Goto(w, "setFailed")
          /\ total_count' = failedCount
          /\ TouchTotal(w, watch[w])
       \/ /\ Refused(w) /\ Goto(w, "setFailed")
          /\ UNCHANGED <<watch, total_count>>
    /\ UNCHANGED <<response, redis_orders, repeatCount, mysqlVars, sharedVars>>

\* *failedCount_ = 0 only after an OK; then unlock and answer "0".
ReleaseFailed(w) ==
    /\ \/ At(w, "SET") /\ failedCount = 0 /\ UNCHANGED failedCount
       \/ At(w, "setReply") /\ failedCount' = 0
       \/ At(w, "setFailed") /\ UNCHANGED failedCount
    /\ Unlock
    /\ Answer(w, "0")
    /\ UNCHANGED <<redisVars, mysqlVars, successNum, num>>

-----------------------------------------------------------------------------
(***************************************************************************)
(* seckillGoods_mysql: the order in MySQL, in one transaction.             *)
(***************************************************************************)
\* SELECT ... FOR UPDATE waits for the row.  No stock: the early return, whose
\* mysql_autocommit(ON) ends the transaction.
Select(w) ==
    /\ At(w, "SELECT")
    /\ mconn[w] = "ok"
    /\ rowLock = None
    /\ seen' = [seen EXCEPT ![w] = g_totalcount]
    /\ \/ /\ g_totalcount > 0
          /\ ForUpdate(w)
          /\ Goto(w, "UPDATE") /\ UNCHANGED response
       \/ /\ g_totalcount <= 0
          /\ Answer(w, "0") /\ UNCHANGED rowLock
    /\ UNCHANGED <<redisVars, mconn, g_totalcount, order_info, tx, isSuc, sharedVars>>

\* The SELECT fails: total_count stays 0, so the function takes the early
\* return as well and failedCount is not incremented.
SelectFails(w) ==
    /\ At(w, "SELECT")
    /\ QueryFails(w)
    /\ Failed(w)
    /\ Answer(w, "0")
    /\ UNCHANGED <<redisVars, g_totalcount, order_info, seen, sharedVars>>

\* The first call on the NULL connection of an unreachable MySQL kills the
\* process: mysql_autocommit here, mysql_query in the checks without Redis.
MysqlCrash(w) ==
    /\ alive
    /\ mconn[w] = "null"
    /\ \/ pc[w] = "SELECT"
       \/ conn[w] = "null" /\ pc[w] \in {"checkUserInfo", "checkUserHasGot"}
    /\ alive' = FALSE
    /\ UNCHANGED <<request, pc, response, redisVars, mysqlVars, sharedVars>>

Update(w) ==
    /\ At(w, "UPDATE")
    /\ \/ /\ mconn[w] = "ok" /\ LockRow(w)
          /\ tx' = [tx EXCEPT ![w] = @ \union {"update"}]
          /\ UNCHANGED <<mconn, isSuc>>
       \/ QueryFails(w) /\ Failed(w)
    /\ Goto(w, "INSERT")
    /\ UNCHANGED <<response, redisVars, g_totalcount, order_info, seen, sharedVars>>

\* The second order of a user violates the primary key and fails.
Insert(w) ==
    /\ At(w, "INSERT")
    /\ \/ /\ mconn[w] = "ok" /\ NoPendingOrder(w) /\ usr_name(w) \notin order_info
          /\ tx' = [tx EXCEPT ![w] = @ \union {"insert"}]
          /\ UNCHANGED <<mconn, rowLock, isSuc>>
       \/ /\ mconn[w] = "ok" /\ NoPendingOrder(w) /\ usr_name(w) \in order_info
          /\ Failed(w)
          /\ UNCHANGED <<mconn, rowLock, tx>>
       \/ QueryFails(w) /\ Failed(w)
    /\ Goto(w, "end")
    /\ UNCHANGED <<response, redisVars, g_totalcount, order_info, seen, sharedVars>>

\* mysql_rollback.  Without it mysql_autocommit(ON) would commit what is open.
NoRollback(w) == CommitTx(w)
mysql_rollback(w) == RollbackTx(w)

Rollback(w) ==
    /\ At(w, "end")
    /\ ~isSuc[w]
    /\ mysql_rollback(w)
    /\ Goto(w, "record")
    /\ UNCHANGED <<response, redisVars, mconn, seen, isSuc, sharedVars>>

\* ++ *failedCount_
Decremented == failedCount' = failedCount - 1
CountFailure == failedCount' = failedCount + 1

\* The failure is counted under the write lock.
Record(w) ==
    /\ At(w, "record")
    /\ rwlock = None
    /\ CountFailure
    /\ Answer(w, "0")
    /\ UNCHANGED <<redisVars, mysqlVars, rwlock, successNum, num>>

\* mysql_commit, whose result is not looked at, and the answer "1".
Commit(w) ==
    /\ At(w, "end")
    /\ isSuc[w]
    /\ \/ CommitTx(w) /\ UNCHANGED mconn
       \/ /\ "commit_drop" \in Faults
          /\ RollbackTx(w) /\ mconn' = [mconn EXCEPT ![w] = "broken"]
    /\ response' = [response EXCEPT ![w] = "1"]
    /\ Goto(w, "incRead")
    /\ UNCHANGED <<redisVars, seen, isSuc, sharedVars>>

\* ++ *successNum_ without a lock: a load and a store.
IncRead(w) ==
    /\ At(w, "incRead")
    /\ num' = [num EXCEPT ![w] = successNum]
    /\ Goto(w, "incWrite")
    /\ UNCHANGED <<response, redisVars, mysqlVars, failedCount, rwlock, successNum>>

IncWrite(w) ==
    /\ At(w, "incWrite")
    /\ successNum' = num[w] + 1
    /\ Goto(w, "done")
    /\ UNCHANGED <<response, redisVars, mysqlVars, failedCount, rwlock, num>>

-----------------------------------------------------------------------------
Checks(w) ==
    \/ Start(w) \/ StartCrash(w)
    \/ checkUserInfo(w) \/ checkUserInfo_mysql(w)
    \/ checkUserHasGot(w) \/ checkUserHasGot_mysql(w)

seckillGoods(w) ==
    \/ WatchTotal(w) \/ GetTotal(w) \/ Multi(w) \/ ExecOk(w) \/ ExecAbort(w)
    \/ Retry(w) \/ SoldOut(w) \/ SetTotal(w) \/ ReleaseFailed(w)

seckillGoods_mysql(w) ==
    \/ Select(w) \/ SelectFails(w) \/ MysqlCrash(w) \/ Update(w) \/ Insert(w)
    \/ Rollback(w) \/ Record(w) \/ Commit(w) \/ IncRead(w) \/ IncWrite(w)

Step(w) == Checks(w) \/ seckillGoods(w) \/ seckillGoods_mysql(w)

\* Every request is served, or the process is gone: nothing is left to do.
Finished ==
    /\ ~alive \/ \A w \in Workers : pc[w] = "done"
    /\ UNCHANGED vars

Next == (\E w \in Workers : Step(w)) \/ Finished

Spec == Init /\ [][Next]_vars

\* Every worker has a thread of its own and no call blocks for ever: the
\* scheduler, Redis and MySQL let it go on.
FairSpec == Spec /\ \A w \in Workers : WF_vars(Step(w))

-----------------------------------------------------------------------------
(***************************************************************************)
(* Properties.                                                             *)
(***************************************************************************)
\* Workers that took an item out of Redis and have not settled it in MySQL.
InFlight == {w \in Workers : pc[w] \in {"SELECT", "UPDATE", "INSERT", "end", "record"}}

\* Workers that answer "1".
Winners == {w \in Workers : response[w] = "1"}

AllDone == \A w \in Workers : pc[w] = "done"

\* MySQL never sells more than the stock: what is left of goods '10' and the
\* rows of order_info always add up to the initial stock, whatever fails
\* (SELECT ... FOR UPDATE, isSuc and rollback in seckillGoods_mysql).
StockMatchesOrders ==
    g_totalcount >= 0 /\ g_totalcount + Cardinality(order_info) = Goods

\* The answers agree with the table: the users told "1" are exactly the rows of
\* order_info and no user is told "1" twice, although the duplicate check and
\* the order are separate steps (checkUserHasGot, seckillGoods_mysql).
OrdersMatchAnswers ==
    /\ order_info = {usr_name(w) : w \in Winners}
    /\ \A v, w \in Winners : usr_name(v) = usr_name(w) => v = w

\* The lock of SELECT ... FOR UPDATE covers everything from the SELECT to the end
\* of the transaction: nothing is written without it, and the stock its holder
\* has read (and will write back, less one) is still the committed one.
RowLockProtects ==
    \A w \in Workers :
        /\ pc[w] \in {"UPDATE", "INSERT", "end"} /\ mconn[w] = "ok" => rowLock = w
        /\ tx[w] # {} => rowLock = w
        /\ rowLock = w => /\ pc[w] \in {"UPDATE", "INSERT", "end"}
                          /\ seen[w] = g_totalcount
                          /\ g_totalcount > 0

\* failedCount, counted once while its value is being moved back to Redis.
Recorded == IF \E w \in Workers : pc[w] = "setReply" THEN 0 ELSE failedCount

\* The items on offer in Redis, those recorded for return and those being
\* booked never exceed what MySQL still has: WATCH, the rwlock and the order
\* SET-then-clear in seckillGoods hand out no item twice, and no worker that
\* got an item in Redis meets the sold-out return of seckillGoods_mysql.
ReservationBudget ==
    /\ total_count >= 0
    /\ total_count + Recorded + Cardinality(InFlight) <= g_totalcount

\* A healthy connection goes back to the pool without a pending WATCH, which
\* would abort the next user's EXEC (the UNWATCH calls of seckillGoods).
NoWatchLeak ==
    \A w \in Workers : pc[w] = "done" /\ conn[w] = "ok" => watch[w] = "none"

\* Every order in MySQL is known to the duplicate check in Redis.
OrdersAreMarked == order_info \subseteq redis_orders

\* Contention alone cannot make everybody lose: with goods on sale and a valid
\* request, somebody buys, since EXEC aborts only after another EXEC or SET.
SomebodyWins ==
    AllDone /\ Goods > 0 /\ RETRYCOUNT > 0 /\ (\E w \in Workers : KeyMatches(w))
        => Winners # {}

\* Every request whose handling began is answered, unless the process dies: no
\* retry loop and no pair of locks holds a worker for ever.
RequestsAreAnswered ==
    \A w \in Workers : (pc[w] # "new") ~> (response[w] # "none" \/ ~alive)

\* The handler implements the abstract sale of Sale.tla, which may lose a COMMIT
\* where MySQL can: even then "1" is given only to a registered user with no order
\* while there is stock, and the tables are left as they were.
TheSale == INSTANCE Sale WITH asked <- request, stock <- g_totalcount,
                              orders <- order_info, answer <- response,
                              LossyCommit <- "commit_drop" \in Faults
ImplementsSale == TheSale!SaleSpec

\* README.md:9 "录入mysql数据库失败则记录下来重新加入redis": an item whose order
\* MySQL did not take is recorded and returns to Redis.  Then the items of MySQL
\* are always accounted for.
NoItemLost == total_count + Recorded + Cardinality(InFlight) = g_totalcount

\* README.md:12: when Redis cannot be reached the request is served from MySQL.
RedisDownIsServed == \A w \in Workers : conn[w] = "null" => alive
=============================================================================
